---------------------------- MODULE GlyphsProofs ----------------------------
(***************************************************************************)
(* Proofs about Glyphs, for characters and chunks of every length.         *)
(*                                                                         *)
(* First the types, of the operators and then of the variables (Types):    *)
(* the folds over code points and bytes are what Foundations says of       *)
(* folds.  Then the agreement of on_text with the reference.  Matched says *)
(* when the terminal and the combining buffer are those of a reference:    *)
(* either a mark would join the same glyph in both (Shared), or in neither *)
(* (Apart).  One more code point keeps a call in agreement (PointAgrees),  *)
(* and with it a whole call (RunAgrees); a control keeps what is matched   *)
(* (ControlMatched).  The invariant is Faithful: unless a deviation has    *)
(* happened, the terminal is matched by a reference from which the rest of *)
(* the chunk leads to ref, and the unfinished character is in one of the   *)
(* two decoders.                                                           *)
(***************************************************************************)
EXTENDS Glyphs, Foundations

(* What the values are.                                                    *)
Text == Byte \ Controls
Symbol == Byte \cup {"INVALID"}
Point == Seq(Symbol)
Decoders == {d \in [need : 0 .. 2, cp : Seq(Lead \cup Continuation)] :
               (d.need = 0) = (d.cp = <<>>)}
Decoded == [dec : Decoders, out : Seq(Point)]
Upright == {g \in Seq(Point) : WidthOf(g) \in 0 .. 2}
Glyph == Upright \ {<<>>}
Content == {c \in Seq(Point \cup {"half"}) : Len(c) <= MaxPerCell}
Screens == [Cells -> Content]
Terms == [cells : Screens, row : 0 .. Rows - 1, col : 0 .. Cols - 1, at_phantom : BOOLEAN]
Buffers == [chars : {c \in Seq(Point) : Len(c) <= CombineSize}, width : 0 .. 2, pos : Cells]
Refs == [dec : Decoders, term : Terms, last : [glyph : Upright, at : Cells]]

(* The width of a glyph is that of its characters together.                *)
WidthsStep == [x \in Nat \X Point |-> x[1] + Width(x[2])]

LEMMA WidthsType == 0 \in Nat /\ WidthsStep \in [Nat \X Point -> Nat]
BY DEF WidthsStep, Width

(* WidthOf, character by character.                                         *)
LEMMA WidthsReads ==
  ASSUME NEW g \in Seq(Point)
  PROVE  \E q : /\ Folding(q, Nat, Point, WidthsStep, 0, g)
                /\ WidthOf(g) = q[Len(g)]
<1> DEFINE N == Len(g)
           Reads(q) == q = [n \in 0 .. N |-> IF n = 0 THEN 0 ELSE q[n - 1] + Width(g[n])]
           rec == CHOOSE q : Reads(q)
<1>1. N \in Nat /\ \A k \in 1 .. N : g[k] \in Point
  BY LenProperties, ElementOfSeq
<1>2. 0 \in Nat /\ WidthsStep \in [(Nat) \X Point -> Nat]
  BY WidthsType
<1>3. PICK q : Folding(q, Nat, Point, WidthsStep, 0, g)
  BY <1>2, FoldExists
<1>4. WidthOf(g) = rec[N]
  BY DEF WidthOf
<1> HIDE DEF N
<1>5. q \in [0 .. N -> Nat] /\ q[0] = 0
  BY <1>3 DEF Folding, N
<1>6. \A y \in Nat, k \in 1 .. N : WidthsStep[<<y, g[k]>>] = y + Width(g[k])
  BY <1>1, <1>2 DEF WidthsStep
<1>7. ASSUME NEW k \in 1 .. N PROVE q[k] = q[k - 1] + Width(g[k])
  <2>1. q[k - 1] \in Nat
    BY <1>1, <1>5
  <2>2. q[k] = WidthsStep[<<q[k - 1], g[k]>>]
    BY <1>3 DEF Folding, N
  <2> QED BY <1>6, <2>1, <2>2
<1>8. Reads(rec)
  <2>1. q = [n \in 0 .. N |-> q[n]]
    BY <1>5
  <2>2. \A n \in 0 .. N : q[n] = IF n = 0 THEN 0 ELSE q[n - 1] + Width(g[n])
    BY <1>1, <1>5, <1>7
  <2>3. Reads(q)
    BY <2>1, <2>2
  <2> HIDE DEF Reads
  <2> QED BY <2>3
<1> HIDE DEF rec
<1>9. rec[0] = 0 /\ \A k \in 1 .. N : rec[k] = rec[k - 1] + Width(g[k])
  BY <1>1, <1>8
<1>10. Follows(rec, Nat, WidthsStep, 0, g)
  BY <1>6, <1>9 DEF Follows, N
<1>11. SameEnd(rec, q, g)
  BY <1>2, <1>3, <1>10, FoldSame
<1> QED BY <1>3, <1>4, <1>11 DEF SameEnd, N

LEMMA Widths ==
  ASSUME NEW g \in Seq(Point), NEW e \in Point
  PROVE  /\ WidthOf(<<>>) = 0
         /\ WidthOf(g) \in Nat
         /\ WidthOf(Append(g, e)) = WidthOf(g) + Width(e)
<1> DEFINE more == Append(g, e)
<1>1. <<>> \in Seq(Point) /\ more \in Seq(Point)
  BY EmptySeq, AppendProperties
<1>2. 0 \in Nat /\ WidthsStep \in [(Nat) \X Point -> Nat]
  BY WidthsType
<1> HIDE DEF more
<1>3. PICK z : Folding(z, Nat, Point, WidthsStep, 0, <<>>) /\ WidthOf(<<>>) = z[Len(<<>>)]
  BY <1>1, WidthsReads
<1>4. PICK q : Folding(q, Nat, Point, WidthsStep, 0, g) /\ WidthOf(g) = q[Len(g)]
  BY WidthsReads
<1>5. PICK p : Folding(p, Nat, Point, WidthsStep, 0, more) /\ WidthOf(more) = p[Len(more)]
  BY <1>1, WidthsReads
<1>6. WidthOf(<<>>) = 0
  BY <1>3 DEF Folding
<1>7. Further(q, p, Nat, WidthsStep, g, e)
  BY <1>2, <1>4, <1>5, FoldMore DEF more
<1>8. \A y \in Nat : WidthsStep[<<y, e>>] = y + Width(e)
  BY <1>2 DEF WidthsStep
<1> QED BY <1>4, <1>5, <1>6, <1>7, <1>8 DEF Further, more

LEMMA One ==
  ASSUME NEW cp \in Point
  PROVE  WidthOf(<<cp>>) = Width(cp) /\ <<cp>> \in Glyph /\ <<>> \in Upright
<1>1. <<>> \in Seq(Point) /\ <<cp>> = Append(<<>>, cp) /\ <<cp>> \in Seq(Point)
  BY EmptySeq, AppendProperties
<1>2. WidthOf(<<>>) = 0 /\ WidthOf(Append(<<>>, cp)) = WidthOf(<<>>) + Width(cp)
  BY <1>1, Widths
<1>3. Width(cp) \in 0 .. 2
  BY DEF Width
<1>4. WidthOf(<<cp>>) = Width(cp)
  BY <1>1, <1>2, <1>3
<1>5. <<cp>> # <<>>
  OBVIOUS
<1> QED BY <1>1, <1>2, <1>3, <1>4, <1>5 DEF Glyph, Upright

(* A mark adds nothing to the width of its glyph.                          *)
LEMMA MarkMore ==
  ASSUME NEW g \in Upright, NEW cp \in Point, Combining(cp)
  PROVE  Append(g, cp) \in Glyph /\ WidthOf(Append(g, cp)) = WidthOf(g)
<1>1. g \in Seq(Point) /\ WidthOf(g) \in 0 .. 2
  BY DEF Upright
<1>2. Append(g, cp) \in Seq(Point) /\ Append(g, cp) # <<>>
  BY <1>1, AppendProperties
<1>3. WidthOf(Append(g, cp)) = WidthOf(g) + Width(cp)
  BY <1>1, Widths
<1>4. Width(cp) = 0
  BY DEF Width
<1> QED BY <1>1, <1>2, <1>3, <1>4 DEF Glyph, Upright

LEMMA FitsType ==
  ASSUME NEW chars \in Seq(Point)
  PROVE  Fits(chars) \in Content /\ (chars # <<>> => Fits(chars) # Blank)
<1> DEFINE n == IF Len(chars) < MaxPerCell THEN Len(chars) ELSE MaxPerCell
           S == Point \cup {"half"}
<1>1. n \in Nat /\ n <= Len(chars) /\ n <= MaxPerCell /\ (Len(chars) # 0 => n # 0)
  BY GlyphsAssumption
<1>2. \A i \in 1 .. n : chars[i] \in S
  BY <1>1, ElementOfSeq
<1> HIDE DEF n, S
<1>3. SubSeq(chars, 1, n) \in Seq(S) /\ Len(SubSeq(chars, 1, n)) = n
  <2>1. /\ SubSeq(chars, 1, n) \in Seq(S)
        /\ Len(SubSeq(chars, 1, n)) = IF 1 <= n THEN n - 1 + 1 ELSE 0
    BY <1>1, <1>2, SubSeqProperties
  <2> QED BY <1>1, <2>1
<1>4. chars # <<>> => Len(chars) # 0
  BY EmptySeq
<1>5. Fits(chars) = SubSeq(chars, 1, n)
  BY DEF Fits, n
<1>6. n # 0 => SubSeq(chars, 1, n) # <<>>
  BY <1>3
<1> QED BY <1>1, <1>3, <1>4, <1>5, <1>6 DEF Content, Blank, S

LEMMA HalfBlank == Half \in Content /\ Blank \in Content
<1>1. Half \in Seq(Point \cup {"half"}) /\ Len(Half) = 1 /\ Blank \in Seq(Point \cup {"half"})
  BY DEF Half, Blank
<1> QED BY <1>1, GlyphsAssumption DEF Content, Blank

LEMMA PutglyphType ==
  ASSUME NEW cells \in Screens, NEW chars \in Seq(Point), NEW width, NEW at
  PROVE  putglyph(cells, chars, width, at) \in Screens
<1>1. Fits(chars) \in Content /\ Half \in Content
  BY FitsType, HalfBlank
<1> QED BY <1>1 DEF putglyph, Screens

(* The fields of a terminal, and a change of one.                          *)
Fields(t, cells, row, col, phantom) ==
  t.cells = cells /\ t.row = row /\ t.col = col /\ t.at_phantom = phantom

LEMMA TermWith ==
  ASSUME NEW t \in Terms
  PROVE  /\ Fields(t, t.cells, t.row, t.col, t.at_phantom)
         /\ \A c \in Screens : /\ [t EXCEPT !.cells = c] \in Terms
                              /\ Fields([t EXCEPT !.cells = c], c, t.row, t.col, t.at_phantom)
         /\ \A r \in 0 .. Rows - 1 :
              /\ [t EXCEPT !.row = r] \in Terms
              /\ Fields([t EXCEPT !.row = r], t.cells, r, t.col, t.at_phantom)
         /\ \A c \in 0 .. Cols - 1 :
              /\ [t EXCEPT !.col = c] \in Terms
              /\ Fields([t EXCEPT !.col = c], t.cells, t.row, c, t.at_phantom)
         /\ [t EXCEPT !.at_phantom = TRUE] \in Terms
         /\ Fields([t EXCEPT !.at_phantom = TRUE], t.cells, t.row, t.col, TRUE)
         /\ [t EXCEPT !.at_phantom = FALSE] \in Terms
         /\ Fields([t EXCEPT !.at_phantom = FALSE], t.cells, t.row, t.col, FALSE)
BY DEF Fields, Terms

Scrolled(cells) ==
  [p \in Cells |-> IF p[1] = Rows - 1 THEN Blank ELSE cells[<<p[1] + 1, p[2]>>]]

LEMMA LinefeedType ==
  ASSUME NEW t \in Terms
  PROVE  /\ linefeed(t) \in Terms
         /\ t.row < Rows - 1 =>
              Fields(linefeed(t), t.cells, t.row + 1, t.col, t.at_phantom)
         /\ ~(t.row < Rows - 1) =>
              Fields(linefeed(t), Scrolled(t.cells), t.row, t.col, t.at_phantom)
<1>1. t.cells \in Screens /\ t.row \in 0 .. Rows - 1
  BY DEF Terms
<1>2. Scrolled(t.cells) \in Screens
  <2>1. \A p \in Cells : p[1] # Rows - 1 => <<p[1] + 1, p[2]>> \in Cells
    BY GlyphsAssumption DEF Cells
  <2> QED BY <1>1, <2>1, HalfBlank DEF Screens, Scrolled
<1>3. ASSUME t.row < Rows - 1
      PROVE  /\ linefeed(t) \in Terms
             /\ Fields(linefeed(t), t.cells, t.row + 1, t.col, t.at_phantom)
  <2>1. linefeed(t) = [t EXCEPT !.row = t.row + 1]
    BY <1>3 DEF linefeed
  <2>2. t.row + 1 \in 0 .. Rows - 1
    BY <1>1, <1>3, GlyphsAssumption
  <2> QED BY <2>1, <2>2, TermWith
<1>4. ASSUME ~(t.row < Rows - 1)
      PROVE  /\ linefeed(t) \in Terms
             /\ Fields(linefeed(t), Scrolled(t.cells), t.row, t.col, t.at_phantom)
  <2>1. linefeed(t) = [t EXCEPT !.cells = Scrolled(t.cells)]
    BY <1>4 DEF linefeed, Scrolled
  <2> QED BY <1>2, <2>1, TermWith
<1> QED BY <1>3, <1>4

LEMMA WrappedType ==
  ASSUME NEW t \in Terms
  PROVE  /\ Wrapped(t) \in Terms
         /\ Wrapped(t).at_phantom = FALSE
         /\ Pos(Wrapped(t)) \in Cells
         /\ ~t.at_phantom => Wrapped(t) = t
<1> DEFINE l == linefeed(t)
           m == [l EXCEPT !.col = 0]
<1>1. l \in Terms
  BY LinefeedType
<1>2. t.at_phantom \in BOOLEAN
  BY DEF Terms
<1>3. CASE t.at_phantom
  <2> HIDE DEF l
  <2>1. m \in Terms
    <3>1. 0 \in 0 .. Cols - 1
      BY GlyphsAssumption
    <3> QED BY <1>1, <3>1, TermWith
  <2>2. Wrapped(t) = [m EXCEPT !.at_phantom = FALSE]
    <3>1. Wrapped(t) = [l EXCEPT !.col = 0, !.at_phantom = FALSE]
      BY <1>3 DEF Wrapped, l
    <3> QED BY <1>1, <3>1 DEF Terms
  <2> HIDE DEF m
  <2>3. Wrapped(t) \in Terms /\ Wrapped(t).at_phantom = FALSE
    <3> DEFINE x == [m EXCEPT !.at_phantom = FALSE]
    <3>1. x \in Terms /\ Fields(x, m.cells, m.row, m.col, FALSE)
      BY <2>1, TermWith
    <3> HIDE DEF x
    <3>2. x.at_phantom = FALSE
      BY <3>1 DEF Fields
    <3> QED BY <2>2, <3>1, <3>2 DEF x
  <2> QED BY <1>3, <2>3 DEF Pos, Cells, Terms
<1>4. CASE ~t.at_phantom
  <2>1. Wrapped(t) = t
    BY <1>4 DEF Wrapped
  <2>2. t.at_phantom = FALSE
    BY <1>2, <1>4
  <2> QED BY <2>1, <2>2 DEF Pos, Cells, Terms
<1> QED BY <1>3, <1>4

LEMMA PutType ==
  ASSUME NEW t \in Terms, NEW g \in Glyph
  PROVE  Put(t, g) \in Terms
<1> DEFINE w == Wrapped(t)
           v == [w EXCEPT !.cells = putglyph(@, g, WidthOf(g), Pos(w))]
<1>1. w \in Terms
  BY WrappedType
<1>2. g \in Seq(Point) /\ WidthOf(g) \in 0 .. 2
  BY DEF Glyph, Upright
<1> HIDE DEF w
<1>3. v \in Terms
  <2>1. w.cells \in Screens
    BY <1>1 DEF Terms
  <2>2. putglyph(w.cells, g, WidthOf(g), Pos(w)) \in Screens
    BY <1>2, <2>1, PutglyphType
  <2> QED BY <1>1, <2>2 DEF Terms
<1> HIDE DEF v
<1>4. Moved(v, WidthOf(g)) \in Terms
  <2>1. v.col \in 0 .. Cols - 1
    BY <1>3 DEF Terms
  <2>2. CASE v.col + WidthOf(g) >= Cols
    BY <1>3, <2>2, TermWith DEF Moved
  <2>3. CASE ~(v.col + WidthOf(g) >= Cols)
    <3>1. Moved(v, WidthOf(g)) = [v EXCEPT !.col = v.col + WidthOf(g)]
      BY <2>3 DEF Moved
    <3>2. v.col + WidthOf(g) \in 0 .. Cols - 1
      BY <1>2, <2>1, <2>3, GlyphsAssumption
    <3> QED BY <1>3, <3>1, <3>2, TermWith
  <2> QED BY <2>2, <2>3
<1> QED BY <1>4 DEF Put, v, w

LEMMA OnControlType ==
  ASSUME NEW t \in Terms, NEW b \in {"CR", "LF"}
  PROVE  OnControl(t, b) \in Terms
<1> DEFINE m == IF b = "CR" THEN [t EXCEPT !.col = 0] ELSE linefeed(t)
<1>1. m \in Terms
  <2>1. 0 \in 0 .. Cols - 1
    BY GlyphsAssumption
  <2> QED BY <2>1, LinefeedType, TermWith
<1>2. OnControl(t, b) = IF Pos(m) = Pos(t) THEN m ELSE [m EXCEPT !.at_phantom = FALSE]
  <2>1. b = "CR" \/ (b = "LF" /\ b # "CR")
    OBVIOUS
  <2> QED BY <2>1 DEF OnControl
<1> HIDE DEF m
<1> QED BY <1>1, <1>2, TermWith

LEMMA ResetType == ResetTerm \in Terms /\ <<0, 0>> \in Cells
<1>1. BlankScreen \in Screens
  BY HalfBlank DEF BlankScreen, Screens
<1> QED BY <1>1, GlyphsAssumption DEF ResetTerm, Terms, Cells

LEMMA DecodeType ==
  ASSUME NEW d \in Decoders, NEW b \in Text
  PROVE  Decode(d, b) \in Decoded
<1> DEFINE cp == Append(d.cp, b)
<1>1. d.need \in 0 .. 2 /\ d.cp \in Seq(Lead \cup Continuation) /\ ((d.need = 0) = (d.cp = <<>>))
  BY DEF Decoders
<1>2. Invalid \in Point /\ <<"a">> \in Point
  BY DEF Invalid, Point, Symbol, Byte
<1>3. Broken(d) \in Seq(Point)
  BY <1>2 DEF Broken
<1>4. NoChar \in Decoders
  BY DEF NoChar, Decoders
<1>5. ASSUME b = "a" PROVE Decode(d, b) \in Decoded
  <2>1. Append(Broken(d), <<"a">>) \in Seq(Point)
    BY <1>2, <1>3, AppendProperties
  <2>2. Decode(d, b) = [dec |-> NoChar, out |-> Append(Broken(d), <<"a">>)]
    BY <1>5 DEF Decode, Lead, Continuation
  <2> QED BY <1>4, <2>1, <2>2 DEF Decoded
<1>6. ASSUME b \in Lead PROVE Decode(d, b) \in Decoded
  <2>1. b # "a"
    BY <1>6 DEF Lead
  <2>2. [need |-> Following(b), cp |-> <<b>>] \in Decoders
    <3>1. <<b>> \in Seq(Lead \cup Continuation) /\ <<b>> # <<>>
      BY <1>6
    <3>2. Following(b) \in 1 .. 2
      BY DEF Following
    <3> DEFINE n == Following(b)
               c == <<b>>
    <3>3. n # 0 /\ n \in 0 .. 2
      BY <3>2
    <3> HIDE DEF n, c
    <3>4. [need |-> n, cp |-> c] \in Decoders
      BY <3>1, <3>3 DEF Decoders, c
    <3> QED BY <3>4 DEF n, c
  <2>3. Decode(d, b) = [dec |-> [need |-> Following(b), cp |-> <<b>>], out |-> Broken(d)]
    BY <1>6, <2>1 DEF Decode, Lead, Continuation
  <2> QED BY <1>3, <2>2, <2>3 DEF Decoded
<1>7. ASSUME b \in Continuation PROVE Decode(d, b) \in Decoded
  <2>1. b # "a" /\ b \notin Lead
    BY <1>7 DEF Lead, Continuation
  <2>2. cp \in Seq(Lead \cup Continuation) /\ cp # <<>>
    BY <1>1, <1>7, AppendProperties
  <2>3. cp \in Point
    <3>1. Lead \cup Continuation \subseteq Symbol
      BY DEF Symbol, Byte
    <3> HIDE DEF cp
    <3> QED BY <2>2, <3>1 DEF Point
  <2> HIDE DEF cp
  <2>4. Checked(cp) \in Point
    BY <1>2, <2>3 DEF Checked
  <2>5. CASE d.need = 0
    <3>1. Decode(d, b) = [dec |-> d, out |-> <<Invalid>>]
      BY <1>7, <2>1, <2>5 DEF Decode
    <3> QED BY <1>2, <3>1 DEF Decoded
  <2>6. CASE d.need = 1
    <3>1. Decode(d, b) = [dec |-> NoChar, out |-> <<Checked(cp)>>]
      BY <1>7, <2>1, <2>6 DEF Decode, cp
    <3> QED BY <1>4, <2>4, <3>1 DEF Decoded
  <2>7. CASE d.need = 2
    <3>1. Decode(d, b) = [dec |-> [need |-> d.need - 1, cp |-> cp], out |-> <<>>]
      BY <1>7, <2>1, <2>7 DEF Decode, cp
    <3>2. [need |-> d.need - 1, cp |-> cp] \in Decoders
      BY <2>2, <2>7 DEF Decoders
    <3> QED BY <3>1, <3>2 DEF Decoded
  <2> QED BY <1>1, <2>5, <2>6, <2>7
<1> QED BY <1>5, <1>6, <1>7 DEF Text, Byte

(* What decode_utf8 does with the bytes of a call, one by one.             *)
DecodingStep == [x \in Decoded \X Text |-> DecodeNext(x[1], x[2])]

LEMMA DecodingType ==
  ASSUME NEW d \in Decoders
  PROVE  /\ [dec |-> d, out |-> <<>>] \in Decoded
         /\ DecodingStep \in [Decoded \X Text -> Decoded]
<1>1. ASSUME NEW s \in Decoded, NEW b \in Text PROVE DecodeNext(s, b) \in Decoded
  <2> DEFINE r == Decode(s.dec, b)
  <2>1. s.dec \in Decoders /\ s.out \in Seq(Point)
    BY DEF Decoded
  <2>2. r \in Decoded
    BY <2>1, DecodeType
  <2> HIDE DEF r
  <2>3. r.dec \in Decoders /\ r.out \in Seq(Point)
    BY <2>2 DEF Decoded
  <2>4. s.out \o r.out \in Seq(Point)
    BY <2>1, <2>3, ConcatProperties
  <2>5. DecodeNext(s, b) = [dec |-> r.dec, out |-> s.out \o r.out]
    BY DEF DecodeNext, r
  <2> QED BY <2>3, <2>4, <2>5 DEF Decoded
<1>2. <<>> \in Seq(Point)
  BY EmptySeq
<1> QED BY <1>1, <1>2 DEF DecodingStep, Decoded

(* decode_utf8, byte by byte.                                              *)
LEMMA DecodingReads ==
  ASSUME NEW d \in Decoders, NEW run \in Seq(Text)
  PROVE  \E q : /\ Folding(q, Decoded, Text, DecodingStep, [dec |-> d, out |-> <<>>], run)
                /\ decode_utf8(d, run) = q[Len(run)]
<1> DEFINE N == Len(run)
           Reads(q) == q = [n \in 0 .. N |-> IF n = 0 THEN [dec |-> d, out |-> <<>>] ELSE DecodeNext(q[n - 1], run[n])]
           rec == CHOOSE q : Reads(q)
<1>1. N \in Nat /\ \A k \in 1 .. N : run[k] \in Text
  BY LenProperties, ElementOfSeq
<1>2. [dec |-> d, out |-> <<>>] \in Decoded /\ DecodingStep \in [(Decoded) \X Text -> Decoded]
  BY DecodingType
<1>3. PICK q : Folding(q, Decoded, Text, DecodingStep, [dec |-> d, out |-> <<>>], run)
  BY <1>2, FoldExists
<1>4. decode_utf8(d, run) = rec[N]
  BY DEF decode_utf8
<1> HIDE DEF N
<1>5. q \in [0 .. N -> Decoded] /\ q[0] = [dec |-> d, out |-> <<>>]
  BY <1>3 DEF Folding, N
<1>6. \A y \in Decoded, k \in 1 .. N : DecodingStep[<<y, run[k]>>] = DecodeNext(y, run[k])
  BY <1>1, <1>2 DEF DecodingStep
<1>7. ASSUME NEW k \in 1 .. N PROVE q[k] = DecodeNext(q[k - 1], run[k])
  <2>1. q[k - 1] \in Decoded
    BY <1>1, <1>5
  <2>2. q[k] = DecodingStep[<<q[k - 1], run[k]>>]
    BY <1>3 DEF Folding, N
  <2> QED BY <1>6, <2>1, <2>2
<1>8. Reads(rec)
  <2>1. q = [n \in 0 .. N |-> q[n]]
    BY <1>5
  <2>2. \A n \in 0 .. N : q[n] = IF n = 0 THEN [dec |-> d, out |-> <<>>] ELSE DecodeNext(q[n - 1], run[n])
    BY <1>1, <1>5, <1>7
  <2>3. Reads(q)
    BY <2>1, <2>2
  <2> HIDE DEF Reads
  <2> QED BY <2>3
<1> HIDE DEF rec
<1>9. rec[0] = [dec |-> d, out |-> <<>>] /\ \A k \in 1 .. N : rec[k] = DecodeNext(rec[k - 1], run[k])
  BY <1>1, <1>8
<1>10. Follows(rec, Decoded, DecodingStep, [dec |-> d, out |-> <<>>], run)
  BY <1>6, <1>9 DEF Follows, N
<1>11. SameEnd(rec, q, run)
  BY <1>2, <1>3, <1>10, FoldSame
<1> QED BY <1>3, <1>4, <1>11 DEF SameEnd, N

LEMMA Decoding ==
  ASSUME NEW d \in Decoders, NEW run \in Seq(Text), NEW e \in Text
  PROVE  /\ decode_utf8(d, <<>>) = [dec |-> d, out |-> <<>>]
         /\ decode_utf8(d, run) \in Decoded
         /\ decode_utf8(d, Append(run, e)) = DecodeNext(decode_utf8(d, run), e)
<1> DEFINE more == Append(run, e)
<1>1. <<>> \in Seq(Text) /\ more \in Seq(Text)
  BY EmptySeq, AppendProperties
<1>2. [dec |-> d, out |-> <<>>] \in Decoded /\ DecodingStep \in [(Decoded) \X Text -> Decoded]
  BY DecodingType
<1> HIDE DEF more
<1>3. PICK z : Folding(z, Decoded, Text, DecodingStep, [dec |-> d, out |-> <<>>], <<>>) /\ decode_utf8(d, <<>>) = z[Len(<<>>)]
  BY <1>1, DecodingReads
<1>4. PICK q : Folding(q, Decoded, Text, DecodingStep, [dec |-> d, out |-> <<>>], run) /\ decode_utf8(d, run) = q[Len(run)]
  BY DecodingReads
<1>5. PICK p : Folding(p, Decoded, Text, DecodingStep, [dec |-> d, out |-> <<>>], more) /\ decode_utf8(d, more) = p[Len(more)]
  BY <1>1, DecodingReads
<1>6. decode_utf8(d, <<>>) = [dec |-> d, out |-> <<>>]
  BY <1>3 DEF Folding
<1>7. Further(q, p, Decoded, DecodingStep, run, e)
  BY <1>2, <1>4, <1>5, FoldMore DEF more
<1>8. \A y \in Decoded : DecodingStep[<<y, e>>] = DecodeNext(y, e)
  BY <1>2 DEF DecodingStep
<1> QED BY <1>4, <1>5, <1>6, <1>7, <1>8 DEF Further, more

LEMMA DecodedType ==
  ASSUME NEW d \in Decoders, NEW run \in Seq(Text)
  PROVE  /\ decode_utf8(d, run) \in Decoded
         /\ decode_utf8(d, <<>>) = [dec |-> d, out |-> <<>>]
<1>1. "a" \in Text
  BY DEF Text, Byte, Controls
<1> QED BY <1>1, Decoding

(* The glyphs of a call.                                                   *)
LEMMA GroupedIs ==
  ASSUME NEW gs \in Seq(Glyph), NEW cp \in Point
  PROVE  /\ Grouped(gs, cp) \in Seq(Glyph) /\ Grouped(gs, cp) # <<>>
         /\ Combining(cp) /\ gs # <<>> =>
              /\ Len(Grouped(gs, cp)) = Len(gs)
              /\ \A i \in 1 .. Len(gs) :
                   Grouped(gs, cp)[i] = IF i = Len(gs) THEN Append(gs[i], cp) ELSE gs[i]
         /\ ~(Combining(cp) /\ gs # <<>>) => Grouped(gs, cp) = Append(gs, <<cp>>)
<1> DEFINE n == Len(gs)
<1>1. n \in Nat /\ (gs # <<>> => n # 0)
  BY LenProperties, EmptySeq
<1>2. CASE Combining(cp) /\ gs # <<>>
  <2> DEFINE g == Append(gs[n], cp)
             hs == [gs EXCEPT ![n] = g]
  <2>1. n \in 1 .. n
    BY <1>1, <1>2
  <2>2. gs[n] \in Glyph
    BY <2>1, ElementOfSeq
  <2>3. g \in Glyph
    BY <1>2, <2>2, MarkMore DEF Glyph
  <2>4. Grouped(gs, cp) = hs
    BY <1>2 DEF Grouped
  <2> HIDE DEF g
  <2>7. /\ hs \in Seq(Glyph) /\ Len(hs) = n
        /\ \A i \in 1 .. n : hs[i] = IF i = n THEN g ELSE gs[i]
    BY <2>1, <2>3, ExceptSeq
  <2> HIDE DEF hs, n
  <2>8. hs # <<>>
    BY <1>1, <1>2, <2>7, EmptySeq
  <2> QED BY <1>2, <2>4, <2>7, <2>8 DEF n, g
<1>3. CASE ~(Combining(cp) /\ gs # <<>>)
  <2>1. Grouped(gs, cp) = Append(gs, <<cp>>)
    BY <1>3 DEF Grouped
  <2>2. <<cp>> \in Glyph
    BY One
  <2>3. Append(gs, <<cp>>) \in Seq(Glyph) /\ Append(gs, <<cp>>) # <<>>
    BY <2>2, AppendProperties
  <2> QED BY <1>3, <2>1, <2>3
<1> QED BY <1>2, <1>3

GroupingStep == [x \in Seq(Glyph) \X Point |-> Grouped(x[1], x[2])]

LEMMA GroupingType ==
  <<>> \in Seq(Glyph) /\ GroupingStep \in [Seq(Glyph) \X Point -> Seq(Glyph)]
BY GroupedIs, EmptySeq DEF GroupingStep

(* Glyphs, point by point.                                                 *)
LEMMA GroupingReads ==
  ASSUME NEW points \in Seq(Point)
  PROVE  \E q : /\ Folding(q, Seq(Glyph), Point, GroupingStep, <<>>, points)
                /\ Glyphs(points) = q[Len(points)]
<1> DEFINE N == Len(points)
           Reads(q) == q = [n \in 0 .. N |-> IF n = 0 THEN <<>> ELSE Grouped(q[n - 1], points[n])]
           rec == CHOOSE q : Reads(q)
<1>1. N \in Nat /\ \A k \in 1 .. N : points[k] \in Point
  BY LenProperties, ElementOfSeq
<1>2. <<>> \in Seq(Glyph) /\ GroupingStep \in [(Seq(Glyph)) \X Point -> Seq(Glyph)]
  BY GroupingType
<1>3. PICK q : Folding(q, Seq(Glyph), Point, GroupingStep, <<>>, points)
  BY <1>2, FoldExists
<1>4. Glyphs(points) = rec[N]
  BY DEF Glyphs
<1> HIDE DEF N
<1>5. q \in [0 .. N -> Seq(Glyph)] /\ q[0] = <<>>
  BY <1>3 DEF Folding, N
<1>6. \A y \in Seq(Glyph), k \in 1 .. N : GroupingStep[<<y, points[k]>>] = Grouped(y, points[k])
  BY <1>1, <1>2 DEF GroupingStep
<1>7. ASSUME NEW k \in 1 .. N PROVE q[k] = Grouped(q[k - 1], points[k])
  <2>1. q[k - 1] \in Seq(Glyph)
    BY <1>1, <1>5
  <2>2. q[k] = GroupingStep[<<q[k - 1], points[k]>>]
    BY <1>3 DEF Folding, N
  <2> QED BY <1>6, <2>1, <2>2
<1>8. Reads(rec)
  <2>1. q = [n \in 0 .. N |-> q[n]]
    BY <1>5
  <2>2. \A n \in 0 .. N : q[n] = IF n = 0 THEN <<>> ELSE Grouped(q[n - 1], points[n])
    BY <1>1, <1>5, <1>7
  <2>3. Reads(q)
    BY <2>1, <2>2
  <2> HIDE DEF Reads
  <2> QED BY <2>3
<1> HIDE DEF rec
<1>9. rec[0] = <<>> /\ \A k \in 1 .. N : rec[k] = Grouped(rec[k - 1], points[k])
  BY <1>1, <1>8
<1>10. Follows(rec, Seq(Glyph), GroupingStep, <<>>, points)
  BY <1>6, <1>9 DEF Follows, N
<1>11. SameEnd(rec, q, points)
  BY <1>2, <1>3, <1>10, FoldSame
<1> QED BY <1>3, <1>4, <1>11 DEF SameEnd, N

LEMMA Grouping ==
  ASSUME NEW points \in Seq(Point), NEW e \in Point
  PROVE  /\ Glyphs(<<>>) = <<>>
         /\ Glyphs(points) \in Seq(Glyph)
         /\ Glyphs(Append(points, e)) = Grouped(Glyphs(points), e)
<1> DEFINE more == Append(points, e)
<1>1. <<>> \in Seq(Point) /\ more \in Seq(Point)
  BY EmptySeq, AppendProperties
<1>2. <<>> \in Seq(Glyph) /\ GroupingStep \in [(Seq(Glyph)) \X Point -> Seq(Glyph)]
  BY GroupingType
<1> HIDE DEF more
<1>3. PICK z : Folding(z, Seq(Glyph), Point, GroupingStep, <<>>, <<>>) /\ Glyphs(<<>>) = z[Len(<<>>)]
  BY <1>1, GroupingReads
<1>4. PICK q : Folding(q, Seq(Glyph), Point, GroupingStep, <<>>, points) /\ Glyphs(points) = q[Len(points)]
  BY GroupingReads
<1>5. PICK p : Folding(p, Seq(Glyph), Point, GroupingStep, <<>>, more) /\ Glyphs(more) = p[Len(more)]
  BY <1>1, GroupingReads
<1>6. Glyphs(<<>>) = <<>>
  BY <1>3 DEF Folding
<1>7. Further(q, p, Seq(Glyph), GroupingStep, points, e)
  BY <1>2, <1>4, <1>5, FoldMore DEF more
<1>8. \A y \in Seq(Glyph) : GroupingStep[<<y, e>>] = Grouped(y, e)
  BY <1>2 DEF GroupingStep
<1> QED BY <1>4, <1>5, <1>6, <1>7, <1>8 DEF Further, more

PuttingStep == [x \in Terms \X Glyph |-> Put(x[1], x[2])]

LEMMA PuttingType ==
  ASSUME NEW t \in Terms
  PROVE  t \in Terms /\ PuttingStep \in [Terms \X Glyph -> Terms]
BY PutType DEF PuttingStep

(* PutAll, glyph by glyph.                                                 *)
LEMMA PuttingReads ==
  ASSUME NEW t \in Terms, NEW gs \in Seq(Glyph)
  PROVE  \E q : /\ Folding(q, Terms, Glyph, PuttingStep, t, gs)
                /\ PutAll(t, gs) = q[Len(gs)]
<1> DEFINE N == Len(gs)
           Reads(q) == q = [n \in 0 .. N |-> IF n = 0 THEN t ELSE Put(q[n - 1], gs[n])]
           rec == CHOOSE q : Reads(q)
<1>1. N \in Nat /\ \A k \in 1 .. N : gs[k] \in Glyph
  BY LenProperties, ElementOfSeq
<1>2. t \in Terms /\ PuttingStep \in [(Terms) \X Glyph -> Terms]
  BY PuttingType
<1>3. PICK q : Folding(q, Terms, Glyph, PuttingStep, t, gs)
  BY <1>2, FoldExists
<1>4. PutAll(t, gs) = rec[N]
  BY DEF PutAll
<1> HIDE DEF N
<1>5. q \in [0 .. N -> Terms] /\ q[0] = t
  BY <1>3 DEF Folding, N
<1>6. \A y \in Terms, k \in 1 .. N : PuttingStep[<<y, gs[k]>>] = Put(y, gs[k])
  BY <1>1, <1>2 DEF PuttingStep
<1>7. ASSUME NEW k \in 1 .. N PROVE q[k] = Put(q[k - 1], gs[k])
  <2>1. q[k - 1] \in Terms
    BY <1>1, <1>5
  <2>2. q[k] = PuttingStep[<<q[k - 1], gs[k]>>]
    BY <1>3 DEF Folding, N
  <2> QED BY <1>6, <2>1, <2>2
<1>8. Reads(rec)
  <2>1. q = [n \in 0 .. N |-> q[n]]
    BY <1>5
  <2>2. \A n \in 0 .. N : q[n] = IF n = 0 THEN t ELSE Put(q[n - 1], gs[n])
    BY <1>1, <1>5, <1>7
  <2>3. Reads(q)
    BY <2>1, <2>2
  <2> HIDE DEF Reads
  <2> QED BY <2>3
<1> HIDE DEF rec
<1>9. rec[0] = t /\ \A k \in 1 .. N : rec[k] = Put(rec[k - 1], gs[k])
  BY <1>1, <1>8
<1>10. Follows(rec, Terms, PuttingStep, t, gs)
  BY <1>6, <1>9 DEF Follows, N
<1>11. SameEnd(rec, q, gs)
  BY <1>2, <1>3, <1>10, FoldSame
<1> QED BY <1>3, <1>4, <1>11 DEF SameEnd, N

LEMMA Putting ==
  ASSUME NEW t \in Terms, NEW gs \in Seq(Glyph), NEW e \in Glyph
  PROVE  /\ PutAll(t, <<>>) = t
         /\ PutAll(t, gs) \in Terms
         /\ PutAll(t, Append(gs, e)) = Put(PutAll(t, gs), e)
<1> DEFINE more == Append(gs, e)
<1>1. <<>> \in Seq(Glyph) /\ more \in Seq(Glyph)
  BY EmptySeq, AppendProperties
<1>2. t \in Terms /\ PuttingStep \in [(Terms) \X Glyph -> Terms]
  BY PuttingType
<1> HIDE DEF more
<1>3. PICK z : Folding(z, Terms, Glyph, PuttingStep, t, <<>>) /\ PutAll(t, <<>>) = z[Len(<<>>)]
  BY <1>1, PuttingReads
<1>4. PICK q : Folding(q, Terms, Glyph, PuttingStep, t, gs) /\ PutAll(t, gs) = q[Len(gs)]
  BY PuttingReads
<1>5. PICK p : Folding(p, Terms, Glyph, PuttingStep, t, more) /\ PutAll(t, more) = p[Len(more)]
  BY <1>1, PuttingReads
<1>6. PutAll(t, <<>>) = t
  BY <1>3 DEF Folding
<1>7. Further(q, p, Terms, PuttingStep, gs, e)
  BY <1>2, <1>4, <1>5, FoldMore DEF more
<1>8. \A y \in Terms : PuttingStep[<<y, e>>] = Put(y, e)
  BY <1>2 DEF PuttingStep
<1> QED BY <1>4, <1>5, <1>6, <1>7, <1>8 DEF Further, more

-----------------------------------------------------------------------------
(* The reference.                                                          *)

LEMMA RefParts ==
  ASSUME NEW r \in Refs
  PROVE  /\ r.dec \in Decoders /\ r.term \in Terms /\ r.term.cells \in Screens
         /\ r.last.glyph \in Upright /\ r.last.at \in Cells
         /\ r = [dec |-> r.dec, term |-> r.term, last |-> r.last]
BY DEF Refs, Terms

(* A state of the reading by its fields, and two of them changed within.   *)
Reading(d, t, l) == [dec |-> d, term |-> t, last |-> l]
WithCells(t, x) == [t EXCEPT !.cells = x]
WithGlyph(l, g) == [l EXCEPT !.glyph = g]
WithLast(r, l) == [r EXCEPT !.last = l]
WithTerm(r, t) == [r EXCEPT !.term = t]
Joined(r, g, x) == [r EXCEPT !.last.glyph = g, !.term.cells = x]

LEMMA JoinedReading ==
  ASSUME NEW d, NEW t, NEW l, NEW g, NEW x
  PROVE  Joined(Reading(d, t, l), g, x) = Reading(d, WithCells(t, x), WithGlyph(l, g))
<1> DEFINE inner == WithGlyph(l, g)
           outer == WithCells(t, x)
<1>1. Joined(Reading(d, t, l), g, x) =
        WithTerm(WithLast(Reading(d, t, l), inner), outer)
  BY DEF Joined, Reading, WithCells, WithGlyph, WithLast, WithTerm
<1> HIDE DEF inner, outer
<1>2. WithLast(Reading(d, t, l), inner) = Reading(d, t, inner)
  BY DEF Reading, WithLast
<1>3. WithTerm(Reading(d, t, inner), outer) = Reading(d, outer, inner)
  BY DEF Reading, WithTerm
<1>4. Joined(Reading(d, t, l), g, x) = Reading(d, outer, inner)
  BY <1>1, <1>2, <1>3
<1> QED BY <1>4 DEF inner, outer

LEMMA JoinedFields ==
  ASSUME NEW r \in Refs, NEW g, NEW x
  PROVE  Joined(r, g, x) = Reading(r.dec, WithCells(r.term, x), [glyph |-> g, at |-> r.last.at])
<1>1. r = Reading(r.dec, r.term, r.last)
  BY DEF Refs, Reading
<1>2. WithGlyph(r.last, g) = [glyph |-> g, at |-> r.last.at]
  <2> DEFINE l == r.last
  <2>1. l \in [glyph : Upright, at : Cells]
    BY DEF Refs
  <2> HIDE DEF l
  <2>2. WithGlyph(l, g) = [glyph |-> g, at |-> l.at]
    BY <2>1 DEF WithGlyph
  <2> QED BY <2>2 DEF l
<1> QED BY <1>1, <1>2, JoinedReading

(* A mark that joins, and what begins a glyph of its own.                  *)
LEMMA RefPutJoins ==
  ASSUME NEW r \in Refs, NEW cp \in Point, Combining(cp), r.last # NoGlyph
  PROVE  RefPut(r, cp) =
           [dec |-> r.dec,
            term |-> [r.term EXCEPT !.cells =
                        putglyph(@, Append(r.last.glyph, cp),
                                 WidthOf(Append(r.last.glyph, cp)), r.last.at)],
            last |-> [glyph |-> Append(r.last.glyph, cp), at |-> r.last.at]]
<1> DEFINE glyph == Append(r.last.glyph, cp)
           cells == putglyph(r.term.cells, glyph, WidthOf(glyph), r.last.at)
<1>1. RefPut(r, cp) = Joined(r, glyph, cells)
  <2>1. [r EXCEPT !.last.glyph = glyph].term = r.term
    <3> HIDE DEF glyph
    <3> QED BY DEF Refs
  <2> QED BY <2>1 DEF RefPut, Joined
<1>2. RefPut(r, cp) = Reading(r.dec, WithCells(r.term, cells), [glyph |-> glyph, at |-> r.last.at])
  <2> HIDE DEF glyph, cells
  <2> QED BY <1>1, JoinedFields
<1> QED BY <1>2, Zenon DEF Reading, WithCells

LEMMA RefPutStarts ==
  ASSUME NEW r \in Refs, NEW cp \in Point, ~(Combining(cp) /\ r.last # NoGlyph)
  PROVE  RefPut(r, cp) =
           [dec |-> r.dec, term |-> Put(r.term, <<cp>>),
            last |-> [glyph |-> <<cp>>, at |-> Pos(Wrapped(r.term))]]
<1>1. RefPut(r, cp) = [r EXCEPT !.term = Put(@, <<cp>>),
                                !.last = [glyph |-> <<cp>>, at |-> Pos(Wrapped(r.term))]]
  BY DEF RefPut
<1> QED BY <1>1 DEF Refs

LEMMA RefPutType ==
  ASSUME NEW r \in Refs, NEW cp \in Point
  PROVE  RefPut(r, cp) \in Refs /\ RefPut(r, cp).dec = r.dec
<1>1. CASE Combining(cp) /\ r.last # NoGlyph
  <2> DEFINE glyph == Append(r.last.glyph, cp)
             screen == putglyph(r.term.cells, glyph, WidthOf(glyph), r.last.at)
  <2>1. glyph \in Upright /\ glyph \in Seq(Point)
    BY <1>1, RefParts, MarkMore DEF Glyph, Upright
  <2>2. screen \in Screens
    BY <2>1, RefParts, PutglyphType
  <2> HIDE DEF glyph
  <2>3. [r.term EXCEPT !.cells = screen] \in Terms
    <3> HIDE DEF screen
    <3> QED BY <2>2, RefParts, TermWith
  <2>4. RefPut(r, cp) = [dec |-> r.dec, term |-> [r.term EXCEPT !.cells = screen],
                         last |-> [glyph |-> glyph, at |-> r.last.at]]
    BY <1>1, RefPutJoins DEF glyph
  <2> HIDE DEF screen
  <2> QED BY <2>1, <2>3, <2>4, RefParts DEF Refs
<1>2. CASE ~(Combining(cp) /\ r.last # NoGlyph)
  <2>1. <<cp>> \in Glyph /\ <<cp>> \in Upright
    BY One DEF Glyph
  <2>2. Put(r.term, <<cp>>) \in Terms /\ Pos(Wrapped(r.term)) \in Cells
    BY <2>1, RefParts, PutType, WrappedType
  <2> QED BY <1>2, <2>1, <2>2, RefParts, RefPutStarts DEF Refs
<1> QED BY <1>1, <1>2

RefPuttingStep == [x \in Refs \X Point |-> RefPut(x[1], x[2])]

LEMMA RefPuttingType ==
  ASSUME NEW r \in Refs
  PROVE  r \in Refs /\ RefPuttingStep \in [Refs \X Point -> Refs]
BY RefPutType DEF RefPuttingStep

(* RefPuts, point by point.                                                *)
LEMMA RefPuttingReads ==
  ASSUME NEW r \in Refs, NEW points \in Seq(Point)
  PROVE  \E q : /\ Folding(q, Refs, Point, RefPuttingStep, r, points)
                /\ RefPuts(r, points) = q[Len(points)]
<1> DEFINE N == Len(points)
           Reads(q) == q = [n \in 0 .. N |-> IF n = 0 THEN r ELSE RefPut(q[n - 1], points[n])]
           rec == CHOOSE q : Reads(q)
<1>1. N \in Nat /\ \A k \in 1 .. N : points[k] \in Point
  BY LenProperties, ElementOfSeq
<1>2. r \in Refs /\ RefPuttingStep \in [(Refs) \X Point -> Refs]
  BY RefPuttingType
<1>3. PICK q : Folding(q, Refs, Point, RefPuttingStep, r, points)
  BY <1>2, FoldExists
<1>4. RefPuts(r, points) = rec[N]
  BY DEF RefPuts
<1> HIDE DEF N
<1>5. q \in [0 .. N -> Refs] /\ q[0] = r
  BY <1>3 DEF Folding, N
<1>6. \A y \in Refs, k \in 1 .. N : RefPuttingStep[<<y, points[k]>>] = RefPut(y, points[k])
  BY <1>1, <1>2 DEF RefPuttingStep
<1>7. ASSUME NEW k \in 1 .. N PROVE q[k] = RefPut(q[k - 1], points[k])
  <2>1. q[k - 1] \in Refs
    BY <1>1, <1>5
  <2>2. q[k] = RefPuttingStep[<<q[k - 1], points[k]>>]
    BY <1>3 DEF Folding, N
  <2> QED BY <1>6, <2>1, <2>2
<1>8. Reads(rec)
  <2>1. q = [n \in 0 .. N |-> q[n]]
    BY <1>5
  <2>2. \A n \in 0 .. N : q[n] = IF n = 0 THEN r ELSE RefPut(q[n - 1], points[n])
    BY <1>1, <1>5, <1>7
  <2>3. Reads(q)
    BY <2>1, <2>2
  <2> HIDE DEF Reads
  <2> QED BY <2>3
<1> HIDE DEF rec
<1>9. rec[0] = r /\ \A k \in 1 .. N : rec[k] = RefPut(rec[k - 1], points[k])
  BY <1>1, <1>8
<1>10. Follows(rec, Refs, RefPuttingStep, r, points)
  BY <1>6, <1>9 DEF Follows, N
<1>11. SameEnd(rec, q, points)
  BY <1>2, <1>3, <1>10, FoldSame
<1> QED BY <1>3, <1>4, <1>11 DEF SameEnd, N

LEMMA RefPutting ==
  ASSUME NEW r \in Refs, NEW points \in Seq(Point), NEW e \in Point
  PROVE  /\ RefPuts(r, <<>>) = r
         /\ RefPuts(r, points) \in Refs
         /\ RefPuts(r, Append(points, e)) = RefPut(RefPuts(r, points), e)
<1> DEFINE more == Append(points, e)
<1>1. <<>> \in Seq(Point) /\ more \in Seq(Point)
  BY EmptySeq, AppendProperties
<1>2. r \in Refs /\ RefPuttingStep \in [(Refs) \X Point -> Refs]
  BY RefPuttingType
<1> HIDE DEF more
<1>3. PICK z : Folding(z, Refs, Point, RefPuttingStep, r, <<>>) /\ RefPuts(r, <<>>) = z[Len(<<>>)]
  BY <1>1, RefPuttingReads
<1>4. PICK q : Folding(q, Refs, Point, RefPuttingStep, r, points) /\ RefPuts(r, points) = q[Len(points)]
  BY RefPuttingReads
<1>5. PICK p : Folding(p, Refs, Point, RefPuttingStep, r, more) /\ RefPuts(r, more) = p[Len(more)]
  BY <1>1, RefPuttingReads
<1>6. RefPuts(r, <<>>) = r
  BY <1>3 DEF Folding
<1>7. Further(q, p, Refs, RefPuttingStep, points, e)
  BY <1>2, <1>4, <1>5, FoldMore DEF more
<1>8. \A y \in Refs : RefPuttingStep[<<y, e>>] = RefPut(y, e)
  BY <1>2 DEF RefPuttingStep
<1> QED BY <1>4, <1>5, <1>6, <1>7, <1>8 DEF Further, more

LEMMA RefPutsType ==
  ASSUME NEW r \in Refs, NEW points \in Seq(Point)
  PROVE  RefPuts(r, points) \in Refs
<1>1. <<>> \in Point
  BY EmptySeq DEF Point
<1> QED BY <1>1, RefPutting

LEMMA RefDecoded ==
  ASSUME NEW r \in Refs, NEW d \in Decoders
  PROVE  [r EXCEPT !.dec = d] \in Refs
BY DEF Refs

LEMMA RefControlIs ==
  ASSUME NEW r \in Refs, NEW b \in Controls
  PROVE  \E t \in Terms, last \in {r.last, NoGlyph} :
           /\ t = IF b = "RIS" THEN ResetTerm ELSE OnControl(r.term, b)
           /\ last = IF Pos(t) = Pos(r.term) /\ t.cells = r.term.cells THEN r.last ELSE NoGlyph
           /\ RefControl(r, b) = [dec |-> r.dec, term |-> t, last |-> last]
<1> DEFINE t == IF b = "RIS" THEN ResetTerm ELSE OnControl(r.term, b)
           still == Pos(t) = Pos(r.term) /\ t.cells = r.term.cells
           last == IF still THEN r.last ELSE NoGlyph
<1>1. t \in Terms
  BY ResetType, OnControlType, RefParts DEF Controls
<1>2. RefControl(r, b) = [r EXCEPT !.term = t, !.last = IF still THEN @ ELSE NoGlyph]
  BY DEF RefControl
<1> HIDE DEF t
<1>3. RefControl(r, b) = [dec |-> r.dec, term |-> t, last |-> last]
  <2> HIDE DEF still
  <2> QED BY <1>2 DEF Refs
<1>4. last \in {r.last, NoGlyph}
  OBVIOUS
<1> HIDE DEF last
<1> QED BY <1>1, <1>3, <1>4 DEF t, last

LEMMA RefByteType ==
  ASSUME NEW r \in Refs, NEW b \in Byte
  PROVE  RefByte(r, b) \in Refs
<1>1. CASE b \in Controls
  <2>1. PICK t \in Terms, last \in {r.last, NoGlyph} :
          RefControl(r, b) = [dec |-> r.dec, term |-> t, last |-> last]
    BY <1>1, RefControlIs
  <2>2. NoGlyph \in [glyph : Upright, at : Cells]
    <3>1. <<>> \in Point
      BY EmptySeq DEF Point
    <3> QED BY <3>1, One, ResetType DEF NoGlyph
  <2>3. last \in [glyph : Upright, at : Cells]
    BY <2>2 DEF Refs
  <2> QED BY <1>1, <2>1, <2>3 DEF RefByte, Refs
<1>2. CASE b \notin Controls
  <2> DEFINE d == Decode(r.dec, b)
  <2>1. d \in Decoded
    BY <1>2, RefParts, DecodeType DEF Text
  <2> HIDE DEF d
  <2>2. [r EXCEPT !.dec = d.dec] \in Refs /\ d.out \in Seq(Point)
    BY <2>1, RefDecoded DEF Decoded
  <2>3. RefByte(r, b) = RefPuts([r EXCEPT !.dec = d.dec], d.out)
    BY <1>2 DEF RefByte, d
  <2> QED BY <2>2, <2>3, RefPutsType
<1> QED BY <1>1, <1>2

RefReadingStep == [x \in Refs \X Byte |-> RefByte(x[1], x[2])]

LEMMA RefReadingType ==
  ASSUME NEW r \in Refs
  PROVE  r \in Refs /\ RefReadingStep \in [Refs \X Byte -> Refs]
BY RefByteType DEF RefReadingStep

(* RefRead, byte by byte.                                                  *)
LEMMA RefReadingReads ==
  ASSUME NEW r \in Refs, NEW run \in Seq(Byte)
  PROVE  \E q : /\ Folding(q, Refs, Byte, RefReadingStep, r, run)
                /\ RefRead(r, run) = q[Len(run)]
<1> DEFINE N == Len(run)
           Reads(q) == q = [n \in 0 .. N |-> IF n = 0 THEN r ELSE RefByte(q[n - 1], run[n])]
           rec == CHOOSE q : Reads(q)
<1>1. N \in Nat /\ \A k \in 1 .. N : run[k] \in Byte
  BY LenProperties, ElementOfSeq
<1>2. r \in Refs /\ RefReadingStep \in [(Refs) \X Byte -> Refs]
  BY RefReadingType
<1>3. PICK q : Folding(q, Refs, Byte, RefReadingStep, r, run)
  BY <1>2, FoldExists
<1>4. RefRead(r, run) = rec[N]
  BY DEF RefRead
<1> HIDE DEF N
<1>5. q \in [0 .. N -> Refs] /\ q[0] = r
  BY <1>3 DEF Folding, N
<1>6. \A y \in Refs, k \in 1 .. N : RefReadingStep[<<y, run[k]>>] = RefByte(y, run[k])
  BY <1>1, <1>2 DEF RefReadingStep
<1>7. ASSUME NEW k \in 1 .. N PROVE q[k] = RefByte(q[k - 1], run[k])
  <2>1. q[k - 1] \in Refs
    BY <1>1, <1>5
  <2>2. q[k] = RefReadingStep[<<q[k - 1], run[k]>>]
    BY <1>3 DEF Folding, N
  <2> QED BY <1>6, <2>1, <2>2
<1>8. Reads(rec)
  <2>1. q = [n \in 0 .. N |-> q[n]]
    BY <1>5
  <2>2. \A n \in 0 .. N : q[n] = IF n = 0 THEN r ELSE RefByte(q[n - 1], run[n])
    BY <1>1, <1>5, <1>7
  <2>3. Reads(q)
    BY <2>1, <2>2
  <2> HIDE DEF Reads
  <2> QED BY <2>3
<1> HIDE DEF rec
<1>9. rec[0] = r /\ \A k \in 1 .. N : rec[k] = RefByte(rec[k - 1], run[k])
  BY <1>1, <1>8
<1>10. Follows(rec, Refs, RefReadingStep, r, run)
  BY <1>6, <1>9 DEF Follows, N
<1>11. SameEnd(rec, q, run)
  BY <1>2, <1>3, <1>10, FoldSame
<1> QED BY <1>3, <1>4, <1>11 DEF SameEnd, N

LEMMA RefReading ==
  ASSUME NEW r \in Refs, NEW run \in Seq(Byte), NEW e \in Byte
  PROVE  /\ RefRead(r, <<>>) = r
         /\ RefRead(r, run) \in Refs
         /\ RefRead(r, Append(run, e)) = RefByte(RefRead(r, run), e)
<1> DEFINE more == Append(run, e)
<1>1. <<>> \in Seq(Byte) /\ more \in Seq(Byte)
  BY EmptySeq, AppendProperties
<1>2. r \in Refs /\ RefReadingStep \in [(Refs) \X Byte -> Refs]
  BY RefReadingType
<1> HIDE DEF more
<1>3. PICK z : Folding(z, Refs, Byte, RefReadingStep, r, <<>>) /\ RefRead(r, <<>>) = z[Len(<<>>)]
  BY <1>1, RefReadingReads
<1>4. PICK q : Folding(q, Refs, Byte, RefReadingStep, r, run) /\ RefRead(r, run) = q[Len(run)]
  BY RefReadingReads
<1>5. PICK p : Folding(p, Refs, Byte, RefReadingStep, r, more) /\ RefRead(r, more) = p[Len(more)]
  BY <1>1, RefReadingReads
<1>6. RefRead(r, <<>>) = r
  BY <1>3 DEF Folding
<1>7. Further(q, p, Refs, RefReadingStep, run, e)
  BY <1>2, <1>4, <1>5, FoldMore DEF more
<1>8. \A y \in Refs : RefReadingStep[<<y, e>>] = RefByte(y, e)
  BY <1>2 DEF RefReadingStep
<1> QED BY <1>4, <1>5, <1>6, <1>7, <1>8 DEF Further, more

-----------------------------------------------------------------------------
(* What a call of on_text reads and leaves.                                *)

LEMMA SplitAt ==
  ASSUME NEW S, NEW s \in Seq(S), NEW n \in 0 .. Len(s)
  PROVE  /\ SubSeq(s, 1, n) \in Seq(S) /\ Len(SubSeq(s, 1, n)) = n
         /\ SubSeq(s, n + 1, Len(s)) \in Seq(S)
         /\ SubSeq(s, 1, n) \o SubSeq(s, n + 1, Len(s)) = s
<1> DEFINE N == Len(s)
<1>1. N \in Nat /\ \A i \in 1 .. N : s[i] \in S
  BY LenProperties, ElementOfSeq
<1>2. n \in Int /\ n + 1 \in Int /\ n <= N
  BY <1>1
<1>3. SubSeq(s, 1, n) \in Seq(S) /\ Len(SubSeq(s, 1, n)) = IF 1 <= n THEN n - 1 + 1 ELSE 0
  <2>1. \A i \in 1 .. n : s[i] \in S
    BY <1>1, <1>2
  <2> QED BY <1>2, <2>1, SubSeqProperties
<1>4. SubSeq(s, n + 1, N) \in Seq(S)
  <2>1. n + 1 \in Nat \ {0} /\ N \in Int /\ N <= Len(s)
    BY <1>1, <1>2
  <2> QED BY <2>1, PartOf
<1>5. SubSeq(s, 1, n) \o SubSeq(s, n + 1, N) = SubSeq(s, 1, N)
  <2>1. 1 \in 1 .. Len(s) + 1 /\ n \in 1 - 1 .. Len(s) /\ N \in n .. Len(s)
    BY <1>1, <1>2
  <2> QED BY <2>1, ConcatAdjacentSubSeq
<1>6. SubSeq(s, 1, N) = s
  BY SubSeqFull
<1>7. SubSeq(s, 1, n) \in Seq(S) /\ Len(SubSeq(s, 1, n)) = n
  <2>1. (IF 1 <= n THEN n - 1 + 1 ELSE 0) = n
    BY <1>1, <1>2
  <2> QED BY <1>3, <2>1
<1> QED BY <1>4, <1>5, <1>6, <1>7

Letters(ascii) == IF ascii THEN {"a"} ELSE Text

LEMMA RunIs ==
  ASSUME bytes \in Seq(Byte), NEW ascii \in BOOLEAN
  PROVE  /\ RunOf(ascii) \in Seq(Letters(ascii))
         /\ SubSeq(bytes, Len(RunOf(ascii)) + 1, Len(bytes)) \in Seq(Byte)
         /\ bytes = RunOf(ascii) \o SubSeq(bytes, Len(RunOf(ascii)) + 1, Len(bytes))
<1> DEFINE N == Len(bytes)
           stops == {i \in 1 .. N : bytes[i] \in Controls \/ (ascii /\ bytes[i] # "a")}
           least == CHOOSE i \in stops : \A j \in stops : i <= j
           n == IF stops = {} THEN N ELSE least - 1
<1>1. N \in Nat /\ \A i \in 1 .. N : bytes[i] \in Byte
  BY LenProperties, ElementOfSeq
<1>2. RunOf(ascii) = SubSeq(bytes, 1, n)
  <2>1. SubSeq(bytes, 1, N) = bytes
    BY SubSeqFull
  <2>2. RunOf(ascii) = IF stops = {} THEN bytes ELSE SubSeq(bytes, 1, least - 1)
    BY DEF RunOf
  <2> HIDE DEF stops, least
  <2> QED BY <2>1, <2>2
<1>3. ASSUME stops # {} PROVE least \in stops /\ \A j \in stops : least <= j
  <2>1. stops \in SUBSET Nat
    BY <1>1
  <2> HIDE DEF stops
  <2>2. \E i \in stops : \A j \in stops : i <= j
    BY <1>3, <2>1, LeastExists
  <2> QED BY <2>2
<1> HIDE DEF least
<1>4. n \in 0 .. N /\ \A i \in 1 .. n : i \notin stops
  <2>1. CASE stops = {}
    <3>1. n = N
      BY <2>1
    <3> HIDE DEF stops, n
    <3> QED BY <1>1, <2>1, <3>1
  <2>2. CASE stops # {}
    <3>1. n = least - 1
      BY <2>2
    <3>2. least \in 1 .. N /\ \A j \in stops : least <= j
      BY <1>3, <2>2
    <3> HIDE DEF stops, n
    <3> QED BY <1>1, <3>1, <3>2
  <2> QED BY <2>1, <2>2
<1> HIDE DEF n
<1>5. \A i \in 1 .. n : bytes[i] \in Letters(ascii)
  <2> SUFFICES ASSUME NEW i \in 1 .. n PROVE bytes[i] \in Letters(ascii)
    OBVIOUS
  <2>1. i \in 1 .. N /\ bytes[i] \in Byte
    BY <1>1, <1>4
  <2>2. ~(bytes[i] \in Controls \/ (ascii /\ bytes[i] # "a"))
    BY <1>4, <2>1
  <2> QED BY <2>1, <2>2 DEF Letters, Text
<1> HIDE DEF stops
<1>6. SubSeq(bytes, 1, n) \in Seq(Letters(ascii))
  BY <1>1, <1>4, <1>5, SubSeqProperties
<1>7. /\ Len(SubSeq(bytes, 1, n)) = n /\ SubSeq(bytes, n + 1, N) \in Seq(Byte)
      /\ SubSeq(bytes, 1, n) \o SubSeq(bytes, n + 1, N) = bytes
  BY <1>1, <1>4, SplitAt
<1> QED BY <1>2, <1>6, <1>7

LEMMA StoredType ==
  ASSUME NEW chars \in Seq(Point)
  PROVE  /\ Stored(chars) \in Seq(Point) /\ Len(Stored(chars)) <= CombineSize
         /\ chars # <<>> => Stored(chars) # <<>>
<1>1. Len(chars) \in Nat /\ CombineSize \in Nat /\ CombineSize >= 1
  BY LenProperties, GlyphsAssumption
<1>2. CASE Len(chars) <= CombineSize
  BY <1>2 DEF Stored
<1>3. CASE ~(Len(chars) <= CombineSize)
  <2>1. CombineSize \in 0 .. Len(chars)
    BY <1>1, <1>3
  <2>2. /\ SubSeq(chars, 1, CombineSize) \in Seq(Point)
        /\ Len(SubSeq(chars, 1, CombineSize)) = CombineSize
    BY <2>1, SplitAt
  <2>3. SubSeq(chars, 1, CombineSize) # <<>>
    <3> DEFINE x == SubSeq(chars, 1, CombineSize)
    <3>1. Len(x) # 0
      BY <1>1, <2>2
    <3>2. Len(<<>>) = 0
      BY EmptySeq
    <3> HIDE DEF x
    <3>3. x # <<>>
      BY <3>1, <3>2
    <3> QED BY <3>3 DEF x
  <2> QED BY <1>1, <1>3, <2>2, <2>3 DEF Stored
<1> QED BY <1>2, <1>3

LEMMA GlyphsType ==
  ASSUME NEW points \in Seq(Point)
  PROVE  Glyphs(points) \in Seq(Glyph) /\ (points # <<>> => Glyphs(points) # <<>>)
<1>1. <<>> \in Point
  BY EmptySeq DEF Point
<1>2. Glyphs(points) \in Seq(Glyph)
  BY <1>1, Grouping
<1>3. ASSUME points # <<>> PROVE Glyphs(points) # <<>>
  <2>1. PICK front \in Seq(Point), cp \in Point : points = Append(front, cp)
    BY <1>3, SequenceEmptyOrAppend
  <2>2. Glyphs(front) \in Seq(Glyph) /\ Glyphs(points) = Grouped(Glyphs(front), cp)
    BY <2>1, Grouping
  <2> QED BY <2>2, GroupedIs
<1> QED BY <1>2, <1>3

LEMMA PutAllType ==
  ASSUME NEW t \in Terms, NEW gs \in Seq(Glyph)
  PROVE  PutAll(t, gs) \in Terms /\ PutAll(t, <<>>) = t
<1>1. <<>> \in Point
  BY EmptySeq DEF Point
<1>2. <<<<>>>> \in Glyph
  BY <1>1, One
<1> QED BY <1>2, Putting

-----------------------------------------------------------------------------
(* The parts of Rendered.                                                  *)

Joining(points) == Stored(combine.chars \o Glyphs(points)[1])
First(points) ==
  IF Joins(points)
  THEN [term EXCEPT !.cells = putglyph(@, Joining(points), combine.width, combine.pos)]
  ELSE term
Rest(points) == IF Joins(points) THEN Tail(Glyphs(points)) ELSE Glyphs(points)
Before(points) == PutAll(First(points), SubSeq(Rest(points), 1, Len(Rest(points)) - 1))
Final(points) == Rest(points)[Len(Rest(points))]

LEMMA RenderedIs ==
  ASSUME NEW points
  PROVE  /\ points = <<>> => Rendered(points) = [term |-> term, combine |-> combine]
         /\ points # <<>> /\ Rest(points) = <<>> =>
              Rendered(points) = [term |-> First(points),
                                  combine |-> [combine EXCEPT !.chars = Joining(points)]]
         /\ points # <<>> /\ Rest(points) # <<>> =>
              Rendered(points) = [term |-> Put(Before(points), Final(points)),
                                  combine |-> [chars |-> Stored(Final(points)),
                                               width |-> WidthOf(Final(points)),
                                               pos |-> Pos(Wrapped(Before(points)))]]
BY DEF Rendered, Joining, First, Rest, Before, Final

LEMMA JoiningType ==
  ASSUME combine \in Buffers, NEW g \in Glyph
  PROVE  /\ combine.chars \o g \in Seq(Point) /\ combine.chars \o g # <<>>
         /\ Stored(combine.chars \o g) \in Seq(Point)
         /\ Len(Stored(combine.chars \o g)) <= CombineSize
<1>1. combine.chars \in Seq(Point) /\ g \in Seq(Point) /\ g # <<>>
  BY DEF Buffers, Glyph, Upright
<1>2. combine.chars \o g \in Seq(Point)
  BY <1>1, ConcatProperties
<1>3. combine.chars \o g # <<>>
  BY <1>1, ConcatEqualIffEmpty
<1> QED BY <1>2, <1>3, StoredType

LEMMA PartsType ==
  ASSUME term \in Terms, combine \in Buffers, NEW points \in Seq(Point), points # <<>>
  PROVE  /\ Glyphs(points)[1] \in Glyph
         /\ First(points) \in Terms
         /\ Rest(points) \in Seq(Glyph)
         /\ Rest(points) # <<>> => Before(points) \in Terms /\ Final(points) \in Glyph
<1> DEFINE gs == Glyphs(points)
<1>1. gs \in Seq(Glyph) /\ gs # <<>>
  BY GlyphsType
<1> HIDE DEF gs
<1>2. gs[1] \in Glyph /\ Tail(gs) \in Seq(Glyph)
  <2>1. 1 \in 1 .. Len(gs)
    BY <1>1, EmptySeq
  <2> QED BY <1>1, <2>1, ElementOfSeq, HeadTailProperties
<1>3. First(points) \in Terms
  <2> DEFINE c == putglyph(term.cells, Joining(points), combine.width, combine.pos)
  <2>1. c \in Screens
    <3>1. Joining(points) \in Seq(Point)
      BY <1>2, JoiningType DEF Joining, gs
    <3> QED BY <3>1, PutglyphType DEF Terms
  <2> HIDE DEF c
  <2>2. [term EXCEPT !.cells = c] \in Terms
    BY <2>1, TermWith
  <2> QED BY <2>2 DEF First, c
<1>4. Rest(points) \in Seq(Glyph)
  BY <1>1, <1>2 DEF Rest, gs
<1> DEFINE rest == Rest(points)
<1>5. ASSUME rest # <<>> PROVE Before(points) \in Terms /\ Final(points) \in Glyph
  <2> HIDE DEF rest
  <2>1. Len(rest) \in Nat \ {0}
    BY <1>4, <1>5, EmptySeq DEF rest
  <2>2. SubSeq(rest, 1, Len(rest) - 1) \in Seq(Glyph)
    <3>1. Len(rest) - 1 \in 0 .. Len(rest)
      BY <2>1
    <3> QED BY <1>4, <3>1, SplitAt DEF rest
  <2>3. rest[Len(rest)] \in Glyph
    <3>1. Len(rest) \in 1 .. Len(rest)
      BY <2>1
    <3> QED BY <1>4, <3>1, ElementOfSeq DEF rest
  <2> QED BY <1>3, <2>2, <2>3, PutAllType DEF Before, Final, rest
<1> QED BY <1>2, <1>3, <1>4, <1>5 DEF gs

LEMMA RenderedType ==
  ASSUME term \in Terms, combine \in Buffers, NEW points \in Seq(Point)
  PROVE  Rendered(points).term \in Terms /\ Rendered(points).combine \in Buffers
<1>1. CASE points = <<>>
  BY <1>1, RenderedIs
<1>2. CASE points # <<>> /\ Rest(points) = <<>>
  <2>1. First(points) \in Terms
    BY <1>2, PartsType
  <2>2. Joining(points) \in Seq(Point) /\ Len(Joining(points)) <= CombineSize
    BY <1>2, PartsType, JoiningType DEF Joining
  <2>3. [combine EXCEPT !.chars = Joining(points)] \in Buffers
    BY <2>2 DEF Buffers
  <2> QED BY <1>2, <2>1, <2>3, RenderedIs
<1>3. CASE points # <<>> /\ Rest(points) # <<>>
  <2> DEFINE b == Before(points)
             g == Final(points)
  <2>1. b \in Terms /\ g \in Glyph
    BY <1>3, PartsType
  <2>2. Rendered(points) = [term |-> Put(b, g),
                            combine |-> [chars |-> Stored(g), width |-> WidthOf(g),
                                         pos |-> Pos(Wrapped(b))]]
    BY <1>3, RenderedIs
  <2> HIDE DEF b, g
  <2>3. Put(b, g) \in Terms /\ Pos(Wrapped(b)) \in Cells
    BY <2>1, PutType, WrappedType
  <2>4. g \in Seq(Point) /\ WidthOf(g) \in 0 .. 2
    BY <2>1 DEF Glyph, Upright
  <2>5. Stored(g) \in Seq(Point) /\ Len(Stored(g)) <= CombineSize
    BY <2>4, StoredType
  <2>6. [chars |-> Stored(g), width |-> WidthOf(g), pos |-> Pos(Wrapped(b))] \in Buffers
    BY <2>3, <2>4, <2>5 DEF Buffers
  <2> QED BY <2>2, <2>3, <2>6
<1> QED BY <1>1, <1>2, <1>3

-----------------------------------------------------------------------------
(* Every variable keeps its type.                                          *)

Quirk == {"decoder", "margin", "stale", "overrun"}
Types ==
  /\ g_enc \in {"usascii", "utf8"} /\ g_data \in Decoders /\ utf8_data \in Decoders
  /\ term \in Terms /\ combine \in Buffers
  /\ wire \in Seq(Byte) /\ bytes \in Seq(Byte) /\ ref \in Refs
  /\ quirks \subseteq Quirk /\ sent \in 0 .. MaxSent

LEMMA InitTypes == Init => Types
<1> SUFFICES ASSUME Init PROVE Types
  OBVIOUS
<1>1. <<>> \in Seq(Byte) /\ <<>> \in Seq(Point) /\ <<>> \in Point /\ Len(<<>>) = 0
  BY EmptySeq DEF Point
<1>2. NoChar \in Decoders
  BY DEF NoChar, Decoders
<1>3. combine \in Buffers
  BY <1>1, ResetType, GlyphsAssumption DEF Init, Buffers
<1>4. ref \in Refs
  BY <1>1, <1>2, One, ResetType DEF Init, Refs, NoGlyph
<1> QED BY <1>1, <1>2, <1>3, <1>4, ResetType, GlyphsAssumption DEF Init, Types

LEMMA HostTypes == ASSUME Types, Host PROVE Types'
<1>1. PICK char \in Chars : wire' = wire \o char
  BY DEF Host
<1>2. char \in Seq(Byte)
  BY <1>1, GlyphsAssumption
<1>3. wire' \in Seq(Byte)
  BY <1>1, <1>2, ConcatProperties DEF Types
<1>4. sent' \in 0 .. MaxSent
  BY GlyphsAssumption DEF Host, Types
<1> QED BY <1>3, <1>4 DEF Host, Types

LEMMA RefReadType ==
  ASSUME NEW r \in Refs, NEW run \in Seq(Byte)
  PROVE  RefRead(r, run) \in Refs /\ RefRead(r, <<>>) = r
<1>1. "a" \in Byte
  BY DEF Byte
<1> QED BY <1>1, RefReading

LEMMA PollTypes == ASSUME Types, console_poll PROVE Types'
<1>1. PICK n \in 1 .. Len(wire) : /\ bytes' = SubSeq(wire, 1, n)
                                  /\ wire' = SubSeq(wire, n + 1, Len(wire))
                                  /\ ref' = RefRead(ref, SubSeq(wire, 1, n))
  BY DEF console_poll
<1>2. wire \in Seq(Byte) /\ Len(wire) \in Nat
  BY LenProperties DEF Types
<1>3. n \in 0 .. Len(wire)
  BY <1>2
<1>4. bytes' \in Seq(Byte) /\ wire' \in Seq(Byte)
  BY <1>1, <1>2, <1>3, SplitAt
<1>5. ref' \in Refs
  BY <1>1, <1>4, RefReadType DEF Types
<1> QED BY <1>4, <1>5 DEF console_poll, Types

LEMMA QuirksNamed ==
  ASSUME NEW d, NEW points
  PROVE  /\ Unasked(d) \subseteq Quirk /\ Deviations(points) \subseteq Quirk
         /\ Overruns(points) \subseteq Quirk
BY DEF Unasked, Deviations, Overruns, Quirk

(* The code points of a run of letters.                                    *)
LetterPoints(run) == [i \in 1 .. Len(run) |-> <<run[i]>>]

LEMMA LettersType ==
  ASSUME NEW run \in Seq({"a"})
  PROVE  run \in Seq(Text) /\ LetterPoints(run) \in Seq(Point)
<1>1. "a" \in Text /\ <<"a">> \in Point
  BY DEF Text, Byte, Controls, Point, Symbol
<1>2. run \in Seq(Text)
  <2>1. {"a"} \subseteq Text
    BY <1>1
  <2> QED BY <2>1, SeqMonotonic
<1>3. \A i \in 1 .. Len(run) : <<run[i]>> \in Point
  BY <1>1, ElementOfSeq
<1>4. LetterPoints(run) \in Seq(Point)
  BY <1>3, LenProperties DEF LetterPoints
<1> QED BY <1>2, <1>4

LEMMA AsciiTypes == ASSUME Types, AsciiText PROVE Types'
<1> DEFINE run == RunOf(TRUE)
           points == LetterPoints(run)
<1>1. run \in Seq({"a"}) /\ bytes' \in Seq(Byte)
  BY RunIs DEF Types, AsciiText, Letters
<1>2. points \in Seq(Point)
  BY <1>1, LettersType
<1>3. Render(points) /\ quirks' = quirks \cup Unasked(utf8_data)
  BY DEF AsciiText, LetterPoints
<1> HIDE DEF points
<1>4. term' \in Terms /\ combine' \in Buffers
  BY <1>2, <1>3, RenderedType DEF Render, Types
<1>5. quirks' \subseteq Quirk
  BY <1>3, QuirksNamed DEF Types
<1> QED BY <1>1, <1>4, <1>5 DEF AsciiText, Types

(* The same for a call of either UTF-8 decoder.                            *)
LEMMA DecodeTypes ==
  ASSUME Types, NEW dec \in Decoders, NEW other,
         bytes' = SubSeq(bytes, Len(RunOf(FALSE)) + 1, Len(bytes)),
         Render(decode_utf8(dec, RunOf(FALSE)).out),
         quirks' = quirks \cup Unasked(other) \cup Deviations(decode_utf8(dec, RunOf(FALSE)).out)
                     \cup Overruns(decode_utf8(dec, RunOf(FALSE)).out)
  PROVE  /\ bytes' \in Seq(Byte) /\ term' \in Terms /\ combine' \in Buffers
         /\ decode_utf8(dec, RunOf(FALSE)).dec \in Decoders
         /\ quirks' \subseteq Quirk
<1> DEFINE run == RunOf(FALSE)
           d == decode_utf8(dec, run)
<1>1. run \in Seq(Text) /\ bytes' \in Seq(Byte)
  BY RunIs DEF Types, Letters
<1>2. d \in Decoded
  BY <1>1, DecodedType
<1> HIDE DEF d
<1>3. d.dec \in Decoders /\ d.out \in Seq(Point)
  BY <1>2 DEF Decoded
<1>4. Render(d.out)
  BY DEF d
<1>5. term' \in Terms /\ combine' \in Buffers
  BY <1>3, <1>4, RenderedType DEF Render, Types
<1>6. quirks' \subseteq Quirk
  BY QuirksNamed DEF Types
<1> QED BY <1>1, <1>3, <1>5, <1>6 DEF d

LEMMA AsciiFirstTypes == ASSUME Types, AsciiFirst PROVE Types'
<1>1. /\ bytes' \in Seq(Byte) /\ term' \in Terms /\ combine' \in Buffers
      /\ g_data' \in Decoders /\ quirks' \subseteq Quirk
  <2>1. g_data \in Decoders
    BY DEF Types
  <2>2. /\ bytes' = SubSeq(bytes, Len(RunOf(FALSE)) + 1, Len(bytes))
        /\ Render(decode_utf8(g_data, RunOf(FALSE)).out)
        /\ quirks' = quirks \cup Unasked(utf8_data)
                       \cup Deviations(decode_utf8(g_data, RunOf(FALSE)).out)
                       \cup Overruns(decode_utf8(g_data, RunOf(FALSE)).out)
        /\ g_data' = decode_utf8(g_data, RunOf(FALSE)).dec
    BY DEF AsciiFirst
  <2> QED BY <2>1, <2>2, DecodeTypes
<1> QED BY <1>1 DEF AsciiFirst, Types

LEMMA HighFirstTypes == ASSUME Types, HighFirst PROVE Types'
<1>1. /\ bytes' \in Seq(Byte) /\ term' \in Terms /\ combine' \in Buffers
      /\ utf8_data' \in Decoders /\ quirks' \subseteq Quirk
  <2>1. utf8_data \in Decoders
    BY DEF Types
  <2>2. /\ bytes' = SubSeq(bytes, Len(RunOf(FALSE)) + 1, Len(bytes))
        /\ Render(decode_utf8(utf8_data, RunOf(FALSE)).out)
        /\ quirks' = quirks \cup Unasked(g_data)
                       \cup Deviations(decode_utf8(utf8_data, RunOf(FALSE)).out)
                       \cup Overruns(decode_utf8(utf8_data, RunOf(FALSE)).out)
        /\ utf8_data' = decode_utf8(utf8_data, RunOf(FALSE)).dec
    BY DEF HighFirst
  <2> QED BY <2>1, <2>2, DecodeTypes
<1> QED BY <1>1 DEF HighFirst, Types

LEMMA TailBytes ==
  ASSUME Types, ~Idle
  PROVE  bytes[1] \in Byte /\ Tail(bytes) \in Seq(Byte)
<1>1. bytes \in Seq(Byte) /\ bytes # <<>>
  BY DEF Types, Idle
<1>2. 1 \in 1 .. Len(bytes)
  BY <1>1, EmptySeq
<1> QED BY <1>1, <1>2, ElementOfSeq, HeadTailProperties

LEMMA ControlTypes == ASSUME Types, on_control PROVE Types'
<1>1. bytes' \in Seq(Byte)
  BY TailBytes DEF on_control
<1>2. bytes[1] \in {"CR", "LF"}
  BY DEF on_control, Controls
<1>3. term' \in Terms
  BY <1>2, OnControlType DEF on_control, Types
<1> QED BY <1>1, <1>3 DEF on_control, Types

LEMMA ResetTypes == ASSUME Types, vterm_state_reset PROVE Types'
<1>1. bytes' \in Seq(Byte)
  BY TailBytes DEF vterm_state_reset
<1>2. NoChar \in Decoders
  BY DEF NoChar, Decoders
<1>3. quirks' \subseteq Quirk
  BY QuirksNamed DEF vterm_state_reset, Types
<1> QED BY <1>1, <1>2, <1>3, ResetType DEF vterm_state_reset, Types

LEMMA StepTypes == ASSUME Types, [Next]_vars PROVE Types'
<1>1. CASE UNCHANGED vars
  BY <1>1 DEF vars, Types
<1> QED BY <1>1, HostTypes, PollTypes, AsciiTypes, AsciiFirstTypes, HighFirstTypes,
           ControlTypes, ResetTypes DEF Next, on_text

LEMMA TypesImply == Types => TypeOK
<1> SUFFICES ASSUME Types PROVE TypeOK
  OBVIOUS
<1>1. Decoder(g_data) /\ Decoder(utf8_data)
  <2>1. ASSUME NEW d \in Decoders PROVE Decoder(d)
    <3>1. d.need \in 0 .. 2 /\ d.cp \in Seq(Lead \cup Continuation)
          /\ ((d.need = 0) = (d.cp = <<>>))
      BY DEF Decoders
    <3> QED BY <3>1, ElementOfSeq DEF Decoder
  <2> QED BY <2>1 DEF Types
<1>2. term.cells \in Screens /\ Pos(term) \in Cells /\ term.at_phantom \in BOOLEAN
  BY DEF Types, Terms, Pos, Cells
<1>3. DOMAIN term.cells = Cells /\ \A p \in Cells : Len(term.cells[p]) <= MaxPerCell
  BY <1>2 DEF Screens, Content
<1>4. Len(combine.chars) <= CombineSize /\ combine.pos \in Cells /\ combine.width \in 0 .. 2
  BY DEF Types, Buffers
<1>5. /\ \A i \in 1 .. Len(wire) : wire[i] \in Byte
      /\ \A i \in 1 .. Len(bytes) : bytes[i] \in Byte
  BY ElementOfSeq DEF Types
<1> QED BY <1>1, <1>2, <1>3, <1>4, <1>5 DEF Types, TypeOK, Quirk

(* The types of Glyphs: the cursor is on the screen whatever the widths of *)
(* the characters, and no cell holds more than it can (on_text, putglyph); *)
(* until a glyph of twice its size overruns the combining buffer, that     *)
(* holds at most as much as its recorded size (grow_combine_buffer).       *)
THEOREM GlyphsTypes == Spec => []TypeOK
<1>1. Init => Types
  BY InitTypes
<1>2. Types /\ [Next]_vars => Types'
  BY StepTypes
<1>3. Types => TypeOK
  BY TypesImply
<1> QED BY <1>1, <1>2, <1>3, PTL DEF Spec

-----------------------------------------------------------------------------
(* Cells, buffers and the cursor.                                          *)

LEMMA FitsStored ==
  ASSUME NEW x \in Seq(Point)
  PROVE  Fits(Stored(x)) = Fits(x)
<1>1. /\ Len(x) \in Nat /\ MaxPerCell \in Nat /\ MaxPerCell >= 1
      /\ CombineSize \in Nat /\ MaxPerCell <= CombineSize
  BY LenProperties, GlyphsAssumption
<1>2. CASE Len(x) <= CombineSize
  BY <1>2 DEF Stored
<1>3. CASE ~(Len(x) <= CombineSize)
  <2> DEFINE y == SubSeq(x, 1, CombineSize)
  <2>1. CombineSize \in 0 .. Len(x) /\ CombineSize \in 1 .. Len(x)
    BY <1>1, <1>3
  <2>2. Stored(x) = y /\ Len(y) = CombineSize
    BY <1>3, <2>1, SplitAt DEF Stored
  <2>3. SubSeq(SubSeq(x, 1, CombineSize), 1, MaxPerCell) = SubSeq(x, 1 + 1 - 1, 1 + MaxPerCell - 1)
    <3>1. 1 \in 1 .. Len(x) /\ 1 \in 1 .. CombineSize - 1 + 1 /\ MaxPerCell \in 1 .. CombineSize - 1 + 1
      BY <1>1, <2>1
    <3> QED BY <2>1, <3>1, SubSeqOfSubSeq
  <2>4. 1 + 1 - 1 = 1 /\ 1 + MaxPerCell - 1 = MaxPerCell
    BY <1>1
  <2> HIDE DEF y
  <2>5. Fits(x) = SubSeq(x, 1, MaxPerCell)
    BY <1>1, <1>3 DEF Fits
  <2>6. Fits(y) = SubSeq(y, 1, MaxPerCell)
    <3>1. (IF Len(y) < MaxPerCell THEN Len(y) ELSE MaxPerCell) = MaxPerCell
      BY <1>1, <2>2
    <3> QED BY <3>1 DEF Fits
  <2> QED BY <2>2, <2>3, <2>4, <2>5, <2>6 DEF y
<1> QED BY <1>2, <1>3

LEMMA StoredMore ==
  ASSUME NEW x \in Seq(Point), NEW e \in Point
  PROVE  Stored(Append(Stored(x), e)) = Stored(Append(x, e))
<1>1. Len(x) \in Nat /\ CombineSize \in Nat /\ CombineSize >= 1
  BY LenProperties, GlyphsAssumption
<1>2. CASE Len(x) <= CombineSize
  BY <1>2 DEF Stored
<1>3. CASE ~(Len(x) <= CombineSize)
  <2> DEFINE y == SubSeq(x, 1, CombineSize)
  <2>1. CombineSize \in 0 .. Len(x) /\ CombineSize \in 1 .. Len(x) /\ 1 \in 1 .. Len(x)
    BY <1>1, <1>3
  <2>2. Stored(x) = y /\ y \in Seq(Point) /\ Len(y) = CombineSize
    BY <1>3, <2>1, SplitAt DEF Stored
  <2> HIDE DEF y
  <2>3. Stored(Append(y, e)) = y
    <3>1. Len(Append(y, e)) = CombineSize + 1
      BY <2>2, AppendProperties
    <3>2. SubSeq(Append(y, e), 1, Len(Append(y, e)) - 1) = y
      BY <2>2, LastApart
    <3>3. (CombineSize + 1) - 1 = CombineSize /\ ~(CombineSize + 1 <= CombineSize)
      BY <1>1
    <3> QED BY <3>1, <3>2, <3>3 DEF Stored
  <2>4. Stored(Append(x, e)) = y
    <3>1. Len(Append(x, e)) = Len(x) + 1 /\ Append(x, e) = x \o <<e>> /\ <<e>> \in Seq(Point)
      BY AppendProperties, AppendIsConcat
    <3>2. ~(Len(x) + 1 <= CombineSize)
      BY <1>1, <1>3
    <3>3. SubSeq(x \o <<e>>, 1, CombineSize) = SubSeq(x, 1, CombineSize)
      BY <2>1, <3>1, SubSeqOfConcat1
    <3> QED BY <3>1, <3>2, <3>3 DEF Stored, y
  <2> QED BY <2>2, <2>3, <2>4
<1> QED BY <1>2, <1>3

(* What is drawn depends on what fits, and drawing again in the same place *)
(* leaves nothing of what was drawn before.                                *)
LEMMA PutSame ==
  ASSUME NEW c, NEW x, NEW y, Fits(x) = Fits(y), NEW w, NEW at
  PROVE  putglyph(c, x, w, at) = putglyph(c, y, w, at)
BY DEF putglyph

LEMMA PutTwice ==
  ASSUME NEW c, NEW x, NEW y, NEW w, NEW at \in Cells
  PROVE  putglyph(putglyph(c, x, w, at), y, w, at) = putglyph(c, y, w, at)
<1> DEFINE half(p) == p[1] = at[1] /\ p[2] > at[2] /\ p[2] < at[2] + w
           draw(b, z) == [p \in Cells |-> IF p = at THEN Fits(z)
                                          ELSE IF half(p) THEN Half ELSE b[p]]
<1>1. \A b, z : putglyph(b, z, w, at) = draw(b, z)
  <2> SUFFICES ASSUME NEW b, NEW z PROVE putglyph(b, z, w, at) = draw(b, z)
    OBVIOUS
  <2>1. ~half(at)
    BY DEF Cells
  <2> QED BY <2>1 DEF putglyph
<1>2. draw(draw(c, x), y) = draw(c, y)
  <2> HIDE DEF half
  <2> QED OBVIOUS
<1> HIDE DEF draw
<1> QED BY <1>1, <1>2

LEMMA TermEqual ==
  ASSUME NEW t \in Terms, NEW u \in Terms,
         t.cells = u.cells, t.row = u.row, t.col = u.col, t.at_phantom = u.at_phantom
  PROVE  t = u
BY DEF Terms

(* Where the cursor is after a glyph of width n from w on.                 *)
Passed(t, w, n) ==
  /\ t.row = w.row
  /\ w.col + n >= Cols => t.col = w.col /\ t.at_phantom = TRUE
  /\ ~(w.col + n >= Cols) => t.col = w.col + n /\ t.at_phantom = FALSE

LEMMA PutIs ==
  ASSUME NEW t \in Terms, NEW g \in Glyph
  PROVE  /\ Put(t, g).cells = putglyph(Wrapped(t).cells, g, WidthOf(g), Pos(Wrapped(t)))
         /\ Passed(Put(t, g), Wrapped(t), WidthOf(g))
<1> DEFINE w == Wrapped(t)
           n == WidthOf(g)
           c == putglyph(w.cells, g, n, Pos(w))
           v == [w EXCEPT !.cells = c]
<1>1. w \in Terms /\ w.at_phantom = FALSE /\ w.col \in 0 .. Cols - 1 /\ w.cells \in Screens
  BY WrappedType DEF Terms
<1>2. n \in 0 .. 2 /\ g \in Seq(Point)
  BY DEF Glyph, Upright
<1>3. Put(t, g) = Moved(v, n)
  BY DEF Put
<1>4. c \in Screens
  BY <1>1, <1>2, PutglyphType
<1> HIDE DEF w, n, c
<1>5. v \in Terms /\ Fields(v, c, w.row, w.col, w.at_phantom)
  BY <1>1, <1>4, TermWith
<1> HIDE DEF v
<1>6. v.cells = c /\ v.row = w.row /\ v.col = w.col /\ v.at_phantom = FALSE
  BY <1>1, <1>5 DEF Fields
<1>7. ASSUME w.col + n >= Cols PROVE Moved(v, n).cells = c /\ Passed(Moved(v, n), w, n)
  <2>1. Moved(v, n) = [v EXCEPT !.at_phantom = TRUE]
    BY <1>6, <1>7 DEF Moved
  <2>2. Fields(Moved(v, n), v.cells, v.row, v.col, TRUE)
    BY <1>5, <2>1, TermWith
  <2> QED BY <1>6, <1>7, <2>2 DEF Fields, Passed
<1>8. ASSUME ~(w.col + n >= Cols) PROVE Moved(v, n).cells = c /\ Passed(Moved(v, n), w, n)
  <2>1. Moved(v, n) = [v EXCEPT !.col = v.col + n]
    BY <1>6, <1>8 DEF Moved
  <2>2. v.col + n \in 0 .. Cols - 1
    BY <1>1, <1>2, <1>6, <1>8, GlyphsAssumption
  <2>3. Fields(Moved(v, n), v.cells, v.row, v.col + n, v.at_phantom)
    BY <1>5, <2>1, <2>2, TermWith
  <2> QED BY <1>6, <1>8, <2>3 DEF Fields, Passed
<1>9. Moved(v, n).cells = c /\ Passed(Moved(v, n), w, n)
  BY <1>7, <1>8
<1> QED BY <1>3, <1>9 DEF c, n, w

(* A glyph with one more mark.                                             *)
LEMMA PutMark ==
  ASSUME NEW t \in Terms, NEW g \in Glyph, NEW cp \in Point, Combining(cp)
  PROVE  Put(t, Append(g, cp)) =
           [Put(t, g) EXCEPT !.cells =
              putglyph(@, Append(g, cp), WidthOf(g), Pos(Wrapped(t)))]
<1> DEFINE h == Append(g, cp)
           w == Wrapped(t)
           n == WidthOf(g)
           c == putglyph(Put(t, g).cells, h, n, Pos(w))
           u == [Put(t, g) EXCEPT !.cells = c]
<1>1. h \in Glyph /\ WidthOf(h) = n /\ h \in Seq(Point)
  BY MarkMore DEF Glyph, Upright
<1>2. Put(t, g) \in Terms /\ Put(t, h) \in Terms
  BY <1>1, PutType
<1>3. Put(t, h).cells = putglyph(w.cells, h, n, Pos(w)) /\ Passed(Put(t, h), w, n)
  BY <1>1, PutIs
<1>4. Put(t, g).cells = putglyph(w.cells, g, n, Pos(w)) /\ Passed(Put(t, g), w, n)
  BY PutIs
<1>5. c = putglyph(w.cells, h, n, Pos(w))
  <2> DEFINE at == Pos(w)
  <2>1. at \in Cells
    BY WrappedType
  <2>2. c = putglyph(putglyph(w.cells, g, n, at), h, n, at)
    BY <1>4
  <2> HIDE DEF at, c
  <2>3. putglyph(putglyph(w.cells, g, n, at), h, n, at) = putglyph(w.cells, h, n, at)
    BY <2>1, PutTwice
  <2> QED BY <2>2, <2>3 DEF at
<1>6. c \in Screens
  BY <1>1, <1>2, PutglyphType DEF Terms
<1> HIDE DEF c
<1>7. u \in Terms /\ Fields(u, c, Put(t, g).row, Put(t, g).col, Put(t, g).at_phantom)
  BY <1>2, <1>6, TermWith
<1> HIDE DEF u, h, n, w
<1>8. Put(t, h).row = u.row /\ Put(t, h).col = u.col
  BY <1>3, <1>4, <1>7 DEF Fields, Passed
<1>9. Put(t, h).at_phantom = u.at_phantom
  <2>1. Put(t, h).at_phantom = Put(t, g).at_phantom
    BY <1>3, <1>4 DEF Passed
  <2> QED BY <1>7, <2>1 DEF Fields
<1>10. Put(t, h) = u
  BY <1>2, <1>3, <1>5, <1>7, <1>8, <1>9, TermEqual DEF Fields
<1> QED BY <1>10 DEF u, c, h, n, w

-----------------------------------------------------------------------------
(* The terminal t and the combining buffer c against the reference: as     *)
(* long as the reference has a glyph that a mark would join, the buffer    *)
(* has it too, and the cursor is where on_text looks for it.  When it has  *)
(* none, nothing that the buffer still has is taken for one.               *)

Shared(t, c, last) ==
  /\ last.glyph \in Glyph
  /\ c.chars = Stored(last.glyph) /\ c.width = WidthOf(last.glyph) /\ c.pos = last.at
  /\ t.cells[last.at] # Blank
  /\ t.row = last.at[1]
  /\ t.at_phantom => t.col = last.at[2] /\ c.width >= 1
  /\ ~t.at_phantom => t.col = last.at[2] + c.width

Apart(t, c) ==
  /\ c.chars = <<>> => c.width = 0 /\ c.pos = <<0, 0>>
  /\ c.chars # <<>> =>
       \/ \A q \in Cells : q[1] >= c.pos[1] => t.cells[q] = Blank
       \/ t.row > c.pos[1]
       \/ t.row = c.pos[1] /\ t.col < c.pos[2] + c.width

Matched(t, c, r) ==
  /\ r \in Refs /\ r.term = t
  /\ r.last # NoGlyph => Shared(t, c, r.last)
  /\ r.last = NoGlyph => Apart(t, c)

(* The cell of a glyph is not blank once it is drawn.                      *)
LEMMA DrawnThere ==
  ASSUME NEW c, NEW chars \in Seq(Point), chars # <<>>, NEW w, NEW at \in Cells
  PROVE  putglyph(c, chars, w, at)[at] # Blank
<1>1. ~(at[2] > at[2])
  BY DEF Cells
<1>2. putglyph(c, chars, w, at)[at] = Fits(chars)
  BY <1>1 DEF putglyph
<1> QED BY <1>2, FitsType

(* A glyph of its own.                                                     *)
LEMMA StartMatched ==
  ASSUME NEW r \in Refs, NEW cp \in Point, ~(Combining(cp) /\ r.last # NoGlyph),
         NEW c, c.chars = Stored(<<cp>>), c.width = WidthOf(<<cp>>),
         c.pos = Pos(Wrapped(r.term))
  PROVE  Matched(Put(r.term, <<cp>>), c, RefPut(r, cp)) /\ RefPut(r, cp).last # NoGlyph
<1> DEFINE t == r.term
           w == Wrapped(t)
           at == Pos(w)
           g == <<cp>>
           n == WidthOf(g)
           u == Put(t, g)
           last == [glyph |-> g, at |-> at]
<1>1. t \in Terms /\ g \in Glyph /\ g \in Seq(Point) /\ g # <<>> /\ n \in 0 .. 2
  BY One, RefParts DEF Glyph, Upright
<1>2. RefPut(r, cp).last = last /\ RefPut(r, cp).term = u /\ RefPut(r, cp) \in Refs
  BY RefPutStarts, RefPutType
<1>3. u.cells = putglyph(w.cells, g, n, at) /\ Passed(u, w, n)
  BY <1>1, PutIs
<1>4. at \in Cells /\ at[1] = w.row /\ at[2] = w.col
  BY <1>1, WrappedType DEF Pos
<1>5. w.col \in 0 .. Cols - 1
  BY <1>1, WrappedType DEF Terms
<1> HIDE DEF u, n, at, w, t
<1>6. u.cells[at] # Blank
  BY <1>1, <1>3, <1>4, DrawnThere
<1> HIDE DEF g
<1>7. last # NoGlyph /\ last.glyph = g /\ last.at = at
  BY <1>1 DEF NoGlyph
<1> HIDE DEF last
<1>8. u.row = at[1]
  BY <1>3, <1>4 DEF Passed
<1>9. u.at_phantom => u.col = at[2] /\ n >= 1
  BY <1>1, <1>3, <1>4, <1>5, GlyphsAssumption DEF Passed
<1>10. ~u.at_phantom => u.col = at[2] + n
  BY <1>3, <1>4 DEF Passed
<1>11. c.chars = Stored(g) /\ c.width = n /\ c.pos = at
  BY DEF g, n, at, w, t
<1>12. Shared(u, c, last)
  BY <1>1, <1>6, <1>7, <1>8, <1>9, <1>10, <1>11 DEF Shared, n
<1>13. Matched(u, c, RefPut(r, cp)) /\ RefPut(r, cp).last # NoGlyph
  BY <1>2, <1>7, <1>12 DEF Matched
<1> QED BY <1>13 DEF u, g, t

(* A mark that joins the glyph of the reference.                           *)
LEMMA MarkMatched ==
  ASSUME NEW r \in Refs, NEW cp \in Point, Combining(cp), r.last # NoGlyph,
         NEW b, Shared(r.term, b, r.last),
         NEW z, Fits(z) = Fits(Append(r.last.glyph, cp)),
         NEW c, c.chars = Stored(Append(r.last.glyph, cp)), c.width = b.width, c.pos = b.pos
  PROVE  /\ Matched([r.term EXCEPT !.cells = putglyph(@, z, b.width, b.pos)], c, RefPut(r, cp))
         /\ RefPut(r, cp).last # NoGlyph
<1> DEFINE t == r.term
           at == r.last.at
           g == Append(r.last.glyph, cp)
           n == WidthOf(g)
           x == putglyph(t.cells, g, n, at)
           u == [t EXCEPT !.cells = x]
           last == [glyph |-> g, at |-> at]
<1>1. t \in Terms /\ at \in Cells
  BY RefParts
<1>2. g \in Glyph /\ n = WidthOf(r.last.glyph) /\ g \in Seq(Point) /\ g # <<>>
  BY MarkMore, RefParts DEF Glyph, Upright
<1>3. b.width = n /\ b.pos = at
  BY <1>2 DEF Shared
<1>4. putglyph(t.cells, z, b.width, b.pos) = x
  BY <1>3, PutSame
<1>5. RefPut(r, cp).last = last /\ RefPut(r, cp).term = u /\ RefPut(r, cp) \in Refs
  <2>1. RefPut(r, cp) = [dec |-> r.dec, term |-> u, last |-> last]
    BY RefPutJoins
  <2> HIDE DEF u, last
  <2> QED BY <2>1, RefPutType
<1>6. x \in Screens /\ x[at] # Blank
  BY <1>1, <1>2, DrawnThere, PutglyphType DEF Terms
<1> HIDE DEF x
<1>7. u.cells = x /\ u.row = t.row /\ u.col = t.col /\ u.at_phantom = t.at_phantom
  BY <1>1, <1>6, TermWith DEF Fields
<1> HIDE DEF u, n, g, t
<1>8. last # NoGlyph /\ last.glyph = g /\ last.at = at
  BY <1>2 DEF NoGlyph
<1> HIDE DEF last
<1>9. t.row = at[1] /\ (t.at_phantom => t.col = at[2] /\ n >= 1)
      /\ (~t.at_phantom => t.col = at[2] + n)
  BY <1>3 DEF Shared, t
<1>10. (u.at_phantom => u.col = at[2] /\ n >= 1) /\ (~u.at_phantom => u.col = at[2] + n)
  BY <1>7, <1>9
<1>11. c.chars = Stored(g) /\ c.width = n /\ c.pos = at
  BY <1>3 DEF g
<1>12. Shared(u, c, last)
  BY <1>2, <1>6, <1>7, <1>8, <1>9, <1>10, <1>11 DEF Shared, n
<1>13. Matched(u, c, RefPut(r, cp)) /\ RefPut(r, cp).last # NoGlyph
  BY <1>5, <1>8, <1>12 DEF Matched
<1>14. u = [r.term EXCEPT !.cells = putglyph(@, z, b.width, b.pos)]
  BY <1>4 DEF u, t
<1> QED BY <1>13, <1>14

-----------------------------------------------------------------------------
(* One code point more of a call.                                          *)

LEMMA GroupedMark ==
  ASSUME NEW front \in Seq(Glyph), NEW g \in Glyph, NEW cp \in Point, Combining(cp)
  PROVE  Grouped(Append(front, g), cp) = Append(front, Append(g, cp))
<1> DEFINE gs == Append(front, g)
           hs == Grouped(gs, cp)
           ks == Append(front, Append(g, cp))
           n == Len(front)
<1>1. n \in Nat
  BY LenProperties
<1>2. gs \in Seq(Glyph) /\ gs # <<>> /\ Len(gs) = n + 1
      /\ (\A i \in 1 .. n : gs[i] = front[i]) /\ gs[n + 1] = g
  BY AppendProperties
<1>3. Append(g, cp) \in Glyph
  BY MarkMore DEF Glyph
<1>4. ks \in Seq(Glyph) /\ Len(ks) = n + 1
      /\ (\A i \in 1 .. n : ks[i] = front[i]) /\ ks[n + 1] = Append(g, cp)
  BY <1>3, AppendProperties
<1> HIDE DEF gs
<1>5. hs \in Seq(Glyph) /\ Len(hs) = n + 1
      /\ \A i \in 1 .. n + 1 : hs[i] = IF i = n + 1 THEN Append(gs[i], cp) ELSE gs[i]
  BY <1>2, GroupedIs
<1> HIDE DEF hs, ks, n
<1>6. \A i \in 1 .. n + 1 : hs[i] = ks[i]
  <2> SUFFICES ASSUME NEW i \in 1 .. n + 1 PROVE hs[i] = ks[i]
    OBVIOUS
  <2>1. CASE i = n + 1
    BY <1>2, <1>4, <1>5, <2>1
  <2>2. CASE i # n + 1
    <3>1. i \in 1 .. n
      BY <1>1, <2>2
    <3> QED BY <1>2, <1>4, <1>5, <2>2, <3>1
  <2> QED BY <2>1, <2>2
<1>7. hs = ks
  BY <1>4, <1>5, <1>6, SeqEqual
<1> QED BY <1>7 DEF hs, ks, gs

(* Whether a call joins is decided by its first code point.                *)
LEMMA JoinsMore ==
  ASSUME NEW points \in Seq(Point), NEW cp \in Point, points # <<>>
  PROVE  Append(points, cp)[1] = points[1] /\ Joins(Append(points, cp)) = Joins(points)
<1>1. 1 \in 1 .. Len(points)
  BY EmptySeq
<1>2. Append(points, cp)[1] = points[1] /\ Append(points, cp) # <<>>
  BY <1>1, AppendProperties
<1> QED BY <1>2 DEF Joins

LEMMA FirstOfMore ==
  ASSUME NEW S, NEW s \in Seq(S), NEW e \in S
  PROVE  /\ s # <<>> => Append(s, e)[1] = s[1] /\ Tail(Append(s, e)) = Append(Tail(s), e)
                        /\ Tail(s) \in Seq(S)
         /\ s = <<>> => Append(s, e)[1] = e /\ Tail(Append(s, e)) = <<>>
<1>1. ASSUME s # <<>> PROVE Append(s, e)[1] = s[1] /\ Tail(s) \in Seq(S)
  <2>1. 1 \in 1 .. Len(s)
    BY <1>1, EmptySeq
  <2> QED BY <1>1, <2>1, AppendProperties, HeadTailProperties
<1>2. ASSUME s = <<>> PROVE Append(s, e)[1] = e
  <2>1. Append(s, e)[0 + 1] = e
    BY <1>2, AppendProperties, EmptySeq
  <2> QED BY <2>1
<1> QED BY <1>1, <1>2, HeadTailAppend

(* A base begins a glyph.                                                  *)
LEMMA MoreStarts ==
  ASSUME term \in Terms, combine \in Buffers,
         NEW points \in Seq(Point), points # <<>>, NEW cp \in Point, ~Combining(cp)
  PROVE  /\ Rendered(Append(points, cp)).term = Put(Rendered(points).term, <<cp>>)
         /\ Rendered(Append(points, cp)).combine =
              [chars |-> Stored(<<cp>>), width |-> WidthOf(<<cp>>),
               pos |-> Pos(Wrapped(Rendered(points).term))]
<1> DEFINE gs == Glyphs(points)
           more == Append(points, cp)
           g == <<cp>>
           t == Rendered(points).term
           rest == Rest(points)
<1>1. gs \in Seq(Glyph) /\ gs # <<>> /\ g \in Glyph /\ more \in Seq(Point) /\ more # <<>>
  BY GlyphsType, One, AppendProperties
<1>2. Glyphs(more) = Append(gs, g)
  <2>1. Glyphs(more) = Grouped(gs, cp)
    BY Grouping
  <2> QED BY <1>1, <2>1, GroupedIs
<1>3. Joins(more) = Joins(points)
  BY JoinsMore
<1>4. Glyphs(more)[1] = gs[1] /\ Tail(Glyphs(more)) = Append(Tail(gs), g)
  BY <1>1, <1>2, FirstOfMore
<1>5. First(more) = First(points)
  BY <1>3, <1>4 DEF First, Joining
<1>6. Rest(more) = Append(rest, g)
  BY <1>2, <1>3, <1>4 DEF Rest
<1>7. rest \in Seq(Glyph) /\ First(points) \in Terms
  BY PartsType
<1> HIDE DEF more, gs, g
<1>8. PutAll(First(points), rest) = t
  <2>1. CASE rest = <<>>
    <3>1. t = First(points)
      BY <2>1, RenderedIs
    <3> QED BY <1>7, <2>1, <3>1, PutAllType
  <2>2. CASE rest # <<>>
    <3> HIDE DEF rest
    <3>1. PICK front \in Seq(Glyph), h \in Glyph : rest = Append(front, h)
      BY <1>7, <2>2, SequenceEmptyOrAppend
    <3>2. SubSeq(rest, 1, Len(rest) - 1) = front /\ rest[Len(rest)] = h
      BY <3>1, LastApart
    <3>3. PutAll(First(points), rest) = Put(PutAll(First(points), front), h)
      BY <1>7, <3>1, Putting
    <3>4. Before(points) = PutAll(First(points), front) /\ Final(points) = h
      BY <3>2 DEF Before, Final, rest
    <3>5. t = Put(Before(points), Final(points))
      BY <2>2, RenderedIs DEF rest
    <3> QED BY <3>3, <3>4, <3>5
  <2> QED BY <2>1, <2>2
<1> HIDE DEF t, rest
<1>9. Rest(more) # <<>> /\ Final(more) = g /\ Before(more) = t
  <2>1. /\ Append(rest, g) # <<>> /\ Append(rest, g)[Len(Append(rest, g))] = g
        /\ SubSeq(Append(rest, g), 1, Len(Append(rest, g)) - 1) = rest
    BY <1>1, <1>7, LastApart
  <2> QED BY <1>5, <1>6, <1>8, <2>1 DEF Final, Before
<1>10. Rendered(more) = [term |-> Put(t, g),
                         combine |-> [chars |-> Stored(g), width |-> WidthOf(g),
                                      pos |-> Pos(Wrapped(t))]]
  BY <1>1, <1>9, RenderedIs
<1>11. Rendered(more).term = Put(t, g) /\ Rendered(more).combine =
         [chars |-> Stored(g), width |-> WidthOf(g), pos |-> Pos(Wrapped(t))]
  BY <1>10
<1> QED BY <1>11 DEF more, g, t

(* The reference has read what Rendered is of.                             *)
Agreed(points, r) ==
  /\ Matched(Rendered(points).term, Rendered(points).combine, r)
  /\ points # <<>> => r.last # NoGlyph

(* One more mark, whichever of two that are stored alike it is put to.     *)
LEMMA MarkedAlike ==
  ASSUME NEW x \in Seq(Point), NEW y \in Seq(Point), Stored(x) = Stored(y), NEW cp \in Point
  PROVE  /\ Stored(Append(x, cp)) = Stored(Append(y, cp))
         /\ Fits(Append(x, cp)) = Fits(Append(y, cp))
<1>1. Stored(Append(x, cp)) = Stored(Append(y, cp))
  <2>1. /\ Stored(Append(Stored(x), cp)) = Stored(Append(x, cp))
        /\ Stored(Append(Stored(y), cp)) = Stored(Append(y, cp))
    BY StoredMore
  <2> QED BY <2>1
<1>2. Append(x, cp) \in Seq(Point) /\ Append(y, cp) \in Seq(Point)
  BY AppendProperties
<1>3. Fits(Stored(Append(x, cp))) = Fits(Append(x, cp))
  BY <1>2, FitsStored
<1>4. Fits(Stored(Append(y, cp))) = Fits(Append(y, cp))
  BY <1>2, FitsStored
<1> QED BY <1>1, <1>3, <1>4

(* The glyphs a mark leaves as they are.                                   *)
LEMMA MoreMarked ==
  ASSUME term \in Terms, combine \in Buffers,
         NEW points \in Seq(Point), points # <<>>, NEW cp \in Point, Combining(cp),
         Rest(points) # <<>>
  PROVE  /\ Rest(Append(points, cp)) # <<>>
         /\ Final(Append(points, cp)) = Append(Final(points), cp)
         /\ Before(Append(points, cp)) = Before(points)
<1> DEFINE gs == Glyphs(points)
           more == Append(points, cp)
           rest == Rest(points)
<1>1. gs \in Seq(Glyph) /\ gs # <<>> /\ rest \in Seq(Glyph)
  BY GlyphsType, PartsType
<1>2. Glyphs(more) = Grouped(gs, cp) /\ Joins(more) = Joins(points)
  BY Grouping, JoinsMore
<1> HIDE DEF gs, more, rest
<1>3. PICK front \in Seq(Glyph), g \in Glyph : gs = Append(front, g)
  BY <1>1, SequenceEmptyOrAppend
<1>4. Append(g, cp) \in Glyph
  BY MarkMore DEF Glyph
<1>5. Glyphs(more) = Append(front, Append(g, cp))
  BY <1>2, <1>3, GroupedMark
<1>6. \E f \in Seq(Glyph) : /\ rest = Append(f, g) /\ Rest(more) = Append(f, Append(g, cp))
                            /\ First(more) = First(points)
  <2>1. CASE ~Joins(points)
    BY <1>2, <1>3, <1>5, <2>1 DEF Rest, First, rest, gs
  <2>2. CASE Joins(points)
    <3>1. rest = Tail(gs) /\ Rest(more) = Tail(Glyphs(more))
      BY <1>2, <2>2 DEF Rest, rest, gs
    <3>2. front # <<>>
      <4> SUFFICES ASSUME front = <<>> PROVE FALSE
        OBVIOUS
      <4>1. Tail(gs) = <<>>
        BY <1>3, FirstOfMore
      <4> QED BY <3>1, <4>1 DEF rest
    <3>3. gs[1] = front[1] /\ Tail(gs) = Append(Tail(front), g) /\ Tail(front) \in Seq(Glyph)
      BY <1>3, <3>2, FirstOfMore
    <3>4. /\ Glyphs(more)[1] = front[1]
          /\ Tail(Glyphs(more)) = Append(Tail(front), Append(g, cp))
      BY <1>4, <1>5, <3>2, FirstOfMore
    <3>5. First(more) = First(points)
      BY <1>2, <3>3, <3>4 DEF First, Joining, gs
    <3> QED BY <3>1, <3>3, <3>4, <3>5
  <2> QED BY <2>1, <2>2
<1>7. PICK f \in Seq(Glyph) : /\ rest = Append(f, g) /\ Rest(more) = Append(f, Append(g, cp))
                              /\ First(more) = First(points)
  BY <1>6
<1>8. rest[Len(rest)] = g /\ SubSeq(rest, 1, Len(rest) - 1) = f
  BY <1>7, LastApart
<1>9. /\ Rest(more) # <<>> /\ Rest(more)[Len(Rest(more))] = Append(g, cp)
      /\ SubSeq(Rest(more), 1, Len(Rest(more)) - 1) = f
  BY <1>4, <1>7, LastApart, ZenonT(40)
<1>10. Final(more) = Append(Final(points), cp) /\ Before(more) = Before(points)
  BY <1>7, <1>8, <1>9 DEF Final, Before, rest
<1> QED BY <1>9, <1>10 DEF more

LEMMA MoreJoined ==
  ASSUME term \in Terms, combine \in Buffers,
         NEW points \in Seq(Point), points # <<>>, NEW cp \in Point, Combining(cp),
         Rest(points) = <<>>
  PROVE  /\ Joins(points) /\ Joins(Append(points, cp)) /\ Rest(Append(points, cp)) = <<>>
         /\ Joining(Append(points, cp)) = Stored(Append(combine.chars \o Glyphs(points)[1], cp))
<1> DEFINE gs == Glyphs(points)
           more == Append(points, cp)
<1>1. gs \in Seq(Glyph) /\ gs # <<>>
  BY GlyphsType
<1>2. Glyphs(more) = Grouped(gs, cp) /\ Joins(more) = Joins(points)
  BY Grouping, JoinsMore
<1> HIDE DEF gs, more
<1>3. Joins(points) /\ Tail(gs) = <<>>
  BY <1>1 DEF Rest, gs
<1>4. PICK front \in Seq(Glyph), g \in Glyph : gs = Append(front, g)
  BY <1>1, SequenceEmptyOrAppend
<1>5. front = <<>>
  <2> SUFFICES ASSUME front # <<>> PROVE FALSE
    OBVIOUS
  <2>1. Tail(gs) = Append(Tail(front), g) /\ Tail(front) \in Seq(Glyph)
    BY <1>4, FirstOfMore
  <2> QED BY <1>3, <2>1, AppendProperties
<1>6. Append(g, cp) \in Glyph
  BY MarkMore DEF Glyph
<1>7. Glyphs(more) = Append(front, Append(g, cp))
  BY <1>2, <1>4, GroupedMark
<1>8. gs[1] = g /\ Glyphs(more)[1] = Append(g, cp) /\ Tail(Glyphs(more)) = <<>>
  BY <1>4, <1>5, <1>6, <1>7, FirstOfMore
<1>9. Rest(more) = <<>>
  BY <1>2, <1>3, <1>8 DEF Rest
<1>10. combine.chars \o Append(g, cp) = Append(combine.chars \o g, cp)
  BY JoinedToMore DEF Glyph, Upright, Buffers
<1> QED BY <1>2, <1>3, <1>8, <1>9, <1>10 DEF Joining, more, gs

LEMMA MarkMoreAgrees ==
  ASSUME term \in Terms, combine \in Buffers,
         NEW points \in Seq(Point), points # <<>>, NEW cp \in Point, Combining(cp),
         NEW r \in Refs, Agreed(points, r)
  PROVE  Agreed(Append(points, cp), RefPut(r, cp))
<1> DEFINE more == Append(points, cp)
           t == Rendered(points).term
           b == Rendered(points).combine
           u == Rendered(more).term
           c == Rendered(more).combine
           y == r.last.glyph
<1>1. r.term = t /\ r.last # NoGlyph /\ Shared(t, b, r.last)
  BY DEF Agreed, Matched
<1>2. y \in Seq(Point) /\ Append(y, cp) \in Seq(Point) /\ b.chars = Stored(y)
      /\ b.pos = r.last.at /\ b.pos \in Cells
  BY <1>1, RefParts, AppendProperties DEF Shared, Upright
<1>3. more \in Seq(Point) /\ more # <<>>
  BY AppendProperties
<1>4. \E z : /\ u = [t EXCEPT !.cells = putglyph(@, z, b.width, b.pos)]
             /\ Fits(z) = Fits(Append(y, cp))
             /\ c.chars = Stored(Append(y, cp)) /\ c.width = b.width /\ c.pos = b.pos
  <2>1. CASE Rest(points) = <<>>
    <3> DEFINE x == combine.chars \o Glyphs(points)[1]
               z == Joining(more)
               d == putglyph(term.cells, Joining(points), combine.width, combine.pos)
    <3>1. Joins(points) /\ Joins(more) /\ Rest(more) = <<>> /\ z = Stored(Append(x, cp))
      BY <2>1, MoreJoined
    <3>2. Glyphs(points)[1] \in Glyph /\ x \in Seq(Point) /\ Joining(points) \in Seq(Point)
      BY PartsType, JoiningType DEF Joining
    <3> HIDE DEF z
    <3>3. t = First(points) /\ b = [combine EXCEPT !.chars = Joining(points)]
      BY <2>1, RenderedIs
    <3>4. u = First(more) /\ c = [combine EXCEPT !.chars = z]
      <4> HIDE DEF more
      <4>1. Rendered(more) = [term |-> First(more),
                              combine |-> [combine EXCEPT !.chars = Joining(more)]]
        BY <1>3, <3>1, RenderedIs
      <4> QED BY <4>1 DEF z
    <3>5. b.chars = Stored(x) /\ b.width = combine.width /\ b.pos = combine.pos
      BY <3>3 DEF Joining, Buffers
    <3>6. c.chars = z /\ c.width = combine.width /\ c.pos = combine.pos
      BY <3>4 DEF Buffers
    <3> HIDE DEF x, u, c, b, y, more
    <3>7. z = Stored(Append(y, cp)) /\ Fits(z) = Fits(Append(y, cp))
      <4>1. y \in Seq(Point) /\ Stored(x) = Stored(y)
        BY <1>2, <3>5
      <4>2. Stored(Append(x, cp)) = Stored(Append(y, cp))
        BY <3>2, <4>1, MarkedAlike
      <4>3. Fits(Stored(Append(y, cp))) = Fits(Append(y, cp))
        BY <1>2, FitsStored
      <4> QED BY <3>1, <4>2, <4>3
    <3>8. u = [term EXCEPT !.cells = putglyph(term.cells, z, combine.width, combine.pos)]
      BY <3>1, <3>4 DEF First, z
    <3>9. t = [term EXCEPT !.cells = d]
      BY <3>1, <3>3 DEF First
    <3> HIDE DEF t
    <3>10. putglyph(d, z, combine.width, combine.pos)
             = putglyph(term.cells, z, combine.width, combine.pos)
      BY <1>2, <3>5, PutTwice
    <3> HIDE DEF d
    <3>11. u = [t EXCEPT !.cells = putglyph(t.cells, z, b.width, b.pos)]
      BY <3>5, <3>8, <3>9, <3>10 DEF Terms
    <3> QED BY <3>5, <3>6, <3>7, <3>11
  <2>2. CASE Rest(points) # <<>>
    <3> DEFINE v == Before(points)
               g == Final(points)
               z == Append(g, cp)
    <3>1. v \in Terms /\ g \in Glyph
      BY <2>2, PartsType
    <3>2. Rest(more) # <<>> /\ Final(more) = z /\ Before(more) = v
      BY <2>2, MoreMarked
    <3>3. t = Put(v, g) /\ b = [chars |-> Stored(g), width |-> WidthOf(g), pos |-> Pos(Wrapped(v))]
      BY <2>2, RenderedIs
    <3>4. u = Put(v, z) /\ c = [chars |-> Stored(z), width |-> WidthOf(z), pos |-> Pos(Wrapped(v))]
      <4> HIDE DEF more, z
      <4>1. Rendered(more) = [term |-> Put(Before(more), Final(more)),
                              combine |-> [chars |-> Stored(Final(more)),
                                           width |-> WidthOf(Final(more)),
                                           pos |-> Pos(Wrapped(Before(more)))]]
        BY <1>3, <3>2, RenderedIs
      <4> QED BY <3>2, <4>1
    <3> HIDE DEF v, g, t, b, u, c, y
    <3>5. WidthOf(z) = WidthOf(g) /\ g \in Seq(Point)
      BY <3>1, MarkMore DEF Glyph, Upright
    <3>6. Put(v, z) = [Put(v, g) EXCEPT !.cells = putglyph(@, z, WidthOf(g), Pos(Wrapped(v)))]
      BY <3>1, PutMark
    <3>7. Stored(z) = Stored(Append(y, cp)) /\ Fits(z) = Fits(Append(y, cp))
      BY <1>2, <3>3, <3>5, MarkedAlike
    <3> HIDE DEF z
    <3>8. b.width = WidthOf(g) /\ b.pos = Pos(Wrapped(v))
      BY <3>3
    <3>9. c.chars = Stored(z) /\ c.width = WidthOf(z) /\ c.pos = Pos(Wrapped(v))
      BY <3>4
    <3> QED BY <3>3, <3>4, <3>5, <3>6, <3>7, <3>8, <3>9
  <2> QED BY <2>1, <2>2
<1>5. Matched(u, c, RefPut(r, cp)) /\ RefPut(r, cp).last # NoGlyph
  <2> HIDE DEF u, c, t, b
  <2> QED BY <1>1, <1>4, MarkMatched
<1> QED BY <1>5 DEF Agreed

LEMMA OneGlyph ==
  ASSUME NEW cp \in Point
  PROVE  Glyphs(<<cp>>) = <<<<cp>>>> /\ <<cp>> \in Seq(Point)
<1>1. <<>> \in Seq(Point) /\ <<cp>> = Append(<<>>, cp) /\ <<cp>> \in Seq(Point)
  BY EmptySeq, AppendProperties
<1>2. Glyphs(<<>>) = <<>> /\ Glyphs(Append(<<>>, cp)) = Grouped(Glyphs(<<>>), cp)
  BY <1>1, Grouping
<1>3. Grouped(<<>>, cp) = Append(<<>>, <<cp>>)
  BY DEF Grouped
<1>4. Append(<<>>, <<cp>>) = <<<<cp>>>>
  OBVIOUS
<1> QED BY <1>1, <1>2, <1>3, <1>4

(* A call that begins with a mark, of the glyph of an earlier call.        *)
LEMMA FirstMarkAgrees ==
  ASSUME term \in Terms, combine \in Buffers, NEW cp \in Point, Combining(cp),
         NEW r \in Refs, Matched(term, combine, r), Joins(<<cp>>),
         ~term.at_phantom, term.cells[combine.pos] = Fits(combine.chars)
  PROVE  Agreed(<<cp>>, RefPut(r, cp))
<1> DEFINE one == <<cp>>
           z == Joining(one)
           u == Rendered(one).term
           c == Rendered(one).combine
<1>1. /\ combine.chars \in Seq(Point) /\ combine.width \in 0 .. 2 /\ combine.pos \in Cells
      /\ combine = [chars |-> combine.chars, width |-> combine.width, pos |-> combine.pos]
  BY DEF Buffers
<1>2. Glyphs(one) = <<one>> /\ one \in Seq(Point) /\ one # <<>> /\ one[1] = cp
  BY OneGlyph
<1>3. z = Stored(combine.chars \o one)
  <2>1. <<one>>[1] = one
    OBVIOUS
  <2> QED BY <1>2, <2>1 DEF Joining
<1>4. Rest(one) = <<>>
  <2>1. Tail(<<one>>) = <<>>
    OBVIOUS
  <2> QED BY <1>2, <2>1 DEF Rest
<1>5. combine.chars \o one = Append(combine.chars, cp)
  BY <1>1, AppendIsConcat
<1> HIDE DEF one, z
<1>6. /\ u = [term EXCEPT !.cells = putglyph(@, z, combine.width, combine.pos)]
      /\ c = [combine EXCEPT !.chars = z]
  <2>1. Rendered(one) = [term |-> First(one), combine |-> [combine EXCEPT !.chars = Joining(one)]]
    BY <1>2, <1>4, RenderedIs
  <2>2. First(one) = [term EXCEPT !.cells = putglyph(@, z, combine.width, combine.pos)]
    BY DEF First, z, one
  <2> QED BY <2>1, <2>2 DEF z
<1>7. c.chars = z /\ c.width = combine.width /\ c.pos = combine.pos
  BY <1>1, <1>6
<1> HIDE DEF u, c
<1>8. r.term = term
  BY DEF Matched
<1>9. ASSUME r.last # NoGlyph PROVE Agreed(one, RefPut(r, cp))
  <2> DEFINE y == r.last.glyph
  <2>1. Shared(term, combine, r.last)
    BY <1>9 DEF Matched
  <2>2. y \in Seq(Point) /\ Append(y, cp) \in Seq(Point) /\ combine.chars = Stored(y)
    BY <2>1, RefParts, AppendProperties DEF Shared, Upright
  <2>3. z = Stored(Append(y, cp))
    BY <1>3, <1>5, <2>2, StoredMore
  <2>4. Fits(z) = Fits(Append(y, cp))
    BY <2>2, <2>3, FitsStored
  <2>5. Matched(u, c, RefPut(r, cp)) /\ RefPut(r, cp).last # NoGlyph
    BY <1>6, <1>7, <1>8, <1>9, <2>1, <2>3, <2>4, MarkMatched
  <2> QED BY <2>5 DEF Agreed, u, c
<1>10. ASSUME r.last = NoGlyph PROVE Agreed(one, RefPut(r, cp))
  <2>1. Apart(term, combine)
    BY <1>10 DEF Matched
  <2>2. term.row = combine.pos[1] /\ term.col = combine.pos[2] + combine.width
    BY DEF Joins
  <2>3. combine.chars = <<>>
    <3> SUFFICES ASSUME combine.chars # <<>> PROVE FALSE
      OBVIOUS
    <3>1. term.cells[combine.pos] # Blank
      BY <1>1, FitsType
    <3>2. ~(\A q \in Cells : q[1] >= combine.pos[1] => term.cells[q] = Blank)
      <4>1. combine.pos[1] >= combine.pos[1]
        BY <1>1 DEF Cells
      <4> QED BY <1>1, <3>1, <4>1
    <3>3. combine.pos[1] \in Int /\ combine.pos[2] \in Int
      BY <1>1 DEF Cells
    <3>4. ~(term.row > combine.pos[1]) /\ ~(term.col < combine.pos[2] + combine.width)
      BY <1>1, <2>2, <3>3
    <3> QED BY <2>1, <3>2, <3>4 DEF Apart
  <2>4. combine.width = 0 /\ combine.pos = <<0, 0>>
    BY <2>1, <2>3 DEF Apart
  <2>5. z = Stored(one) /\ Fits(z) = Fits(one)
    <3>1. <<>> \o one = one
      BY <1>2, ConcatEmptySeq
    <3> QED BY <1>2, <1>3, <2>3, <3>1, FitsStored
  <2>6. Wrapped(term) = term
    BY WrappedType
  <2>7. Pos(term) = <<0, 0>> /\ term.row = 0 /\ term.col = 0
    BY <2>2, <2>4 DEF Pos
  <2>8. one \in Glyph /\ WidthOf(one) = 0
    BY One DEF Width, one
  <2>9. u = Put(term, one)
    <3> DEFINE v == Put(term, one)
               x == putglyph(term.cells, z, combine.width, combine.pos)
    <3>1. v.cells = putglyph(term.cells, one, 0, <<0, 0>>) /\ Passed(v, term, 0)
      BY <2>6, <2>7, <2>8, PutIs
    <3>2. x = putglyph(term.cells, one, 0, <<0, 0>>)
      BY <2>4, <2>5, PutSame
    <3>3. v \in Terms
      BY <2>8, PutType
    <3> HIDE DEF v
    <3>4. ~(term.col + 0 >= Cols)
      BY <2>7, GlyphsAssumption
    <3>5. v.row = term.row /\ v.col = term.col /\ v.at_phantom = FALSE
      BY <2>7, <3>1, <3>4 DEF Passed
    <3>6. term.at_phantom = FALSE
      BY DEF Terms
    <3>7. x \in Screens
      <4>1. one \in Seq(Point) /\ term.cells \in Screens
        BY <1>2 DEF Terms
      <4> QED BY <3>2, <4>1, PutglyphType
    <3>8. u = [term EXCEPT !.cells = x]
      BY <1>6
    <3> HIDE DEF x
    <3>9. u \in Terms /\ u.cells = x /\ u.row = term.row /\ u.col = term.col
          /\ u.at_phantom = term.at_phantom
      BY <3>7, <3>8, TermWith DEF Fields
    <3>10. u = v
      BY <3>1, <3>2, <3>3, <3>5, <3>6, <3>9, TermEqual
    <3> QED BY <3>10 DEF v
  <2>10. Matched(Put(r.term, <<cp>>), c, RefPut(r, cp)) /\ RefPut(r, cp).last # NoGlyph
    <3>1. c.chars = Stored(<<cp>>) /\ c.width = WidthOf(<<cp>>) /\ c.pos = Pos(Wrapped(r.term))
      BY <1>7, <1>8, <2>4, <2>5, <2>6, <2>7, <2>8 DEF one
    <3> QED BY <1>10, <3>1, StartMatched
  <2> QED BY <1>8, <2>9, <2>10 DEF Agreed, u, c, one
<1> QED BY <1>9, <1>10 DEF one

(* A call that begins with a glyph of its own.                             *)
LEMMA FirstStartAgrees ==
  ASSUME term \in Terms, combine \in Buffers, NEW cp \in Point,
         NEW r \in Refs, Matched(term, combine, r), ~Joins(<<cp>>),
         Combining(cp) => ~term.at_phantom
  PROVE  Agreed(<<cp>>, RefPut(r, cp))
<1> DEFINE one == <<cp>>
           c == Rendered(one).combine
<1>1. Glyphs(one) = <<one>> /\ one # <<>> /\ one[1] = cp
  BY OneGlyph
<1>2. ~(Combining(cp) /\ r.last # NoGlyph)
  <2> SUFFICES ASSUME Combining(cp), r.last # NoGlyph PROVE FALSE
    OBVIOUS
  <2>1. Shared(term, combine, r.last)
    BY DEF Matched
  <2>2. term.row = combine.pos[1] /\ term.col = combine.pos[2] + combine.width
    BY <2>1 DEF Shared
  <2> QED BY <1>1, <2>2 DEF Joins
<1> HIDE DEF one
<1>3. Rest(one) = <<one>> /\ First(one) = term
  BY <1>1 DEF Rest, First, one
<1>4. Rest(one) # <<>> /\ Final(one) = one /\ Before(one) = term
  <2>1. Len(<<one>>) = 1 /\ <<one>>[1] = one /\ SubSeq(<<one>>, 1, 1 - 1) = <<>>
    BY SubSeqEmpty
  <2>2. <<>> \in Seq(Glyph)
    BY EmptySeq
  <2>3. PutAll(term, <<>>) = term
    BY <2>2, PutAllType
  <2> DEFINE rest == Rest(one)
  <2>4. rest # <<>> /\ Len(rest) = 1 /\ rest[1] = one /\ SubSeq(rest, 1, 1 - 1) = <<>>
    BY <1>3, <2>1
  <2>5. Final(one) = rest[Len(rest)]
    BY DEF Final
  <2>6. Before(one) = PutAll(First(one), SubSeq(rest, 1, Len(rest) - 1))
    BY DEF Before
  <2> HIDE DEF rest
  <2>7. Before(one) = term
    BY <1>3, <2>3, <2>4, <2>6
  <2> QED BY <2>4, <2>5, <2>7 DEF rest
<1>5. Rendered(one) = [term |-> Put(term, one),
                       combine |-> [chars |-> Stored(one), width |-> WidthOf(one),
                                    pos |-> Pos(Wrapped(term))]]
  BY <1>1, <1>4, RenderedIs
<1>6. r.term = term
  BY DEF Matched
<1>7. c.chars = Stored(one) /\ c.width = WidthOf(one) /\ c.pos = Pos(Wrapped(r.term))
  BY <1>5, <1>6
<1> HIDE DEF c
<1>8. Matched(Put(r.term, one), c, RefPut(r, cp)) /\ RefPut(r, cp).last # NoGlyph
  BY <1>2, <1>7, StartMatched DEF one
<1> QED BY <1>5, <1>6, <1>8 DEF Agreed, c, one

LEMMA NoDeviation ==
  ASSUME NEW points, points # <<>>, Deviations(points) = {}
  PROVE  /\ Combining(points[1]) => ~term.at_phantom
         /\ Joins(points) => term.cells[combine.pos] = Fits(combine.chars)
BY DEF Deviations

LEMMA PointAgrees ==
  ASSUME term \in Terms, combine \in Buffers, NEW points \in Seq(Point), NEW cp \in Point,
         NEW r \in Refs, Agreed(points, r), Deviations(Append(points, cp)) = {}
  PROVE  Agreed(Append(points, cp), RefPut(r, cp))
<1>1. CASE points = <<>>
  <2>1. Append(points, cp) = <<cp>> /\ <<cp>> # <<>> /\ <<cp>>[1] = cp
    BY <1>1
  <2>2. Matched(term, combine, r)
    <3>1. Rendered(points) = [term |-> term, combine |-> combine]
      BY <1>1, RenderedIs
    <3> QED BY <3>1 DEF Agreed
  <2>3. /\ Combining(cp) => ~term.at_phantom
        /\ Joins(<<cp>>) => term.cells[combine.pos] = Fits(combine.chars)
    BY <2>1, NoDeviation
  <2>4. Joins(<<cp>>) => Combining(cp)
    BY <2>1 DEF Joins
  <2>5. Agreed(<<cp>>, RefPut(r, cp))
    BY <2>2, <2>3, <2>4, FirstMarkAgrees, FirstStartAgrees
  <2> QED BY <2>1, <2>5
<1>2. CASE points # <<>> /\ Combining(cp)
  BY <1>2, MarkMoreAgrees
<1>3. CASE points # <<>> /\ ~Combining(cp)
  <2> DEFINE more == Append(points, cp)
             t == Rendered(points).term
             c == Rendered(more).combine
  <2>1. /\ Rendered(more).term = Put(t, <<cp>>)
        /\ c = [chars |-> Stored(<<cp>>), width |-> WidthOf(<<cp>>), pos |-> Pos(Wrapped(t))]
    BY <1>3, MoreStarts
  <2>2. r.term = t
    BY DEF Agreed, Matched
  <2>3. c.chars = Stored(<<cp>>) /\ c.width = WidthOf(<<cp>>) /\ c.pos = Pos(Wrapped(r.term))
    BY <2>1, <2>2
  <2> HIDE DEF c
  <2>4. Matched(Put(r.term, <<cp>>), c, RefPut(r, cp)) /\ RefPut(r, cp).last # NoGlyph
    BY <1>3, <2>3, StartMatched
  <2> HIDE DEF more, t
  <2>5. Agreed(more, RefPut(r, cp))
    BY <2>1, <2>2, <2>4 DEF Agreed, c
  <2> QED BY <2>5 DEF more
<1> QED BY <1>1, <1>2, <1>3

-----------------------------------------------------------------------------
(* A whole call.                                                           *)

LEMMA FewerDeviate ==
  ASSUME NEW y \in Seq(Point), NEW z \in Seq(Point), Deviations(y \o z) = {}
  PROVE  Deviations(y) = {}
<1>1. CASE y = <<>>
  BY <1>1 DEF Deviations, Joins
<1>2. CASE y # <<>>
  <2>1. Len(y) \in Nat \ {0} /\ Len(z) \in Nat
    BY <1>2, EmptySeq, LenProperties
  <2>2. 1 \in 1 .. Len(y) + Len(z) /\ 1 <= Len(y)
    BY <2>1
  <2>3. (y \o z)[1] = y[1]
    BY <2>2, ConcatProperties
  <2>4. y \o z # <<>>
    BY <1>2, ConcatEqualIffEmpty
  <2>5. Joins(y \o z) = Joins(y)
    BY <1>2, <2>3, <2>4 DEF Joins
  <2> QED BY <1>2, <2>3, <2>4, <2>5 DEF Deviations
<1> QED BY <1>1, <1>2

AgreedAfter(x, r, ps) ==
  Deviations(x \o ps) = {} =>
    Agreed(x \o ps, RefPuts(r, ps)) /\ RefPuts(r, ps).dec = r.dec

LEMMA PointsAgree ==
  ASSUME term \in Terms, combine \in Buffers, NEW x \in Seq(Point),
         NEW r \in Refs, Agreed(x, r), NEW ps \in Seq(Point)
  PROVE  AgreedAfter(x, r, ps)
<1> DEFINE T == {s \in Seq(Point) : AgreedAfter(x, r, s)}
<1>1. <<>> \in T
  <2>1. <<>> \in Seq(Point) /\ <<>> \in Point /\ x \o <<>> = x
    BY EmptySeq, ConcatEmptySeq DEF Point
  <2>2. RefPuts(r, <<>>) = r
    BY <2>1, RefPutting
  <2> QED BY <2>1, <2>2 DEF AgreedAfter
<1>2. ASSUME NEW s \in Seq(Point), NEW e \in Point, s \in T PROVE Append(s, e) \in T
  <2> DEFINE y == x \o s
             q == RefPuts(r, s)
  <2>1. Append(s, e) \in Seq(Point) /\ y \in Seq(Point) /\ <<e>> \in Seq(Point)
    BY AppendProperties, ConcatProperties
  <2>2. x \o Append(s, e) = Append(y, e) /\ Append(y, e) = y \o <<e>>
    BY <2>1, JoinedToMore, AppendIsConcat
  <2>3. RefPuts(r, Append(s, e)) = RefPut(q, e) /\ q \in Refs
    BY RefPutting
  <2>4. Deviations(y) = {} => Agreed(y, q) /\ q.dec = r.dec
    BY <1>2 DEF AgreedAfter
  <2> HIDE DEF y, q
  <2>5. ASSUME Deviations(Append(y, e)) = {}
        PROVE  Agreed(Append(y, e), RefPut(q, e)) /\ RefPut(q, e).dec = r.dec
    <3>1. Deviations(y) = {}
      BY <2>1, <2>2, <2>5, FewerDeviate
    <3> QED BY <2>1, <2>3, <2>4, <2>5, <3>1, PointAgrees, RefPutType
  <2>6. AgreedAfter(x, r, Append(s, e))
    BY <2>2, <2>3, <2>5 DEF AgreedAfter
  <2> QED BY <2>1, <2>6
<1> HIDE DEF T
<1>3. \A s \in Seq(Point) : s \in T
  BY <1>1, <1>2, SeqInduction
<1> QED BY <1>3 DEF T

ReadAfter(r, run) ==
  LET d == decode_utf8(r.dec, run)
  IN  Deviations(d.out) = {} =>
        Agreed(d.out, RefRead(r, run)) /\ RefRead(r, run).dec = d.dec

LEMMA RunAgrees ==
  ASSUME term \in Terms, combine \in Buffers,
         NEW r \in Refs, Matched(term, combine, r), NEW run \in Seq(Text)
  PROVE  ReadAfter(r, run)
<1> DEFINE T == {s \in Seq(Text) : ReadAfter(r, s)}
<1>0. r.dec \in Decoders
  BY RefParts
<1>1. <<>> \in T
  <2>1. <<>> \in Seq(Text) /\ <<>> \in Seq(Byte)
    BY EmptySeq
  <2>2. decode_utf8(r.dec, <<>>) = [dec |-> r.dec, out |-> <<>>] /\ RefRead(r, <<>>) = r
    BY <1>0, <2>1, DecodedType, RefReadType
  <2>3. Agreed(<<>>, r)
    <3>1. Rendered(<<>>) = [term |-> term, combine |-> combine]
      BY RenderedIs
    <3> QED BY <3>1 DEF Agreed
  <2> QED BY <2>1, <2>2, <2>3 DEF ReadAfter
<1>2. ASSUME NEW s \in Seq(Text), NEW b \in Text, s \in T PROVE Append(s, b) \in T
  <2> DEFINE d == decode_utf8(r.dec, s)
             n == Decode(d.dec, b)
             q == RefRead(r, s)
             p == [q EXCEPT !.dec = n.dec]
  <2>1. Append(s, b) \in Seq(Text) /\ s \in Seq(Byte) /\ b \in Byte /\ b \notin Controls
    <3>1. Text \subseteq Byte
      BY DEF Text
    <3> QED BY <3>1, AppendProperties, SeqMonotonic DEF Text
  <2>2. d.dec \in Decoders /\ d.out \in Seq(Point)
    BY <1>0, DecodedType DEF Decoded
  <2>3. n.dec \in Decoders /\ n.out \in Seq(Point)
    BY <2>2, DecodeType DEF Decoded
  <2>4. decode_utf8(r.dec, Append(s, b)) = [dec |-> n.dec, out |-> d.out \o n.out]
    BY <1>0, Decoding DEF DecodeNext
  <2>5. RefRead(r, Append(s, b)) = RefByte(q, b) /\ q \in Refs
    BY <2>1, RefReading
  <2>6. Deviations(d.out) = {} => Agreed(d.out, q) /\ q.dec = d.dec
    BY <1>2 DEF ReadAfter
  <2> HIDE DEF d, q
  <2>7. ASSUME Deviations(d.out \o n.out) = {}
        PROVE  Agreed(d.out \o n.out, RefByte(q, b)) /\ RefByte(q, b).dec = n.dec
    <3>1. Deviations(d.out) = {}
      BY <2>2, <2>3, <2>7, FewerDeviate
    <3>2. Agreed(d.out, q) /\ q.dec = d.dec
      BY <2>6, <3>1
    <3>3. RefByte(q, b) = RefPuts(p, n.out)
      BY <2>1, <3>2 DEF RefByte
    <3> HIDE DEF n
    <3>4. p \in Refs /\ p.dec = n.dec /\ p.term = q.term /\ p.last = q.last
      BY <2>3, <2>5, RefDecoded DEF Refs
    <3> HIDE DEF p
    <3>5. Agreed(d.out, p)
      BY <3>2, <3>4 DEF Agreed, Matched
    <3>6. AgreedAfter(d.out, p, n.out)
      BY <2>2, <2>3, <3>4, <3>5, PointsAgree
    <3> QED BY <2>7, <3>3, <3>4, <3>6 DEF AgreedAfter
  <2> HIDE DEF n
  <2>8. ReadAfter(r, Append(s, b))
    BY <2>4, <2>5, <2>7 DEF ReadAfter
  <2> QED BY <2>1, <2>8
<1> HIDE DEF T
<1>3. \A s \in Seq(Text) : s \in T
  BY <1>1, <1>2, SeqInduction
<1> QED BY <1>3 DEF T

(* The reference goes on where it was.                                     *)
LEMMA ReadOn ==
  ASSUME NEW r \in Refs, NEW run \in Seq(Byte), NEW rest \in Seq(Byte)
  PROVE  RefRead(r, run \o rest) = RefRead(RefRead(r, run), rest)
<1> DEFINE q == RefRead(r, run)
           T == {s \in Seq(Byte) : RefRead(r, run \o s) = RefRead(q, s)}
<1>0. q \in Refs
  BY RefReadType
<1> HIDE DEF q
<1>1. <<>> \in T
  <2>1. <<>> \in Seq(Byte) /\ run \o <<>> = run
    BY EmptySeq, ConcatEmptySeq
  <2> QED BY <1>0, <2>1, RefReadType DEF q
<1>2. ASSUME NEW s \in Seq(Byte), NEW b \in Byte, s \in T PROVE Append(s, b) \in T
  <2>1. run \o Append(s, b) = Append(run \o s, b) /\ run \o s \in Seq(Byte)
    BY JoinedToMore, ConcatProperties
  <2>2. RefRead(r, Append(run \o s, b)) = RefByte(RefRead(r, run \o s), b)
    BY <2>1, RefReading
  <2>3. RefRead(q, Append(s, b)) = RefByte(RefRead(q, s), b)
    BY <1>0, RefReading
  <2>4. Append(s, b) \in Seq(Byte)
    BY AppendProperties
  <2> QED BY <1>2, <2>1, <2>2, <2>3, <2>4
<1> HIDE DEF T
<1>3. \A s \in Seq(Byte) : s \in T
  BY <1>1, <1>2, SeqInduction
<1> QED BY <1>3 DEF T, q

LEMMA ReadFirst ==
  ASSUME NEW r \in Refs, NEW s \in Seq(Byte), s # <<>>
  PROVE  RefRead(r, s) = RefRead(RefByte(r, s[1]), Tail(s))
<1>1. Len(s) \in Nat \ {0}
  BY EmptySeq
<1>2. 1 \in 1 .. Len(s) /\ Len(s) \in 1 .. Len(s)
  BY <1>1
<1>3. s[1] \in Byte /\ Tail(s) \in Seq(Byte) /\ Tail(s) = SubSeq(s, 2, Len(s))
  BY <1>2, ElementOfSeq, HeadTailProperties, TailIsSubSeq
<1>4. s = <<s[1]>> \o Tail(s)
  <2>1. SubSeq(s, 1, Len(s)) = <<s[1]>> \o SubSeq(s, 1 + 1, Len(s))
    BY <1>2, SubSeqRecursiveFirst
  <2>2. SubSeq(s, 1, Len(s)) = s /\ 1 + 1 = 2
    BY SubSeqFull
  <2> QED BY <1>3, <2>1, <2>2
<1> DEFINE b == s[1]
           rest == Tail(s)
<1> HIDE DEF b, rest
<1>5. <<b>> = Append(<<>>, b) /\ <<b>> \in Seq(Byte) /\ <<>> \in Seq(Byte)
  BY <1>3, EmptySeq DEF b
<1>6. RefRead(r, <<b>>) = RefByte(r, b)
  <2>1. RefRead(r, Append(<<>>, b)) = RefByte(RefRead(r, <<>>), b)
    BY <1>3, <1>5, RefReading DEF b
  <2> QED BY <1>5, <2>1, RefReadType
<1>7. RefRead(r, <<b>> \o rest) = RefRead(RefRead(r, <<b>>), rest)
  BY <1>3, <1>5, ReadOn DEF rest
<1>8. s = <<b>> \o rest
  BY <1>4 DEF b, rest
<1> QED BY <1>6, <1>7, <1>8 DEF b, rest

(* US-ASCII makes of letters what UTF-8 makes of them.                     *)
LEMMA LettersDecoded ==
  ASSUME NEW run \in Seq({"a"})
  PROVE  decode_utf8(NoChar, run) = [dec |-> NoChar, out |-> LetterPoints(run)]
<1> DEFINE T == {s \in Seq({"a"}) :
                  decode_utf8(NoChar, s) = [dec |-> NoChar, out |-> LetterPoints(s)]}
<1>0. NoChar \in Decoders /\ NoChar.need = 0 /\ "a" \in Text /\ <<"a">> \in Point
  BY DEF NoChar, Decoders, Text, Byte, Controls, Point, Symbol
<1>1. <<>> \in T
  <2>1. <<>> \in Seq({"a"}) /\ <<>> \in Seq(Text) /\ Len(<<>>) = 0
    BY EmptySeq
  <2>2. LetterPoints(<<>>) = <<>>
    BY <2>1 DEF LetterPoints
  <2> QED BY <1>0, <2>1, <2>2, DecodedType
<1>2. ASSUME NEW s \in Seq({"a"}), NEW e \in {"a"}, s \in T PROVE Append(s, e) \in T
  <2> DEFINE x == LetterPoints(s)
             y == LetterPoints(Append(s, e))
             n == Len(s)
  <2>1. s \in Seq(Text) /\ x \in Seq(Point) /\ Append(s, e) \in Seq({"a"})
        /\ y \in Seq(Point) /\ n \in Nat
    BY LettersType, AppendProperties, LenProperties
  <2>2. Decode(NoChar, "a") = [dec |-> NoChar, out |-> <<<<"a">>>>]
    <3>1. Broken(NoChar) = <<>>
      BY <1>0 DEF Broken
    <3>2. Append(<<>>, <<"a">>) = <<<<"a">>>>
      OBVIOUS
    <3> QED BY <3>1, <3>2 DEF Decode, Lead, Continuation
  <2>3. decode_utf8(NoChar, Append(s, e)) = [dec |-> NoChar, out |-> x \o <<<<"a">>>>]
    <3>1. decode_utf8(NoChar, Append(s, e)) = DecodeNext(decode_utf8(NoChar, s), e)
      BY <1>0, <2>1, Decoding
    <3>2. decode_utf8(NoChar, s) = [dec |-> NoChar, out |-> x]
      BY <1>2
    <3>3. Decode(NoChar, "a").dec = NoChar /\ Decode(NoChar, "a").out = <<<<"a">>>>
      BY <2>2
    <3>4. e = "a"
      OBVIOUS
    <3> DEFINE u == [dec |-> NoChar, out |-> x]
    <3> HIDE DEF x
    <3>5. u.dec = NoChar /\ u.out = x
      OBVIOUS
    <3> HIDE DEF u
    <3>6. DecodeNext(u, "a") = [dec |-> NoChar, out |-> x \o <<<<"a">>>>]
      BY <3>3, <3>5 DEF DecodeNext
    <3> QED BY <3>1, <3>2, <3>4, <3>6 DEF u
  <2>4. x \o <<<<"a">>>> = Append(x, <<"a">>)
    BY <1>0, <2>1, AppendIsConcat
  <2>5. y = Append(x, <<"a">>)
    <3>1. Len(Append(s, e)) = n + 1 /\ \A i \in 1 .. n : Append(s, e)[i] = s[i]
          /\ Append(s, e)[n + 1] = e
      BY AppendProperties
    <3>2. Len(y) = n + 1 /\ Len(x) = n /\ (\A i \in 1 .. n + 1 : y[i] = <<Append(s, e)[i]>>)
          /\ \A i \in 1 .. n : x[i] = <<s[i]>>
      BY <2>1, <3>1, LenProperties DEF LetterPoints
    <3> HIDE DEF x, y, n
    <3>3. /\ Append(x, <<"a">>) \in Seq(Point) /\ Len(Append(x, <<"a">>)) = n + 1
          /\ \A i \in 1 .. n : Append(x, <<"a">>)[i] = x[i]
          /\ Append(x, <<"a">>)[n + 1] = <<"a">>
      BY <1>0, <2>1, <3>2, AppendProperties
    <3>4. \A i \in 1 .. n + 1 : y[i] = Append(x, <<"a">>)[i]
      <4> SUFFICES ASSUME NEW i \in 1 .. n + 1 PROVE y[i] = Append(x, <<"a">>)[i]
        OBVIOUS
      <4>1. CASE i = n + 1
        BY <3>1, <3>2, <3>3, <4>1
      <4>2. CASE i # n + 1
        <5>1. i \in 1 .. n
          BY <2>1, <4>2
        <5> QED BY <3>1, <3>2, <3>3, <5>1
      <4> QED BY <4>1, <4>2
    <3> QED BY <2>1, <3>2, <3>3, <3>4, SeqEqual
  <2> HIDE DEF x, y
  <2>6. decode_utf8(NoChar, Append(s, e)) = [dec |-> NoChar, out |-> y]
    BY <2>3, <2>4, <2>5
  <2> QED BY <2>1, <2>6 DEF y
<1> HIDE DEF T
<1>3. \A s \in Seq({"a"}) : s \in T
  BY <1>1, <1>2, SeqInduction
<1> QED BY <1>3 DEF T

LEMMA LettersDoNotDeviate ==
  ASSUME NEW run \in Seq({"a"})
  PROVE  Deviations(LetterPoints(run)) = {}
<1> DEFINE x == LetterPoints(run)
<1>1. ASSUME x # <<>> PROVE ~Combining(x[1])
  <2>1. x \in Seq(Point) /\ Len(x) = Len(run)
    BY LettersType, LenProperties DEF LetterPoints
  <2>2. 1 \in 1 .. Len(run)
    <3> HIDE DEF x
    <3> QED BY <1>1, <2>1, EmptySeq
  <2>3. x[1] = <<"a">>
    BY <2>2, ElementOfSeq DEF LetterPoints
  <2>4. <<"a">> # <<"L2", "M">>
    OBVIOUS
  <2> HIDE DEF x
  <2> QED BY <2>3, <2>4 DEF Combining
<1> HIDE DEF x
<1>2. Deviations(x) = {}
  BY <1>1 DEF Deviations, Joins
<1> QED BY <1>2 DEF x

-----------------------------------------------------------------------------
(* Controls.  Where the cursor goes from the end of the last glyph, the    *)
(* buffer is not looked for, or what is there is blank.                    *)

LEMMA ScrolledBlank ==
  ASSUME NEW cells \in Screens, NEW n \in Nat,
         \A q \in Cells : q[1] >= n => cells[q] = Blank
  PROVE  \A q \in Cells : q[1] >= n => Scrolled(cells)[q] = Blank
<1> SUFFICES ASSUME NEW q \in Cells, q[1] >= n PROVE Scrolled(cells)[q] = Blank
  OBVIOUS
<1>1. CASE q[1] = Rows - 1
  BY <1>1 DEF Scrolled
<1>2. CASE q[1] # Rows - 1
  <2> DEFINE p == <<q[1] + 1, q[2]>>
  <2>1. p \in Cells /\ p[1] >= n
    BY <1>2, GlyphsAssumption DEF Cells
  <2>2. Scrolled(cells)[q] = cells[p]
    BY <1>2 DEF Scrolled
  <2> HIDE DEF p
  <2> QED BY <2>1, <2>2
<1> QED BY <1>1, <1>2

LEMMA LastRowBlank ==
  ASSUME NEW cells
  PROVE  \A q \in Cells : q[1] >= Rows - 1 => Scrolled(cells)[q] = Blank
<1> SUFFICES ASSUME NEW q \in Cells, q[1] >= Rows - 1 PROVE Scrolled(cells)[q] = Blank
  OBVIOUS
<1>1. q[1] = Rows - 1
  BY GlyphsAssumption DEF Cells
<1> QED BY <1>1 DEF Scrolled

(* What the terminal is after a control.                                   *)
Controlled(t, b) == IF b = "RIS" THEN ResetTerm ELSE OnControl(t, b)

ControlMoves(t, u, b) ==
  \/ b = "RIS" /\ \A q \in Cells : u.cells[q] = Blank
  \/ b = "CR" /\ u = t
  \/ b = "CR" /\ u.cells = t.cells /\ u.row = t.row /\ u.col = 0 /\ t.col # 0
  \/ b = "LF" /\ u.cells = t.cells /\ u.row = t.row + 1
  \/ b = "LF" /\ u.cells = Scrolled(t.cells) /\ u.row = t.row /\ t.row = Rows - 1

LEMMA ControlIs ==
  ASSUME NEW t \in Terms, NEW b \in Controls
  PROVE  ControlMoves(t, Controlled(t, b), b)
<1> DEFINE u == Controlled(t, b)
<1>0. t.row \in 0 .. Rows - 1 /\ t.col \in 0 .. Cols - 1
  BY DEF Terms
<1>1. CASE b = "RIS"
  BY <1>1 DEF ControlMoves, Controlled, ResetTerm, BlankScreen
<1>2. CASE b = "CR"
  <2> DEFINE m == [t EXCEPT !.col = 0]
  <2>0. 0 \in 0 .. Cols - 1
    BY GlyphsAssumption
  <2>1. m \in Terms /\ Fields(m, t.cells, t.row, 0, t.at_phantom)
    BY <2>0, TermWith
  <2>2. u = IF Pos(m) = Pos(t) THEN m ELSE [m EXCEPT !.at_phantom = FALSE]
    BY <1>2 DEF Controlled, OnControl
  <2> HIDE DEF m, u
  <2>3. m.cells = t.cells /\ m.row = t.row /\ m.col = 0 /\ m.at_phantom = t.at_phantom
    BY <2>1 DEF Fields
  <2>4. CASE t.col = 0
    <3>1. m = t
      BY <2>1, <2>3, <2>4, TermEqual
    <3>2. u = t
      BY <2>2, <3>1
    <3> QED BY <1>2, <3>2 DEF ControlMoves, u
  <2>5. CASE t.col # 0
    <3>1. u = [m EXCEPT !.at_phantom = FALSE]
      BY <2>2, <2>3, <2>5 DEF Pos
    <3>2. Fields(u, m.cells, m.row, m.col, FALSE)
      BY <2>1, <3>1, TermWith
    <3>3. u.cells = t.cells /\ u.row = t.row /\ u.col = 0
      BY <2>3, <3>2 DEF Fields
    <3> QED BY <1>2, <2>5, <3>3 DEF ControlMoves, u
  <2> QED BY <2>4, <2>5
<1>3. CASE b = "LF"
  <2> DEFINE m == linefeed(t)
  <2>1. u = IF Pos(m) = Pos(t) THEN m ELSE [m EXCEPT !.at_phantom = FALSE]
    BY <1>3 DEF Controlled, OnControl
  <2>2. /\ m \in Terms
        /\ t.row < Rows - 1 => Fields(m, t.cells, t.row + 1, t.col, t.at_phantom)
        /\ ~(t.row < Rows - 1) => Fields(m, Scrolled(t.cells), t.row, t.col, t.at_phantom)
    BY LinefeedType
  <2> HIDE DEF m, u
  <2>3. u.cells = m.cells /\ u.row = m.row
    <3>1. CASE Pos(m) = Pos(t)
      BY <2>1, <3>1
    <3>2. CASE Pos(m) # Pos(t)
      <4>1. u = [m EXCEPT !.at_phantom = FALSE]
        BY <2>1, <3>2
      <4>2. Fields(u, m.cells, m.row, m.col, FALSE)
        BY <2>2, <4>1, TermWith
      <4> QED BY <4>2 DEF Fields
    <3> QED BY <3>1, <3>2
  <2>4. CASE t.row < Rows - 1
    <3>1. u.cells = t.cells /\ u.row = t.row + 1
      BY <2>2, <2>3, <2>4 DEF Fields
    <3> QED BY <1>3, <3>1 DEF ControlMoves, u
  <2>5. CASE ~(t.row < Rows - 1)
    <3>1. u.cells = Scrolled(t.cells) /\ u.row = t.row /\ t.row = Rows - 1
      BY <1>0, <2>2, <2>3, <2>5, GlyphsAssumption DEF Fields
    <3> QED BY <1>3, <3>1 DEF ControlMoves, u
  <2> QED BY <2>4, <2>5
<1> QED BY <1>1, <1>2, <1>3 DEF Controls

(* The cursor, and the glyph that a mark would join.                       *)
LEMMA SharedMoves ==
  ASSUME NEW t \in Terms, NEW c \in Buffers, NEW last \in [glyph : Upright, at : Cells],
         Shared(t, c, last), NEW b \in Controls, NEW u, ControlMoves(t, u, b)
  PROVE  u = t \/ (Apart(u, c) /\ ~(Pos(u) = Pos(t) /\ u.cells = t.cells))
<1>1. c.pos = last.at /\ last.at \in Cells /\ c.width \in 0 .. 2 /\ t.cells[last.at] # Blank
      /\ t.row = last.at[1]
  BY DEF Shared, Buffers
<1>2. last.at[1] \in 0 .. Rows - 1 /\ last.at[2] \in 0 .. Cols - 1
  BY <1>1 DEF Cells
<1>3. c.chars # <<>>
  <2>1. last.glyph \in Seq(Point) /\ last.glyph # <<>>
    BY DEF Shared, Glyph, Upright
  <2> QED BY <2>1, StoredType DEF Shared
<1>4. CASE b = "RIS" /\ \A q \in Cells : u.cells[q] = Blank
  BY <1>1, <1>3, <1>4 DEF Apart
<1>5. CASE b = "CR" /\ u.cells = t.cells /\ u.row = t.row /\ u.col = 0 /\ t.col # 0
  <2>1. t.col \in Nat
    BY DEF Terms
  <2>2. u.col < c.pos[2] + c.width
    <3>1. CASE t.at_phantom
      <4>1. t.col = c.pos[2]
        BY <1>1, <3>1 DEF Shared
      <4> QED BY <1>1, <1>5, <2>1, <4>1
    <3>2. CASE ~t.at_phantom
      <4>1. t.col = c.pos[2] + c.width
        BY <1>1, <3>2 DEF Shared
      <4> QED BY <1>1, <1>5, <2>1, <4>1
    <3> QED BY <3>1, <3>2
  <2>3. Apart(u, c)
    BY <1>1, <1>3, <1>5, <2>2 DEF Apart
  <2>4. Pos(u) # Pos(t)
    BY <1>5 DEF Pos
  <2> QED BY <2>3, <2>4
<1>6. CASE b = "LF" /\ u.cells = t.cells /\ u.row = t.row + 1
  <2>1. u.row > c.pos[1]
    BY <1>1, <1>2, <1>6
  <2>2. Pos(u) # Pos(t)
    BY <1>1, <1>2, <1>6 DEF Pos
  <2> QED BY <1>3, <2>1, <2>2 DEF Apart
<1>7. CASE b = "LF" /\ u.cells = Scrolled(t.cells) /\ u.row = t.row /\ t.row = Rows - 1
  <2>1. \A q \in Cells : q[1] >= c.pos[1] => u.cells[q] = Blank
    BY <1>1, <1>7, LastRowBlank
  <2>2. u.cells[last.at] = Blank
    BY <1>1, <1>2, <2>1
  <2>3. u.cells # t.cells
    BY <1>1, <2>2
  <2> QED BY <1>3, <2>1, <2>3 DEF Apart
<1> QED BY <1>4, <1>5, <1>6, <1>7 DEF ControlMoves

LEMMA ApartMoves ==
  ASSUME NEW t \in Terms, NEW c \in Buffers, Apart(t, c),
         NEW b \in Controls, NEW u, ControlMoves(t, u, b)
  PROVE  Apart(u, c)
<1>1. c.pos \in Cells /\ c.width \in 0 .. 2
  BY DEF Buffers
<1>2. c.pos[1] \in 0 .. Rows - 1 /\ c.pos[2] \in 0 .. Cols - 1
      /\ t.row \in 0 .. Rows - 1 /\ t.col \in 0 .. Cols - 1 /\ t.cells \in Screens
  BY <1>1 DEF Cells, Terms
<1> SUFFICES ASSUME c.chars # <<>>
             PROVE  \/ \A q \in Cells : q[1] >= c.pos[1] => u.cells[q] = Blank
                    \/ u.row > c.pos[1]
                    \/ u.row = c.pos[1] /\ u.col < c.pos[2] + c.width
  BY DEF Apart
<1> DEFINE Clear(x) == \A q \in Cells : q[1] >= c.pos[1] => x[q] = Blank
<1>3. \/ Clear(t.cells) \/ t.row > c.pos[1]
      \/ t.row = c.pos[1] /\ t.col < c.pos[2] + c.width
  BY DEF Apart
<1>4. CASE b = "RIS" /\ \A q \in Cells : u.cells[q] = Blank
  BY <1>4
<1>5. CASE b = "CR" /\ u = t
  BY <1>3, <1>5
<1>6. CASE b = "CR" /\ u.cells = t.cells /\ u.row = t.row /\ u.col = 0 /\ t.col # 0
  <2>1. t.col < c.pos[2] + c.width => u.col < c.pos[2] + c.width
    BY <1>1, <1>2, <1>6
  <2> HIDE DEF Clear
  <2>2. \/ Clear(u.cells) \/ u.row > c.pos[1]
        \/ u.row = c.pos[1] /\ u.col < c.pos[2] + c.width
    BY <1>3, <1>6, <2>1
  <2> QED BY <2>2 DEF Clear
<1>7. CASE b = "LF" /\ u.cells = t.cells /\ u.row = t.row + 1
  <2> HIDE DEF Clear
  <2>1. Clear(u.cells) \/ u.row > c.pos[1]
    BY <1>2, <1>3, <1>7
  <2> QED BY <2>1 DEF Clear
<1>8. CASE b = "LF" /\ u.cells = Scrolled(t.cells) /\ u.row = t.row /\ t.row = Rows - 1
  <2>1. Clear(t.cells) => Clear(u.cells)
    BY <1>2, <1>8, ScrolledBlank
  <2>2. t.row = c.pos[1] => Clear(u.cells)
    BY <1>8, LastRowBlank
  <2> HIDE DEF Clear
  <2>3. Clear(u.cells) \/ u.row > c.pos[1]
    BY <1>3, <1>8, <2>1, <2>2
  <2> QED BY <2>3 DEF Clear
<1> QED BY <1>4, <1>5, <1>6, <1>7, <1>8 DEF ControlMoves

LEMMA ControlMatched ==
  ASSUME NEW t \in Terms, NEW c \in Buffers, NEW r \in Refs, Matched(t, c, r),
         NEW b \in Controls
  PROVE  Matched(Controlled(t, b), c, RefByte(r, b)) /\ RefByte(r, b).dec = r.dec
<1> DEFINE u == Controlled(t, b)
           q == RefByte(r, b)
           still == Pos(u) = Pos(t) /\ u.cells = t.cells
           last == IF still THEN r.last ELSE NoGlyph
<1>1. r.term = t /\ q \in Refs
  <2>1. b \in Byte
    BY DEF Byte
  <2> QED BY <2>1, RefByteType DEF Matched
<1>2. q = [dec |-> r.dec, term |-> u, last |-> last]
  <2>1. q = RefControl(r, b)
    BY DEF RefByte
  <2>2. PICK v \in Terms, l \in {r.last, NoGlyph} :
          /\ v = IF b = "RIS" THEN ResetTerm ELSE OnControl(r.term, b)
          /\ l = IF Pos(v) = Pos(r.term) /\ v.cells = r.term.cells THEN r.last ELSE NoGlyph
          /\ RefControl(r, b) = [dec |-> r.dec, term |-> v, last |-> l]
    BY RefControlIs
  <2>3. v = u /\ l = last
    BY <1>1, <2>2 DEF Controlled
  <2> QED BY <2>1, <2>2, <2>3
<1>3. ControlMoves(t, u, b)
  BY ControlIs
<1> HIDE DEF u, q
<1>4. q.dec = r.dec /\ q.term = u /\ q.last = last
  BY <1>2
<1>5. Matched(u, c, q)
  <2>1. CASE r.last = NoGlyph
    <3>1. Apart(u, c)
      BY <1>3, <2>1, ApartMoves DEF Matched
    <3>2. q.last = NoGlyph
      BY <1>4, <2>1
    <3> QED BY <1>1, <1>4, <3>1, <3>2 DEF Matched
  <2>2. CASE r.last # NoGlyph
    <3>1. Shared(t, c, r.last) /\ r.last \in [glyph : Upright, at : Cells]
      BY <2>2 DEF Matched, Refs
    <3>2. u = t \/ (Apart(u, c) /\ ~still)
      BY <1>3, <3>1, SharedMoves
    <3>3. CASE u = t
      <4>1. q.last = r.last
        BY <1>4, <3>3
      <4> QED BY <1>1, <1>4, <2>2, <3>1, <3>3, <4>1 DEF Matched
    <3>4. CASE Apart(u, c) /\ ~still
      <4>1. q.last = NoGlyph
        BY <1>4, <3>4
      <4> QED BY <1>1, <1>4, <3>4, <4>1 DEF Matched
    <3> QED BY <3>2, <3>3, <3>4
  <2> QED BY <2>1, <2>2
<1> QED BY <1>4, <1>5 DEF u, q


-----------------------------------------------------------------------------
(* The invariant: somewhere between the chunk's beginning and its end is a *)
(* state of the reference that the terminal has reached, from which the    *)
(* rest of the chunk leads to the reference.                               *)

Held(d) == (g_data = NoChar /\ utf8_data = d) \/ (utf8_data = NoChar /\ g_data = d)
SyncedAt(r) == Matched(term, combine, r) /\ Held(r.dec) /\ ref = RefRead(r, bytes)
Synced == \E r : SyncedAt(r)
Faithful ==
  /\ g_enc = "usascii" => g_data = NoChar
  /\ quirks = {} => Synced

LEMMA UnaskedIsEmpty ==
  ASSUME NEW d \in Decoders, Unasked(d) = {}
  PROVE  d = NoChar
<1>1. d.need = 0
  BY DEF Unasked, Decoders
<1>2. d.cp = <<>>
  BY <1>1 DEF Decoders
<1> QED BY <1>1, <1>2 DEF Decoders, NoChar

LEMMA InitFaithful == Init => Faithful
<1> SUFFICES ASSUME Init PROVE Faithful
  OBVIOUS
<1>1. Types
  BY InitTypes
<1>2. ref.last = NoGlyph /\ ref.term = term /\ ref.dec = NoChar /\ ref \in Refs
  BY <1>1 DEF Init, Types
<1>3. Apart(term, combine)
  BY DEF Init, Apart
<1>4. Held(ref.dec)
  BY <1>2 DEF Init, Held
<1>5. ref = RefRead(ref, bytes)
  BY <1>2, RefReadType, EmptySeq DEF Init
<1>6. SyncedAt(ref)
  BY <1>2, <1>3, <1>4, <1>5 DEF SyncedAt, Matched
<1> QED BY <1>6 DEF Synced, Faithful, Init

LEMMA HostFaithful == ASSUME Types, Faithful, Host PROVE Faithful'
BY DEF Faithful, Host, Synced, SyncedAt, Held, Matched

LEMMA PollFaithful == ASSUME Types, Faithful, console_poll PROVE Faithful'
<1>1. PICK n \in 1 .. Len(wire) : bytes' = SubSeq(wire, 1, n) /\ ref' = RefRead(ref, bytes')
  BY DEF console_poll
<1>2. g_enc' = g_enc /\ g_data' = g_data /\ utf8_data' = utf8_data /\ term' = term
      /\ combine' = combine /\ quirks' = quirks
  BY DEF console_poll
<1>3. ASSUME quirks = {} PROVE Synced'
  <2>1. PICK r : SyncedAt(r)
    BY <1>3 DEF Faithful, Synced
  <2>2. r \in Refs /\ ref = RefRead(r, <<>>)
    BY <2>1 DEF SyncedAt, Matched, console_poll, Idle
  <2>3. ref = r
    BY <2>2, RefReadType, EmptySeq
  <2>4. Matched(term, combine, r)' /\ Held(r.dec)' /\ ref' = RefRead(r, bytes')
    BY <1>1, <1>2, <2>1, <2>3 DEF SyncedAt, Held, Matched
  <2> QED BY <2>4 DEF Synced, SyncedAt
<1> QED BY <1>2, <1>3 DEF Faithful

(* A call of on_text, whichever decoder it asks.                           *)
LEMMA CallSynced ==
  ASSUME Types, NEW r, SyncedAt(r), NEW run \in Seq(Text),
         NEW d, d = decode_utf8(r.dec, run),
         bytes' \in Seq(Byte), bytes = run \o bytes', ref' = ref,
         Render(d.out), Deviations(d.out) = {}, Held(d.dec)'
  PROVE  Synced'
<1> DEFINE q == RefRead(r, run)
<1>1. r \in Refs /\ Matched(term, combine, r) /\ ref = RefRead(r, bytes)
  BY DEF SyncedAt, Matched
<1>2. run \in Seq(Byte)
  <2>1. Text \subseteq Byte
    BY DEF Text
  <2> QED BY <2>1, SeqMonotonic
<1>3. q \in Refs /\ ref' = RefRead(q, bytes')
  BY <1>1, <1>2, RefReadType, ReadOn
<1>4. Agreed(d.out, q) /\ q.dec = d.dec
  <2>1. ReadAfter(r, run)
    BY <1>1, RunAgrees DEF Types
  <2> QED BY <2>1 DEF ReadAfter
<1>5. term' = Rendered(d.out).term /\ combine' = Rendered(d.out).combine /\ Held(d.dec)'
  BY DEF Render
<1> HIDE DEF q
<1>6. Matched(term', combine', q)
  BY <1>4, <1>5 DEF Agreed
<1>7. Held(q.dec)'
  BY <1>4, <1>5
<1>8. Matched(term, combine, q)' /\ Held(q.dec)' /\ ref' = RefRead(q, bytes')
  BY <1>3, <1>6, <1>7 DEF Matched
<1> QED BY <1>8 DEF Synced, SyncedAt

LEMMA AsciiFaithful == ASSUME Types, Faithful, AsciiText PROVE Faithful'
<1>0. PICK run : run = RunOf(TRUE)
  OBVIOUS
<1> DEFINE points == LetterPoints(run)
<1>1. run \in Seq({"a"}) /\ bytes' \in Seq(Byte) /\ bytes = run \o bytes'
  BY <1>0, RunIs DEF Types, AsciiText, Letters
<1>2. Render(points) /\ quirks' = quirks \cup Unasked(utf8_data)
  BY <1>0 DEF AsciiText, LetterPoints
<1>3. g_data = NoChar /\ g_data' = NoChar /\ utf8_data' = utf8_data /\ ref' = ref
      /\ g_enc' = g_enc
  BY DEF AsciiText, Faithful
<1>4. ASSUME quirks' = {} PROVE Synced'
  <2>1. quirks = {} /\ Unasked(utf8_data) = {}
    BY <1>2, <1>4
  <2>2. utf8_data = NoChar
    BY <2>1, UnaskedIsEmpty DEF Types
  <2>3. PICK r : SyncedAt(r)
    BY <2>1 DEF Faithful, Synced
  <2>4. r.dec = NoChar
    BY <1>3, <2>2, <2>3 DEF SyncedAt, Held
  <2>5. run \in Seq(Text)
    BY <1>1, LettersType
  <2>6. decode_utf8(r.dec, run) = [dec |-> NoChar, out |-> points]
    BY <1>1, <2>4, LettersDecoded
  <2>7. Deviations(points) = {}
    BY <1>1, LettersDoNotDeviate
  <2> HIDE DEF points
  <2>8. PICK d : d = decode_utf8(r.dec, run)
    OBVIOUS
  <2>9. d.out = points /\ d.dec = NoChar
    BY <2>6, <2>8
  <2>10. Held(d.dec)'
    BY <1>3, <2>2, <2>9 DEF Held
  <2> QED BY <1>1, <1>2, <1>3, <2>3, <2>5, <2>7, <2>8, <2>9, <2>10, CallSynced
<1> QED BY <1>3, <1>4 DEF Faithful

LEMMA AsciiFirstFaithful == ASSUME Types, Faithful, AsciiFirst PROVE Faithful'
<1>0. PICK run, d : run = RunOf(FALSE) /\ d = decode_utf8(g_data, run)
  OBVIOUS
<1>1. run \in Seq(Text) /\ bytes' \in Seq(Byte) /\ bytes = run \o bytes'
  BY <1>0, RunIs DEF Types, AsciiFirst, Letters
<1>2. /\ Render(d.out) /\ g_data' = d.dec
      /\ quirks' = quirks \cup Unasked(utf8_data) \cup Deviations(d.out) \cup Overruns(d.out)
  BY <1>0 DEF AsciiFirst
<1>3. utf8_data' = utf8_data /\ ref' = ref /\ g_enc' = g_enc /\ g_enc = "utf8"
  BY DEF AsciiFirst
<1>4. ASSUME quirks' = {} PROVE Synced'
  <2>1. quirks = {} /\ Unasked(utf8_data) = {} /\ Deviations(d.out) = {}
    BY <1>2, <1>4
  <2>2. utf8_data = NoChar
    BY <2>1, UnaskedIsEmpty DEF Types
  <2>3. PICK r : SyncedAt(r)
    BY <2>1 DEF Faithful, Synced
  <2>4. r.dec = g_data
    BY <2>2, <2>3 DEF SyncedAt, Held
  <2>5. d = decode_utf8(r.dec, run)
    BY <1>0, <2>4
  <2>6. Held(d.dec)'
    BY <1>2, <1>3, <2>2 DEF Held
  <2> QED BY <1>1, <1>2, <1>3, <2>1, <2>3, <2>5, <2>6, CallSynced
<1> QED BY <1>3, <1>4 DEF Faithful

LEMMA HighFirstFaithful == ASSUME Types, Faithful, HighFirst PROVE Faithful'
<1>0. PICK run, d : run = RunOf(FALSE) /\ d = decode_utf8(utf8_data, run)
  OBVIOUS
<1>1. run \in Seq(Text) /\ bytes' \in Seq(Byte) /\ bytes = run \o bytes'
  BY <1>0, RunIs DEF Types, HighFirst, Letters
<1>2. /\ Render(d.out) /\ utf8_data' = d.dec
      /\ quirks' = quirks \cup Unasked(g_data) \cup Deviations(d.out) \cup Overruns(d.out)
  BY <1>0 DEF HighFirst
<1>3. g_data' = g_data /\ ref' = ref /\ g_enc' = g_enc
  BY DEF HighFirst
<1>4. ASSUME quirks' = {} PROVE Synced'
  <2>1. quirks = {} /\ Unasked(g_data) = {} /\ Deviations(d.out) = {}
    BY <1>2, <1>4
  <2>2. g_data = NoChar
    BY <2>1, UnaskedIsEmpty DEF Types
  <2>3. PICK r : SyncedAt(r)
    BY <2>1 DEF Faithful, Synced
  <2>4. r.dec = utf8_data
    BY <2>2, <2>3 DEF SyncedAt, Held
  <2>5. d = decode_utf8(r.dec, run)
    BY <1>0, <2>4
  <2>6. Held(d.dec)'
    BY <1>2, <1>3, <2>2 DEF Held
  <2> QED BY <1>1, <1>2, <1>3, <2>1, <2>3, <2>5, <2>6, CallSynced
<1> QED BY <1>3, <1>4 DEF Faithful

(* A control, RIS included.                                                *)
LEMMA ControlSynced ==
  ASSUME Types, NEW r, SyncedAt(r), ~Idle, NEW b \in Controls, b = bytes[1],
         term' = Controlled(term, b), combine' = combine, ref' = ref,
         bytes' = Tail(bytes), Held(r.dec)'
  PROVE  Synced'
<1> DEFINE q == RefByte(r, b)
<1>1. r \in Refs /\ Matched(term, combine, r) /\ ref = RefRead(r, bytes)
  BY DEF SyncedAt, Matched
<1>2. Matched(Controlled(term, b), combine, q) /\ q.dec = r.dec
  BY <1>1, ControlMatched DEF Types
<1>3. ref' = RefRead(q, bytes')
  BY <1>1, ReadFirst DEF Types, Idle
<1> HIDE DEF q
<1>4. Matched(term, combine, q)' /\ Held(q.dec)'
  BY <1>2 DEF Matched
<1> QED BY <1>3, <1>4 DEF Synced, SyncedAt

LEMMA ControlFaithful == ASSUME Types, Faithful, on_control PROVE Faithful'
<1>1. /\ g_enc' = g_enc /\ g_data' = g_data /\ utf8_data' = utf8_data
      /\ quirks' = quirks /\ ref' = ref /\ combine' = combine /\ bytes' = Tail(bytes)
      /\ ~Idle /\ bytes[1] \in Controls
  BY DEF on_control
<1>2. PICK b \in Controls : b = bytes[1] /\ term' = Controlled(term, b)
  BY DEF on_control, Controlled
<1>3. ASSUME quirks = {} PROVE Synced'
  <2>1. PICK r : SyncedAt(r)
    BY <1>3 DEF Faithful, Synced
  <2>2. Held(r.dec)'
    BY <1>1, <2>1 DEF SyncedAt, Held
  <2> QED BY <1>1, <1>2, <2>1, <2>2, ControlSynced
<1> QED BY <1>1, <1>3 DEF Faithful

LEMMA ResetFaithful == ASSUME Types, Faithful, vterm_state_reset PROVE Faithful'
<1>1. /\ g_enc' = "utf8" /\ g_data' = NoChar /\ utf8_data' = utf8_data
      /\ quirks' = quirks \cup Unasked(g_data)
      /\ ref' = ref /\ combine' = combine /\ bytes' = Tail(bytes)
      /\ ~Idle /\ bytes[1] \in Controls
  BY DEF vterm_state_reset, Controls
<1>2. PICK b \in Controls : b = bytes[1] /\ term' = Controlled(term, b)
  BY DEF vterm_state_reset, Controlled, Controls
<1>3. ASSUME quirks' = {} PROVE Synced'
  <2>1. quirks = {} /\ Unasked(g_data) = {}
    BY <1>1, <1>3
  <2>2. g_data = NoChar
    BY <2>1, UnaskedIsEmpty DEF Types
  <2>3. PICK r : SyncedAt(r)
    BY <2>1 DEF Faithful, Synced
  <2>4. Held(r.dec)'
    BY <1>1, <2>2, <2>3 DEF SyncedAt, Held
  <2> QED BY <1>1, <1>2, <2>3, <2>4, ControlSynced
<1> QED BY <1>1, <1>3 DEF Faithful

LEMMA StepFaithful == ASSUME Types, Faithful, [Next]_vars PROVE Faithful'
<1>1. CASE UNCHANGED vars
  BY <1>1 DEF vars, Faithful, Synced, SyncedAt, Held, Matched
<1> QED BY <1>1, HostFaithful, PollFaithful, AsciiFaithful, AsciiFirstFaithful,
           HighFirstFaithful, ControlFaithful, ResetFaithful DEF Next, on_text

LEMMA AlwaysFaithful == Spec => [](Types /\ Faithful)
<1>1. Init => Types /\ Faithful
  BY InitTypes, InitFaithful
<1>2. Types /\ Faithful /\ [Next]_vars => (Types /\ Faithful)'
  BY StepTypes, StepFaithful
<1> QED BY <1>1, <1>2, PTL DEF Spec

LEMMA BetweenChunks ==
  ASSUME Types, Faithful, Idle, quirks = {}
  PROVE  term = ref.term /\ Held(ref.dec)
<1>1. PICK r : SyncedAt(r)
  BY DEF Faithful, Synced
<1>2. r \in Refs /\ r.term = term /\ Held(r.dec) /\ ref = RefRead(r, <<>>)
  BY <1>1 DEF SyncedAt, Matched, Idle
<1>3. ref = r
  BY <1>2, RefReadType, EmptySeq
<1> QED BY <1>2, <1>3

(* Wherever the chunks are cut, within a character or between a letter and *)
(* its marks, the screen is that of the same bytes read one by one, but    *)
(* for the named deviations (on_text with its combining buffer, putglyph,  *)
(* decode_utf8).                                                           *)
THEOREM TextIsShownAsSent == Spec => []ShownAsSent
<1>1. Types /\ Faithful => ShownAsSent
  BY BetweenChunks DEF ShownAsSent
<1> QED BY <1>1, AlwaysFaithful, PTL

(* Between two chunks the unfinished character is in one of the two        *)
(* decoders, with all of its bytes that were read (encoding and            *)
(* encoding_utf8 of state.c, decode_utf8).                                 *)
THEOREM UnfinishedIsKept == Spec => []UnfinishedKept
<1>1. Types /\ Faithful => UnfinishedKept
  BY BetweenChunks DEF UnfinishedKept, Held
<1> QED BY <1>1, AlwaysFaithful, PTL
=============================================================================
