------------------------------ MODULE VTStream ------------------------------
(***************************************************************************)
(* What a terminal's input means, one byte at a time: the grammar that     *)
(* libvterm's parser tests describe (t/02parser.test), with no buffers and *)
(* no chunks.  It is the reference VParser is compared with.               *)
(*                                                                         *)
(* A byte is its class: "[", "]", "P" and "ST" (backslash) are the bytes   *)
(* that select or end a sequence, "inter" is 0x20-0x2f, "param" 0x30-0x3f, *)
(* "final" 0x60-0x7e, "high" 0x80-0xff, "CAN" CAN and SUB, "C0" a control  *)
(* other than BEL, CAN, ESC, NUL and SUB.  The rest of 0x40-0x5f, C1       *)
(* controls in seven bits, behaves like "ST" outside of a string.          *)
(***************************************************************************)
EXTENDS Naturals, Sequences, SequencesExt

ByteClass ==
  {"NUL", "DEL", "CAN", "ESC", "BEL", "C0", "inter", "param", "final",
   "[", "]", "P", "ST", "high"}

ParserState == {"NORMAL", "CSI", "OSC", "DCS", "ESC", "ESC_IN_OSC", "ESC_IN_DCS"}

(* An event: the callback the parser makes and the bytes it hands over.    *)
Event(kind, data) == [kind |-> kind, data |-> data]

Enter(s, st) == [s EXCEPT !.state = st, !.str = <<>>]
Emit(s, kind, data) == [Enter(s, "NORMAL") EXCEPT !.out = Append(@, Event(kind, data))]
Collect(s, c) == [s EXCEPT !.str = Append(@, c)]

Intro(c) == CASE c = "P" -> "DCS" [] c = "[" -> "CSI" [] c = "]" -> "OSC"

InEscape(s, c) ==
  IF c \in {"P", "[", "]"} THEN Enter(s, Intro(c))
  ELSE IF c \in {"inter", "high"} THEN Collect(s, c)
  ELSE IF s.str = <<>> /\ c = "ST" THEN Emit(s, "control", <<"ST">>)
  ELSE Emit(s, "escape", Append(s.str, c))

Introducer == {"[", "]", "P"}
CSIFinal == Introducer \cup {"ST", "final"}
StringKind(st) == IF st \in {"OSC", "ESC_IN_OSC"} THEN "osc" ELSE "dcs"

(* BEL, or ESC and a backslash, ends an OSC or DCS string.                 *)
EndsString(s, c) ==
  \/ c = "BEL" /\ s.state \in {"OSC", "DCS"}
  \/ c = "ST" /\ s.state \in {"ESC_IN_OSC", "ESC_IN_DCS"}

(* Any other printing byte, by the state it meets.                         *)
InState(s, c) ==
  CASE s.state = "NORMAL" -> [s EXCEPT !.out = Append(@, Event("text", <<c>>))]
    [] s.state = "ESC" -> InEscape(s, c)
    [] s.state \in {"ESC_IN_OSC", "ESC_IN_DCS"} -> InEscape(Enter(s, "ESC"), c)
    [] s.state = "CSI" /\ c \in CSIFinal -> Emit(s, "csi", Append(s.str, c))
    [] s.state = "CSI" /\ c \notin CSIFinal -> Collect(s, c)
    [] s.state \in {"OSC", "DCS"} -> Collect(s, c)

AtEscape(s) ==
  CASE s.state = "OSC" -> [s EXCEPT !.state = "ESC_IN_OSC"]
    [] s.state = "DCS" -> [s EXCEPT !.state = "ESC_IN_DCS"]
    [] OTHER -> Enter(s, "ESC")

Step(s, c) ==
  IF c \in {"NUL", "DEL"} THEN s
  ELSE IF c = "CAN" THEN Enter(s, "NORMAL")
  ELSE IF c = "ESC" THEN AtEscape(s)
  ELSE IF EndsString(s, c) THEN Emit(s, StringKind(s.state), s.str)
  ELSE IF c \in {"C0", "BEL"} THEN [s EXCEPT !.out = Append(@, Event("control", <<c>>))]
  ELSE InState(s, c)

Start == [state |-> "NORMAL", str |-> <<>>, out |-> <<>>]

(* The meaning of a run of bytes that arrives in state s. *)
Stream(s, bytes) ==
  LET read[n \in 0 .. Len(bytes)] ==
        IF n = 0 THEN s ELSE Step(read[n - 1], bytes[n])
  IN  read[Len(bytes)]
=============================================================================
