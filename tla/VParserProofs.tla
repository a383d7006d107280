--------------------------- MODULE VParserProofs ---------------------------
(***************************************************************************)
(* The parser, for every host, every cutting of its stream into chunks and *)
(* every size of strbuffer: strbuffer is never overfull, what is copied    *)
(* into it, or handed to a callback, are bytes of the chunk, the loop over *)
(* a chunk runs out of turns, and where the chunks are cut makes no        *)
(* difference.                                                             *)
(*                                                                         *)
(* The type invariant needs beside itself that the callbacks made are a    *)
(* sequence of calls (Inv).  That the cuts do not matter follows from what *)
(* holds at each byte (Faithful): what is held of the open sequence, with  *)
(* the rest of the chunk read byte by byte from there, gives what the      *)
(* stream without chunks means.                                            *)
(***************************************************************************)
EXTENDS VParser, Foundations

Kind == {"text", "control", "escape", "csi", "osc", "dcs"}
Call == [kind : Kind, data : Seq(ByteClass \cup {Junk})]
Deviation == {"full", "cancel", "st", "del"}

Input ==
  /\ host \in Hosts
  /\ bytes \in Seq(host.bytes) /\ Len(bytes) <= MaxChunk
  /\ pos \in Nat \ {0}
  /\ received \in 0 .. host.length

Buffered == strbuffer \in Seq(ByteClass) /\ Len(strbuffer) <= StrbufferLen

(* A sequence that is open begins at or before the byte being looked at.   *)
Started ==
  IF Idle \/ parser_state = "NORMAL" THEN string_start = 0
  ELSE string_start \in 1 .. pos

Progress ==
  /\ parser_state \in ParserState
  /\ Buffered /\ Started
  /\ out \in Seq(Call)
  /\ quirks \subseteq Deviation

Inv == Input /\ Progress

-----------------------------------------------------------------------------
(* The buffer and the chunk.                                               *)

(* append_strbuffer keeps to the buffer's size.                            *)
LEMMA CappedFits ==
  ASSUME NEW S, NEW s \in Seq(S)
  PROVE  Capped(s) \in Seq(S) /\ Len(Capped(s)) <= StrbufferLen
<1>1. CASE Len(s) > StrbufferLen
  <2>1. \A i \in 1 .. StrbufferLen : s[i] \in S
    BY <1>1, ParserAssumption
  <2>2. /\ SubSeq(s, 1, StrbufferLen) \in Seq(S)
        /\ Len(SubSeq(s, 1, StrbufferLen)) = StrbufferLen
    BY <2>1, SubSeqProperties, ParserAssumption
  <2> QED BY <1>1, <2>2, ParserAssumption DEF Capped
<1>2. CASE ~(Len(s) > StrbufferLen)
  BY <1>2, ParserAssumption, LenProperties DEF Capped
<1> QED BY <1>1, <1>2

LEMMA AppendedFits ==
  ASSUME NEW S, ByteClass \subseteq S, Buffered, NEW s \in Seq(S)
  PROVE  /\ Appended(s) \in Seq(S) /\ Len(Appended(s)) <= StrbufferLen
         /\ StringOf(s) \in Seq(S)
<1>1. strbuffer \in Seq(S)
  BY SeqMonotonic DEF Buffered
<1>2. strbuffer \o s \in Seq(S)
  BY <1>1, ConcatProperties
<1>3. Appended(s) \in Seq(S) /\ Len(Appended(s)) <= StrbufferLen
  BY <1>2, CappedFits DEF Appended
<1> QED BY <1>3 DEF StringOf

(* The chunk, and what is cut out of it, are byte classes.                 *)
LEMMA ChunkBytes ==
  ASSUME Input
  PROVE  bytes \in Seq(ByteClass)
<1>1. host.bytes \subseteq ByteClass
  BY ParserAssumption DEF Input
<1> QED BY <1>1, SeqMonotonic DEF Input

LEMMA TurnByte ==
  ASSUME Input, Turn
  PROVE  c \in ByteClass /\ ~Idle
<1>1. Len(bytes) >= 1 /\ pos \in 1 .. Len(bytes)
  BY LenProperties DEF Input, Turn
<1>2. c \in ByteClass
  BY <1>1, ChunkBytes, ElementOfSeq DEF c
<1> QED BY <1>1, <1>2, EmptySeq DEF Idle

LEMMA FragBytes ==
  ASSUME Input, string_start \in Nat \ {0}, NEW n \in Int, n <= Len(bytes)
  PROVE  Frag(n) \in Seq(ByteClass)
BY ChunkBytes, PartOf DEF Frag
-----------------------------------------------------------------------------
(* The callbacks.                                                          *)

LEMMA CallMade ==
  ASSUME out \in Seq(Call), NEW kind \in Kind, NEW data \in Seq(ByteClass \cup {Junk})
  PROVE  Append(out, Event(kind, data)) \in Seq(Call)
<1>1. Event(kind, data) \in Call
  BY DEF Event, Call
<1> QED BY <1>1, AppendProperties

LEMMA Delivered ==
  ASSUME Progress, NEW kind \in Kind, NEW frag \in Seq(ByteClass \cup {Junk}),
         NEW dev \in SUBSET Deviation, Deliver(kind, frag, dev)
  PROVE  Progress'
<1>1. StringOf(frag) \in Seq(ByteClass \cup {Junk})
  BY AppendedFits DEF Progress
<1>2. out' \in Seq(Call)
  BY <1>1, CallMade DEF Progress, Deliver
<1>3. quirks' \subseteq Deviation
  BY DEF Progress, Deliver, TooLong, Overfull, Deviation
<1>4. strbuffer' = <<>> /\ parser_state' = "NORMAL" /\ string_start' = 0
  BY DEF Deliver
<1>5. Buffered'
  BY <1>4, EmptySeq, ParserAssumption DEF Buffered
<1>6. Started' /\ parser_state' \in ParserState
  BY <1>4 DEF Started, ParserState
<1> QED BY <1>2, <1>3, <1>5, <1>6 DEF Progress

(* A byte is consumed.                                                     *)
LEMMA Advanced ==
  ASSUME Input, Advance, UNCHANGED host
  PROVE  Input' /\ pos' = pos + 1 /\ bytes' = bytes
BY DEF Input, Advance

LEMMA SplitKeeps ==
  ASSUME Input, Progress, Turn, Split, Advance, UNCHANGED parser_state
  PROVE  Buffered' /\ Started' /\ quirks' \subseteq Deviation
<1>1. ~Idle /\ ~Idle'
  BY TurnByte DEF Advance, Idle
<1>2. CASE parser_state = "NORMAL"
  BY <1>1, <1>2 DEF Split, Progress, Buffered, Started
<1>3. CASE parser_state # "NORMAL"
  <2>1. string_start \in 1 .. pos
    BY <1>1, <1>3 DEF Progress, Started
  <2>2. pos - 1 \in Int /\ pos - 1 <= Len(bytes)
    BY LenProperties DEF Input, Turn
  <2>3. Frag(pos - 1) \in Seq(ByteClass)
    BY <2>1, <2>2, FragBytes DEF Input
  <2>4. Buffered'
    BY <1>3, <2>3, AppendedFits DEF Split, Progress, Buffered
  <2>5. Started'
    BY <1>1, <1>3 DEF Split, Advance, Started, Input
  <2>6. quirks' \subseteq Deviation
    BY <1>3 DEF Split, Overfull, Progress, Deviation
  <2> QED BY <2>4, <2>5, <2>6
<1> QED BY <1>2, <1>3

-----------------------------------------------------------------------------
(* The initial state, and the turns of the loop.                           *)

LEMMA InitInv == Init => Inv
<1> SUFFICES ASSUME Init PROVE Inv
  OBVIOUS
<1>1. Input
  BY ParserAssumption, EmptySeq DEF Init, Input
<1>2. Progress
  BY ParserAssumption, EmptySeq DEF Init, Progress, Buffered, Started, ParserState, Deviation
<1> QED BY <1>1, <1>2 DEF Inv

LEMMA PushStep ==
  ASSUME Inv, NEW n \in 1 .. MaxChunk, received + n <= host.length,
         NEW chunk \in [1 .. n -> host.bytes], vterm_push_bytes(chunk)
  PROVE  Inv'
<1>1. chunk \in Seq(host.bytes) /\ Len(chunk) = n
  BY ParserAssumption
<1>2. Input'
  BY <1>1, ParserAssumption DEF Inv, Input, vterm_push_bytes
<1>3. ~Idle'
  BY <1>1, EmptySeq DEF vterm_push_bytes, Idle
<1>4. Started'
  BY <1>3 DEF Started, vterm_push_bytes
<1>5. out' \in Seq(Call)
  BY EmptySeq DEF Inv, Progress, vterm_push_bytes
<1> QED BY <1>2, <1>4, <1>5 DEF Inv, Progress, Buffered, vterm_push_bytes

LEMMA IgnoredStep == ASSUME Inv, Ignored, UNCHANGED host PROVE Inv'
<1>1. Input'
  BY Advanced DEF Inv, Ignored
<1>2. Buffered' /\ Started' /\ quirks' \subseteq Deviation
  BY SplitKeeps DEF Inv, Ignored
<1> QED BY <1>1, <1>2 DEF Inv, Ignored, Progress

LEMMA CancelStep == ASSUME Inv, Cancel, UNCHANGED host PROVE Inv'
<1>1. Input'
  BY Advanced DEF Inv, Cancel
<1>2. Progress'
  BY DEF Inv, Cancel, Progress, Buffered, Started, Dropped, Deviation, ParserState
<1> QED BY <1>1, <1>2 DEF Inv

LEMMA EscapeStep == ASSUME Inv, Escape, UNCHANGED host PROVE Inv'
<1>1. Input' /\ pos' = pos + 1 /\ bytes' = bytes
  BY Advanced DEF Inv, Escape
<1>2. ~Idle /\ pos \in Nat
  BY TurnByte DEF Inv, Escape, Input
<1>3. Started'
  <2>1. CASE parser_state \in {"OSC", "DCS"}
    BY <1>1, <1>2, <2>1 DEF Inv, Progress, Started, Escape, Idle
  <2>2. CASE parser_state \notin {"OSC", "DCS"}
    BY <1>1, <1>2, <2>2 DEF Started, Escape, Idle
  <2> QED BY <2>1, <2>2
<1>4. quirks' \subseteq Deviation /\ parser_state' \in ParserState
  BY DEF Inv, Progress, Escape, Dropped, Deviation, ParserState
<1> QED BY <1>1, <1>3, <1>4 DEF Inv, Progress, Buffered, Escape

LEMMA ControlStep == ASSUME Inv, Control, UNCHANGED host PROVE Inv'
<1>1. Input'
  BY Advanced DEF Inv, Control
<1>2. Buffered' /\ Started' /\ quirks' \subseteq Deviation
  BY SplitKeeps DEF Inv, Control
<1>3. <<c>> \in Seq(ByteClass \cup {Junk})
  BY TurnByte DEF Inv, Control
<1>4. out' \in Seq(Call)
  BY <1>3, CallMade DEF Inv, Progress, Control, Kind
<1> QED BY <1>1, <1>2, <1>4 DEF Inv, Progress, Control

(* The bytes append_strbuffer copies for a length of -1: those of the      *)
(* chunk, and what lies behind it.                                         *)
LEMMA TerminatorStep == ASSUME Inv, StringTerminator, UNCHANGED host PROVE Inv'
<1>1. Input' /\ Input /\ Progress
  BY Advanced DEF Inv, StringTerminator
<1>2. string_start \in 1 .. pos /\ pos \in 1 .. Len(bytes) /\ Len(bytes) \in Nat
  BY <1>1, TurnByte, LenProperties DEF StringTerminator, Progress, Started, Input, Turn
<1> DEFINE B == ByteClass \cup {Junk}
           nuls == {i \in string_start .. Len(bytes) : bytes[i] = "NUL"}
           first == CHOOSE i \in nuls : \A j \in nuls : i <= j
           rest == IF nuls = {} THEN Append(Frag(Len(bytes)), Junk)
                   ELSE Append(Frag(first - 1), Junk)
<1>3. rest \in Seq(B)
  <2>1. \A n \in Int : n <= Len(bytes) => Append(Frag(n), Junk) \in Seq(B)
    <3>1. \A n \in Int : n <= Len(bytes) => Frag(n) \in Seq(B)
      BY <1>1, <1>2, FragBytes, SeqMonotonic
    <3> QED BY <3>1, AppendProperties
  <2>2. nuls # {} => first \in nuls
    <3>1. nuls \in SUBSET Nat
      BY <1>2
    <3> HIDE DEF nuls
    <3> QED BY <3>1, FirstOf
  <2>3. nuls \subseteq string_start .. Len(bytes)
    OBVIOUS
  <2> HIDE DEF nuls, first
  <2>4. CASE nuls = {}
    BY <1>2, <2>1, <2>4
  <2>5. CASE nuls # {}
    <3>1. first \in string_start .. Len(bytes)
      BY <2>2, <2>3, <2>5, Zenon
    <3>2. first - 1 \in Int /\ first - 1 <= Len(bytes)
      BY <1>2, <3>1
    <3> QED BY <2>1, <2>5, <3>2
  <2> QED BY <2>4, <2>5
<1>4. Frag(StringEnd) \in Seq(B)
  BY <1>1, <1>2, FragBytes, SeqMonotonic DEF StringEnd
<1>5. StringKind(parser_state) \in Kind
  BY DEF StringKind, Kind
<1>6. \/ Deliver(StringKind(parser_state), Frag(StringEnd), {})
      \/ Deliver(StringKind(parser_state), rest, {"st"})
  BY DEF StringTerminator
<1> HIDE DEF rest
<1>7. Progress'
  BY <1>1, <1>3, <1>4, <1>5, <1>6, Delivered DEF Deviation
<1> QED BY <1>1, <1>7 DEF Inv

LEMMA EscapeByteStep == ASSUME Inv, EscapeByte, UNCHANGED host PROVE Inv'
<1>1. Input' /\ pos' = pos + 1 /\ bytes' = bytes /\ Input /\ Progress
  BY Advanced DEF Inv, EscapeByte
<1>2. ~Idle /\ ~Idle' /\ pos \in Nat \ {0} /\ pos <= Len(bytes)
  BY <1>1, TurnByte DEF Inv, EscapeByte, Input, Turn, Idle
<1> DEFINE given_up == parser_state # "ESC"
           start == IF given_up THEN pos ELSE string_start
           drop == IF given_up THEN Dropped ELSE {}
           frag == SubSeq(bytes, start, pos)
           kind == IF StringOf(frag) = <<"ST">> THEN "control" ELSE "escape"
<1>3. start \in 1 .. pos
  BY <1>1, <1>2 DEF Progress, Started, EscapeByte
<1>4. drop \in SUBSET Deviation /\ Dropped \in SUBSET Deviation
  BY DEF Dropped, Deviation
<1>5. frag \in Seq(ByteClass \cup {Junk}) /\ kind \in Kind
  <2>1. frag \in Seq(ByteClass)
    <3> HIDE DEF start
    <3> QED BY <1>1, <1>2, <1>3, ChunkBytes, PartOf
  <2>2. kind \in Kind
    BY DEF Kind
  <2> HIDE DEF frag, kind
  <2> QED BY <2>1, <2>2, SeqMonotonic
<1>6. \/ /\ c \in Introducer
         /\ parser_state' = Intro(c)
         /\ string_start' = pos + 1
         /\ quirks' = quirks \cup (IF given_up THEN drop ELSE Dropped)
         /\ UNCHANGED <<strbuffer, out>>
      \/ Deliver(kind, frag, drop)
      \/ /\ parser_state' = "ESC"
         /\ string_start' = start
         /\ quirks' = quirks \cup drop
         /\ UNCHANGED <<strbuffer, out>>
  BY DEF EscapeByte
<1> HIDE DEF given_up, start, drop, frag, kind
<1>7. CASE Deliver(kind, frag, drop)
  BY <1>1, <1>4, <1>5, <1>7, Delivered DEF Inv
<1>8. CASE /\ c \in Introducer
           /\ parser_state' = Intro(c)
           /\ string_start' = pos + 1
           /\ quirks' = quirks \cup (IF given_up THEN drop ELSE Dropped)
           /\ UNCHANGED <<strbuffer, out>>
  <2>1. parser_state' \in ParserState
    BY <1>8 DEF Introducer, Intro, ParserState
  <2>2. Started'
    BY <1>1, <1>2, <1>8 DEF Started, Introducer, Intro
  <2> QED BY <1>1, <1>4, <1>8, <2>1, <2>2 DEF Inv, Progress, Buffered
<1>9. CASE /\ parser_state' = "ESC"
           /\ string_start' = start
           /\ quirks' = quirks \cup drop
           /\ UNCHANGED <<strbuffer, out>>
  <2>1. Started'
    BY <1>1, <1>2, <1>3, <1>9 DEF Started
  <2> QED BY <1>1, <1>4, <1>9, <2>1 DEF Inv, Progress, Buffered, ParserState
<1> QED BY <1>6, <1>7, <1>8, <1>9

(* A byte that stays part of the open sequence, or ends it.                *)
LEMMA CollectStep == ASSUME Inv, CSIByte \/ StringByte, UNCHANGED host PROVE Inv'
<1>1. Input' /\ pos' = pos + 1 /\ bytes' = bytes /\ Input /\ Progress
  BY Advanced DEF Inv, CSIByte, StringByte
<1>2. ~Idle /\ ~Idle' /\ pos \in 1 .. Len(bytes) /\ Len(bytes) \in Nat
  BY <1>1, TurnByte, LenProperties DEF CSIByte, StringByte, Input, Turn, Idle
<1>3. string_start \in 1 .. pos /\ parser_state # "NORMAL"
  BY <1>1, <1>2 DEF Progress, Started, CSIByte, StringByte
<1>4. \/ Deliver("csi", Frag(pos), {})
      \/ Deliver(StringKind(parser_state), Frag(pos - 1), {})
      \/ UNCHANGED <<parser_state, strbuffer, string_start, out, quirks>>
  BY DEF CSIByte, StringByte
<1>5. /\ Frag(pos) \in Seq(ByteClass \cup {Junk})
      /\ Frag(pos - 1) \in Seq(ByteClass \cup {Junk})
  <2>1. /\ pos \in Int /\ pos - 1 \in Int /\ string_start \in Nat \ {0}
        /\ pos <= Len(bytes) /\ pos - 1 <= Len(bytes)
    BY <1>2, <1>3
  <2>2. Frag(pos) \in Seq(ByteClass) /\ Frag(pos - 1) \in Seq(ByteClass)
    BY <1>1, <2>1, FragBytes
  <2> QED BY <2>2, SeqMonotonic
<1>6. "csi" \in Kind /\ StringKind(parser_state) \in Kind
  BY DEF Kind, StringKind
<1>7. CASE UNCHANGED <<parser_state, strbuffer, string_start, out, quirks>>
  <2>1. Started'
    BY <1>1, <1>2, <1>3, <1>7 DEF Started
  <2> QED BY <1>1, <1>7, <2>1 DEF Inv, Progress, Buffered
<1>8. {} \in SUBSET Deviation
  OBVIOUS
<1>9. CASE Deliver("csi", Frag(pos), {})
  BY <1>1, <1>5, <1>6, <1>8, <1>9, Delivered DEF Inv
<1>10. CASE Deliver(StringKind(parser_state), Frag(pos - 1), {})
  BY <1>1, <1>5, <1>6, <1>8, <1>10, Delivered DEF Inv
<1> QED BY <1>4, <1>7, <1>9, <1>10

(* What on_text eats is part of the text it is given.                      *)
Stops == {i \in 1 .. Len(Text) : StopsText(Text, i)}
FirstStop == CHOOSE i \in Stops : \A j \in Stops : i <= j
Eaten == IF Stops = {} THEN Len(Text) ELSE FirstStop - 1

LEMMA EatenFits ==
  ASSUME Inv, Turn
  PROVE  /\ pos \in 1 .. Len(bytes) /\ Len(bytes) \in Nat /\ ~Idle
         /\ SubSeq(bytes, pos, Len(bytes)) \in Seq(ByteClass)
         /\ Text \in Seq(ByteClass)
         /\ Eaten \in 0 .. Len(Text) /\ Len(Text) \in Nat
<1>1. Input /\ Progress /\ pos \in 1 .. Len(bytes) /\ Len(bytes) \in Nat /\ ~Idle
  BY TurnByte, LenProperties DEF Inv, Input, Turn
<1>2. SubSeq(bytes, pos, Len(bytes)) \in Seq(ByteClass)
  BY <1>1, ChunkBytes, PartOf
<1>3. Text \in Seq(ByteClass)
  BY <1>1, <1>2, AppendedFits DEF Text, Progress
<1>4. Len(Text) \in Nat
  BY <1>3, LenProperties
<1>5. Stops \subseteq 1 .. Len(Text) /\ Stops \in SUBSET Nat
  BY DEF Stops
<1>6. Stops # {} => FirstStop \in Stops
  BY <1>5, FirstOf DEF FirstStop
<1>7. CASE Stops = {}
  <2>1. Eaten = Len(Text)
    BY <1>7 DEF Eaten
  <2> QED BY <1>1, <1>2, <1>3, <1>4, <2>1
<1>8. CASE Stops # {}
  <2>1. FirstStop \in 1 .. Len(Text)
    BY <1>5, <1>6, <1>8, Zenon
  <2>2. Eaten = FirstStop - 1
    BY <1>8 DEF Eaten
  <2> QED BY <1>1, <1>2, <1>3, <1>4, <2>1, <2>2
<1> QED BY <1>7, <1>8

(* The chunk's bytes are eaten, or none is and the rest is kept.           *)
LEMMA TextEats ==
  ASSUME TextRun
  PROVE  /\ Turn
         /\ out' = out \o [i \in 1 .. Eaten |-> Event("text", <<Text[i]>>)]
         /\ quirks' = quirks \cup TooLong(SubSeq(bytes, pos, Len(bytes)))
                \cup (IF \E i \in 1 .. Eaten : Text[i] = "DEL" THEN {"del"} ELSE {})
         /\ IF Eaten > 0
            THEN strbuffer' = <<>> /\ pos' = pos + Eaten /\ UNCHANGED bytes
            ELSE KeepRest
BY DEF TextRun, Stops, FirstStop, Eaten

(* on_text makes a call for each byte it eats.                             *)
LEMMA TextStep == ASSUME Inv, TextRun, UNCHANGED host PROVE Inv'
<1>1. Input /\ Progress /\ pos \in 1 .. Len(bytes) /\ Len(bytes) \in Nat /\ ~Idle
  BY EatenFits, TextEats DEF Inv
<1>2. SubSeq(bytes, pos, Len(bytes)) \in Seq(ByteClass)
  BY EatenFits, TextEats
<1>3. Text \in Seq(ByteClass)
  BY EatenFits, TextEats
<1>4. Eaten \in 0 .. Len(Text) /\ Len(Text) \in Nat
  BY EatenFits, TextEats
<1>5. /\ out' = out \o [i \in 1 .. Eaten |-> Event("text", <<Text[i]>>)]
      /\ quirks' = quirks \cup TooLong(SubSeq(bytes, pos, Len(bytes)))
             \cup (IF \E i \in 1 .. Eaten : Text[i] = "DEL" THEN {"del"} ELSE {})
      /\ IF Eaten > 0
         THEN strbuffer' = <<>> /\ pos' = pos + Eaten /\ UNCHANGED bytes
         ELSE KeepRest
  BY TextEats
<1>6. out' \in Seq(Call)
  <2>1. \A i \in 1 .. Eaten : Event("text", <<Text[i]>>) \in Call
    <3>1. \A i \in 1 .. Eaten : <<Text[i]>> \in Seq(ByteClass \cup {Junk})
      BY <1>3, <1>4
    <3> QED BY <3>1 DEF Event, Call, Kind
  <2>2. [i \in 1 .. Eaten |-> Event("text", <<Text[i]>>)] \in Seq(Call)
    <3> DEFINE calls == [i \in 1 .. Eaten |-> Event("text", <<Text[i]>>)]
    <3>1. calls \in [1 .. Eaten -> Call]
      BY <2>1
    <3> HIDE DEF calls
    <3>2. calls \in Seq(Call)
      BY <1>4, <3>1, SeqDef
    <3> QED BY <3>2 DEF calls
  <2> QED BY <1>1, <1>5, <2>2, ConcatProperties DEF Progress
<1>7. quirks' \subseteq Deviation
  BY <1>1, <1>5 DEF Progress, TooLong, Overfull, Deviation
<1>8. Input' /\ Buffered'
  <2>1. CASE Eaten > 0
    <3>1. strbuffer' = <<>> /\ pos' = pos + Eaten /\ bytes' = bytes /\ received' = received
      BY <1>5, <2>1 DEF TextRun
    <3> QED BY <1>1, <1>4, <3>1, EmptySeq, ParserAssumption DEF Input, Buffered
  <2>2. CASE ~(Eaten > 0)
    <3>1. /\ strbuffer' = Capped(SubSeq(bytes, pos, Len(bytes)))
          /\ bytes' = <<>> /\ pos' = 1 /\ received' = received
      BY <1>5, <2>2 DEF TextRun, KeepRest
    <3>2. Buffered'
      BY <1>2, <3>1, CappedFits DEF Buffered
    <3>3. Input'
      BY <1>1, <3>1, EmptySeq, ParserAssumption DEF Input
    <3> QED BY <3>2, <3>3
  <2> QED BY <2>1, <2>2
<1>9. parser_state' = "NORMAL" /\ Started'
  BY <1>1 DEF TextRun, Progress, Started
<1> QED BY <1>6, <1>7, <1>8, <1>9 DEF Inv, Progress, ParserState

LEMMA PauseStep == ASSUME Inv, Pause, UNCHANGED host PROVE Inv'
<1>1. Input'
  BY EmptySeq, ParserAssumption DEF Inv, Input, Pause
<1>2. Buffered' /\ quirks' \subseteq Deviation
  <2>1. CASE ~OpenAtEnd
    BY <2>1 DEF Inv, Progress, Buffered, Pause
  <2>2. CASE OpenAtEnd
    <3>1. string_start \in Nat \ {0} /\ Len(bytes) \in Int
      BY <2>2, LenProperties DEF Inv, Input, Progress, Started, OpenAtEnd
    <3>2. Frag(Len(bytes)) \in Seq(ByteClass)
      BY <3>1, FragBytes DEF Inv
    <3> QED BY <2>2, <3>2, AppendedFits DEF Inv, Progress, Buffered, Pause, Overfull, Deviation
  <2> QED BY <2>1, <2>2
<1>3. Started'
  BY DEF Pause, Started, Idle
<1> QED BY <1>1, <1>2, <1>3 DEF Inv, Progress, Pause

LEMMA StepInv == ASSUME Inv, [Next]_vars PROVE Inv'
<1>1. CASE UNCHANGED vars
  BY <1>1 DEF Inv, Input, Progress, Buffered, Started, Idle, vars
<1>2. CASE Loop
  BY <1>2, IgnoredStep, CancelStep, EscapeStep, ControlStep, TerminatorStep, EscapeByteStep,
     CollectStep, TextStep, PauseStep DEF Loop
<1> QED BY <1>1, <1>2, PushStep DEF Next

-----------------------------------------------------------------------------
(* The parser never overfills strbuffer, and an open sequence begins in    *)
(* the chunk, whatever the host sends and however it is cut                *)
(* (append_strbuffer, vterm_push_bytes).                                   *)
THEOREM ParserTypes == Spec => []TypeOK
<1>1. Inv => TypeOK
  <2> SUFFICES ASSUME Inv PROVE TypeOK
    OBVIOUS
  <2>1. Range(strbuffer) \subseteq ByteClass /\ Len(strbuffer) <= StrbufferLen
    BY LenProperties DEF Inv, Progress, Buffered, Range
  <2>2. Range(bytes) \subseteq host.bytes
    BY LenProperties DEF Inv, Input, Range
  <2>3. \A i \in 1 .. Len(out) : out[i].kind \in Kind
    <3>1. \A i \in 1 .. Len(out) : out[i] \in Call
      BY ElementOfSeq DEF Inv, Progress
    <3> QED BY <3>1 DEF Call
  <2> QED BY <2>1, <2>2, <2>3 DEF Inv, Input, Progress, Started, TypeOK, Kind, Deviation
<1> QED BY <1>1, InitInv, StepInv, PTL DEF Spec

-----------------------------------------------------------------------------
(* A call of vterm_push_bytes returns.  The turns its loop may still take: *)
(* one for each byte of the chunk that is left, and the pause at its end.  *)
TurnsLeft == IF Idle THEN 0 ELSE IF Turn THEN Len(bytes) - pos + 2 ELSE 1

LEMMA TurnsCounted ==
  ASSUME Inv
  PROVE  /\ TurnsLeft \in 0 .. MaxChunk + 1
         /\ TurnsLeft = 0 <=> Idle
         /\ Turn => TurnsLeft = Len(bytes) - pos + 2 /\ TurnsLeft >= 2
         /\ Len(bytes) \in Nat /\ pos \in Nat
<1>1. Len(bytes) \in Nat /\ Len(bytes) <= MaxChunk /\ pos \in Nat \ {0} /\ MaxChunk \in Nat \ {0}
  BY LenProperties, ParserAssumption DEF Inv, Input
<1>2. CASE Idle
  <2>1. TurnsLeft = 0 /\ ~Turn
    BY <1>2, TurnByte DEF TurnsLeft, Inv
  <2> QED BY <1>1, <1>2, <2>1
<1>3. CASE ~Idle /\ Turn
  <2>1. TurnsLeft = Len(bytes) - pos + 2 /\ pos <= Len(bytes)
    BY <1>3 DEF TurnsLeft, Turn
  <2> QED BY <1>1, <1>3, <2>1
<1>4. CASE ~Idle /\ ~Turn
  <2>1. TurnsLeft = 1
    BY <1>4 DEF TurnsLeft
  <2> QED BY <1>1, <1>4, <2>1
<1> QED BY <1>2, <1>3, <1>4

(* A turn that goes on in the chunk leaves fewer.                          *)
LEMMA TurnOver ==
  ASSUME Inv, Turn, bytes' = bytes, pos' \in Nat, pos' > pos
  PROVE  TurnsLeft' < TurnsLeft
<1>1. /\ TurnsLeft = Len(bytes) - pos + 2 /\ TurnsLeft >= 2
      /\ Len(bytes) \in Nat /\ pos \in Nat
  BY TurnsCounted
<1>2. TurnsLeft' \in {0, 1, Len(bytes) - pos' + 2}
  BY DEF TurnsLeft
<1> QED BY <1>1, <1>2

LEMMA TurnEnds ==
  ASSUME Inv, ~Idle, bytes' = <<>>
  PROVE  TurnsLeft' < TurnsLeft
<1>1. TurnsLeft' = 0
  BY DEF TurnsLeft, Idle
<1>2. TurnsLeft \in Nat /\ TurnsLeft # 0
  BY TurnsCounted, ParserAssumption
<1> QED BY <1>1, <1>2

LEMMA LoopTurns == ASSUME Inv, Loop PROVE TurnsLeft' < TurnsLeft
<1>1. CASE \/ Ignored \/ Cancel \/ Escape \/ Control \/ StringTerminator
           \/ EscapeByte \/ CSIByte \/ StringByte
  <2>1. Turn /\ pos' = pos + 1 /\ bytes' = bytes
    BY <1>1 DEF Ignored, Cancel, Escape, Control, StringTerminator, EscapeByte, CSIByte,
                StringByte, Advance
  <2> QED BY <2>1, TurnOver DEF Inv, Input
<1>2. CASE TextRun
  <2>1. Turn /\ ~Idle /\ Eaten \in Nat
    BY <1>2, TextEats, EatenFits
  <2>2. CASE Eaten > 0
    <3>1. pos' = pos + Eaten /\ bytes' = bytes
      BY <1>2, <2>2, TextEats
    <3> QED BY <2>1, <2>2, <3>1, TurnOver DEF Inv, Input
  <2>3. CASE ~(Eaten > 0)
    <3>1. bytes' = <<>>
      BY <1>2, <2>3, TextEats DEF KeepRest
    <3> QED BY <2>1, <3>1, TurnEnds
  <2> QED BY <2>2, <2>3
<1>3. CASE Pause
  BY <1>3, TurnEnds DEF Pause
<1> QED BY <1>1, <1>2, <1>3 DEF Loop

(* The loop of vterm_push_bytes has at most a turn for each byte of the    *)
(* chunk and one more, every turn leaves fewer of them, and only the       *)
(* return leaves none: no byte, and nothing that strbuffer still holds of  *)
(* an abandoned sequence, makes it run in place.                           *)
THEOREM TurnsRunOut ==
  Spec => /\ [](TurnsLeft \in 0 .. MaxChunk + 1 /\ (TurnsLeft = 0 <=> Idle))
          /\ [][Loop => TurnsLeft' < TurnsLeft]_vars
<1>1. Inv => TurnsLeft \in 0 .. MaxChunk + 1 /\ (TurnsLeft = 0 <=> Idle)
  BY TurnsCounted
<1>2. Inv /\ [Next]_vars => [Loop => TurnsLeft' < TurnsLeft]_vars
  BY LoopTurns
<1> QED BY <1>1, <1>2, InitInv, StepInv, PTL DEF Spec

-----------------------------------------------------------------------------
(* The stream read byte by byte.                                           *)


(* What has been read after each byte, and in the end.                     *)
Reading(r, s, b) ==
  /\ r[0] = s /\ r[Len(b)] = Stream(s, b)
  /\ \A k \in 1 .. Len(b) : r[k] = Step(r[k - 1], b[k])

(* There is such a function, by induction over how far it goes: Stream     *)
(* means what it says.                                                     *)
LEMMA StreamReads ==
  ASSUME NEW S, NEW b \in Seq(S), NEW s
  PROVE  \E r : Reading(r, s, b)
<1> DEFINE N == Len(b)
           Part(r, k) == r = [n \in 0 .. k |-> IF n = 0 THEN s ELSE Step(r[n - 1], b[n])]
           T == {k \in 0 .. N : \E r : Part(r, k)}
<1>1. N \in Nat
  BY LenProperties
<1>2. 0 \in T
  <2>1. Part([n \in 0 .. 0 |-> s], 0)
    OBVIOUS
  <2> HIDE DEF Part
  <2>2. \E r : Part(r, 0)
    BY <2>1
  <2> QED BY <1>1, <2>2
<1>3. ASSUME NEW k \in 0 .. N - 1, k \in T PROVE k + 1 \in T
  <2>1. PICK r : Part(r, k)
    BY <1>3
  <2> DEFINE q == [n \in 0 .. k + 1 |-> IF n = k + 1 THEN Step(r[k], b[k + 1]) ELSE r[n]]
  <2>2. \A n \in 0 .. k + 1 : q[n] = IF n = 0 THEN s ELSE Step(q[n - 1], b[n])
    <3> SUFFICES ASSUME NEW n \in 0 .. k + 1
                 PROVE  q[n] = IF n = 0 THEN s ELSE Step(q[n - 1], b[n])
      OBVIOUS
    <3>1. CASE n = k + 1
      <4>1. n - 1 = k /\ q[k] = r[k] /\ n # 0
        BY <3>1
      <4> QED BY <3>1, <4>1
    <3>2. CASE n # k + 1
      <4>1. n \in 0 .. k /\ q[n] = r[n]
        BY <3>2
      <4>2. r[n] = IF n = 0 THEN s ELSE Step(r[n - 1], b[n])
        BY <2>1, <4>1
      <4>3. n # 0 => q[n - 1] = r[n - 1]
        BY <4>1
      <4> QED BY <4>1, <4>2, <4>3
    <3> QED BY <3>1, <3>2
  <2>3. q = [n \in 0 .. k + 1 |-> q[n]]
    OBVIOUS
  <2> HIDE DEF q
  <2>4. Part(q, k + 1)
    BY <2>2, <2>3
  <2> HIDE DEF Part
  <2> QED BY <1>1, <2>4
<1>4. N \in T
  <2> HIDE DEF T
  <2>1. \A k \in 0 .. N : k \in T
    BY <1>1, <1>2, <1>3, UpTo
  <2> QED BY <1>1, <2>1
<1> DEFINE read == CHOOSE r : Part(r, N)
<1>5. Part(read, N)
  <2> HIDE DEF Part
  <2> QED BY <1>4
<1>6. Stream(s, b) = read[N]
  BY DEF Stream
<1> HIDE DEF read
<1>7. read[0] = s /\ \A k \in 1 .. N : read[k] = Step(read[k - 1], b[k])
  BY <1>1, <1>5
<1>8. Reading(read, s, b)
  BY <1>6, <1>7 DEF Reading
<1> QED BY <1>8

LEMMA StreamEnd ==
  ASSUME NEW s
  PROVE  Stream(s, <<>>) = s
<1>1. PICK r : Reading(r, s, <<>>)
  BY StreamReads, EmptySeq
<1> QED BY <1>1 DEF Reading

(* Reading the bytes from place p on begins with the byte there.           *)
LEMMA StreamStep ==
  ASSUME NEW S, NEW b \in Seq(S), NEW p \in 1 .. Len(b), NEW s
  PROVE  Stream(s, SubSeq(b, p, Len(b))) =
           Stream(Step(s, b[p]), SubSeq(b, p + 1, Len(b)))
<1> DEFINE u == SubSeq(b, p, Len(b))
           v == SubSeq(b, p + 1, Len(b))
           n == Len(b) - p
<1>1. Len(b) \in Nat /\ n \in Nat
  BY LenProperties
<1>2. u \in Seq(S) /\ Len(u) = n + 1 /\ \A k \in 1 .. n + 1 : u[k] = b[p + k - 1]
  <2>1. \A i \in p .. Len(b) : b[i] \in S
    BY <1>1
  <2> QED BY <1>1, <2>1, SubSeqProperties
<1>3. v \in Seq(S) /\ Len(v) = n /\ \A k \in 1 .. n : v[k] = b[p + k]
  <2>1. \A i \in p + 1 .. Len(b) : b[i] \in S
    BY <1>1
  <2> QED BY <1>1, <2>1, SubSeqProperties
<1> HIDE DEF u, v
<1>4. PICK r : Reading(r, s, u)
  BY <1>2, StreamReads
<1>5. PICK q : Reading(q, Step(s, b[p]), v)
  BY <1>3, StreamReads
<1> DEFINE T == {k \in 0 .. n : r[k + 1] = q[k]}
<1>6. 0 \in T
  <2>1. 1 \in 1 .. Len(u) /\ u[1] = b[p]
    <3>1. 1 \in 1 .. n + 1 /\ p + 1 - 1 = p
      BY <1>1
    <3>2. u[1] = b[p + 1 - 1]
      BY <1>2, <3>1
    <3> QED BY <1>2, <3>1, <3>2
  <2>2. r[1] = Step(r[1 - 1], u[1])
    BY <1>4, <2>1 DEF Reading
  <2> QED BY <1>1, <1>4, <1>5, <2>1, <2>2 DEF Reading
<1>7. ASSUME NEW k \in 0 .. n - 1, k \in T PROVE k + 1 \in T
  <2>1. k + 1 \in 0 .. n /\ k + 1 \in 1 .. Len(v) /\ (k + 1) + 1 \in 1 .. Len(u)
    BY <1>1, <1>2, <1>3
  <2>2. u[(k + 1) + 1] = v[k + 1]
    <3>1. u[(k + 1) + 1] = b[p + ((k + 1) + 1) - 1] /\ v[k + 1] = b[p + (k + 1)]
      BY <1>2, <1>3, <2>1
    <3>2. p + ((k + 1) + 1) - 1 = p + (k + 1)
      BY <1>1
    <3> QED BY <3>1, <3>2
  <2>3. r[(k + 1) + 1] = Step(r[k + 1], u[(k + 1) + 1])
    <3>1. r[(k + 1) + 1] = Step(r[((k + 1) + 1) - 1], u[(k + 1) + 1])
      BY <1>4, <2>1 DEF Reading
    <3>2. ((k + 1) + 1) - 1 = k + 1
      BY <1>1
    <3> QED BY <3>1, <3>2
  <2>4. q[k + 1] = Step(q[k], v[k + 1])
    <3>1. q[k + 1] = Step(q[(k + 1) - 1], v[k + 1])
      BY <1>5, <2>1 DEF Reading
    <3>2. (k + 1) - 1 = k
      BY <1>1
    <3> QED BY <3>1, <3>2
  <2>5. r[k + 1] = q[k]
    BY <1>7
  <2> QED BY <2>1, <2>2, <2>3, <2>4, <2>5
<1>8. r[n + 1] = q[n]
  <2> HIDE DEF T
  <2>1. \A k \in 0 .. n : k \in T
    BY <1>1, <1>6, <1>7, UpTo
  <2>2. n \in T
    BY <1>1, <2>1
  <2> QED BY <2>2 DEF T
<1>9. Stream(s, u) = Stream(Step(s, b[p]), v)
  BY <1>2, <1>3, <1>4, <1>5, <1>8 DEF Reading
<1> QED BY <1>9 DEF u, v

-----------------------------------------------------------------------------
(* The grammar, state by state.                                            *)

At(st, str, o) == [state |-> st, str |-> str, out |-> o]
Calling(o, kind, data) == Append(o, Event(kind, data))

LEMMA AtFields ==
  ASSUME NEW st, NEW x, NEW o
  PROVE  /\ At(st, x, o).state = st /\ At(st, x, o).str = x /\ At(st, x, o).out = o
         /\ \A t : Enter(At(st, x, o), t) = At(t, <<>>, o)
         /\ \A b : Collect(At(st, x, o), b) = At(st, Append(x, b), o)
         /\ \A k, d : Emit(At(st, x, o), k, d) = At("NORMAL", <<>>, Calling(o, k, d))
         /\ \A k, d : [At(st, x, o) EXCEPT !.out = Append(@, Event(k, d))] =
              At(st, x, Calling(o, k, d))
         /\ \A t : [At(st, x, o) EXCEPT !.state = t] = At(t, x, o)
<1>1. At(st, x, o).state = st /\ At(st, x, o).str = x /\ At(st, x, o).out = o
  BY DEF At
<1>2. \A t : Enter(At(st, x, o), t) = At(t, <<>>, o)
  <2> SUFFICES ASSUME NEW t PROVE Enter(At(st, x, o), t) = At(t, <<>>, o)
    OBVIOUS
  <2>1. [At(st, x, o) EXCEPT !.state = t, !.str = <<>>] =
          [[At(st, x, o) EXCEPT !.state = t] EXCEPT !.str = <<>>]
    OBVIOUS
  <2>2. [At(st, x, o) EXCEPT !.state = t] = At(t, x, o)
    BY DEF At
  <2>3. [At(t, x, o) EXCEPT !.str = <<>>] = At(t, <<>>, o)
    BY DEF At
  <2> QED BY <2>1, <2>2, <2>3 DEF Enter
<1>3. \A b : Collect(At(st, x, o), b) = At(st, Append(x, b), o)
  BY DEF At, Collect
<1>4. \A t, k, d : [At(t, x, o) EXCEPT !.out = Append(@, Event(k, d))] =
         At(t, x, Calling(o, k, d))
  BY DEF At, Calling
<1>5. \A k, d : [At("NORMAL", <<>>, o) EXCEPT !.out = Append(@, Event(k, d))] =
         At("NORMAL", <<>>, Calling(o, k, d))
  BY DEF At, Calling
<1>6. \A k, d : Emit(At(st, x, o), k, d) = At("NORMAL", <<>>, Calling(o, k, d))
  BY <1>2, <1>5 DEF Emit
<1>7. \A t : [At(st, x, o) EXCEPT !.state = t] = At(t, x, o)
  BY DEF At
<1> QED BY <1>1, <1>2, <1>3, <1>4, <1>6, <1>7

LEMMA StepIgnored ==
  ASSUME NEW s, NEW b \in {"NUL", "DEL"}
  PROVE  Step(s, b) = s
BY DEF Step

LEMMA StepCancel ==
  ASSUME NEW st, NEW x, NEW o
  PROVE  Step(At(st, x, o), "CAN") = At("NORMAL", <<>>, o)
BY AtFields DEF Step

LEMMA StepESC ==
  ASSUME NEW st, NEW x, NEW o
  PROVE  Step(At(st, x, o), "ESC") =
           IF st = "OSC" THEN At("ESC_IN_OSC", x, o)
           ELSE IF st = "DCS" THEN At("ESC_IN_DCS", x, o) ELSE At("ESC", <<>>, o)
<1> DEFINE s == At(st, x, o)
<1>1. s.state = st
  BY AtFields
<1>2. Step(s, "ESC") = AtEscape(s)
  BY DEF Step
<1>3. CASE st = "OSC"
  BY <1>1, <1>2, <1>3, AtFields DEF AtEscape
<1>4. CASE st = "DCS"
  BY <1>1, <1>2, <1>4, AtFields DEF AtEscape
<1>5. CASE st \notin {"OSC", "DCS"}
  BY <1>1, <1>2, <1>5, AtFields DEF AtEscape
<1> QED BY <1>3, <1>4, <1>5

LEMMA OutCalling ==
  ASSUME NEW st, NEW x, NEW o, NEW kind, NEW data
  PROVE  [At(st, x, o) EXCEPT !.out = Append(@, Event(kind, data))] =
           At(st, x, Calling(o, kind, data))
<1> DEFINE new == Append(o, Event(kind, data))
<1>1. At(st, x, o).out = o
  BY AtFields
<1> HIDE DEF new
<1>2. [At(st, x, o) EXCEPT !.out = new] = At(st, x, new)
  BY DEF At
<1> QED BY <1>1, <1>2, Zenon DEF Calling, new

LEMMA StepControl ==
  ASSUME NEW st, NEW x, NEW o, NEW b \in {"C0", "BEL"},
         ~(b = "BEL" /\ st \in {"OSC", "DCS"})
  PROVE  Step(At(st, x, o), b) = At(st, x, Calling(o, "control", <<b>>))
<1> DEFINE s == At(st, x, o)
<1>1. ~EndsString(s, b)
  BY AtFields DEF EndsString
<1>2. [s EXCEPT !.out = Append(@, Event("control", <<b>>))] =
        At(st, x, Calling(o, "control", <<b>>))
  BY OutCalling
<1> HIDE DEF s
<1>3. Step(s, b) = At(st, x, Calling(o, "control", <<b>>))
  BY <1>1, <1>2 DEF Step
<1> QED BY <1>3 DEF s

Printing == ByteClass \ {"NUL", "DEL", "CAN", "ESC", "BEL", "C0"}

LEMMA StepText ==
  ASSUME NEW x, NEW o, NEW b \in Printing
  PROVE  Step(At("NORMAL", x, o), b) = At("NORMAL", x, Calling(o, "text", <<b>>))
<1>1. At("NORMAL", x, o).state = "NORMAL"
  BY AtFields
<1>2. ~EndsString(At("NORMAL", x, o), b)
  BY <1>1 DEF EndsString
<1>3. Step(At("NORMAL", x, o), b) = InState(At("NORMAL", x, o), b)
  BY <1>2 DEF Step, Printing
<1>4. InState(At("NORMAL", x, o), b) =
        [At("NORMAL", x, o) EXCEPT !.out = Append(@, Event("text", <<b>>))]
  BY <1>1 DEF InState
<1> QED BY <1>3, <1>4, OutCalling, SMTT(40)

LEMMA StepEscape ==
  ASSUME NEW x, NEW o, NEW b \in Printing,
         NEW st \in {"ESC", "ESC_IN_OSC", "ESC_IN_DCS"}, NEW y,
         st # "ESC" => b # "ST",
         y = IF st = "ESC" THEN x ELSE <<>>
  PROVE  /\ b \in Introducer => Step(At(st, x, o), b) = At(Intro(b), <<>>, o)
         /\ b \in {"inter", "high"} => Step(At(st, x, o), b) = At("ESC", Append(y, b), o)
         /\ b \in {"param", "final", "ST"} => Step(At(st, x, o), b) =
              At("NORMAL", <<>>,
                 IF y = <<>> /\ b = "ST" THEN Calling(o, "control", <<"ST">>)
                 ELSE Calling(o, "escape", Append(y, b)))
<1>1. ~EndsString(At(st, x, o), b)
  BY DEF EndsString, At, Printing
<1>2. Step(At(st, x, o), b) = InState(At(st, x, o), b)
  BY <1>1 DEF Step, Printing
<1>3. InState(At(st, x, o), b) = InEscape(At("ESC", y, o), b)
  <2>1. At(st, x, o).state = st
    BY AtFields
  <2>2. CASE st = "ESC"
    BY <2>1, <2>2 DEF InState
  <2>3. CASE st \in {"ESC_IN_OSC", "ESC_IN_DCS"}
    <3>1. InState(At(st, x, o), b) = InEscape(Enter(At(st, x, o), "ESC"), b)
      BY <2>1, <2>3 DEF InState
    <3>2. Enter(At(st, x, o), "ESC") = At("ESC", y, o)
      BY <2>3, AtFields
    <3> QED BY <3>1, <3>2
  <2> QED BY <2>2, <2>3
<1>4. /\ b \in Introducer => InEscape(At("ESC", y, o), b) = At(Intro(b), <<>>, o)
      /\ b \in {"inter", "high"} => InEscape(At("ESC", y, o), b) = At("ESC", Append(y, b), o)
  BY AtFields DEF InEscape, Introducer
<1>5. b \in {"param", "final", "ST"} => InEscape(At("ESC", y, o), b) =
              At("NORMAL", <<>>,
                 IF y = <<>> /\ b = "ST" THEN Calling(o, "control", <<"ST">>)
                 ELSE Calling(o, "escape", Append(y, b)))
  BY AtFields DEF InEscape
<1> QED BY <1>2, <1>3, <1>4, <1>5

LEMMA StepCSI ==
  ASSUME NEW x, NEW o, NEW b \in Printing
  PROVE  Step(At("CSI", x, o), b) =
           IF b \in CSIFinal THEN At("NORMAL", <<>>, Calling(o, "csi", Append(x, b)))
           ELSE At("CSI", Append(x, b), o)
<1>1. At("CSI", x, o).state = "CSI" /\ At("CSI", x, o).str = x
  BY AtFields
<1>2. ~EndsString(At("CSI", x, o), b)
  BY <1>1 DEF EndsString
<1>3. Step(At("CSI", x, o), b) = InState(At("CSI", x, o), b)
  BY <1>2 DEF Step, Printing
<1>4. CASE b \in CSIFinal
  BY <1>1, <1>3, <1>4, AtFields DEF InState
<1>5. CASE b \notin CSIFinal
  BY <1>1, <1>3, <1>5, AtFields DEF InState
<1> QED BY <1>4, <1>5

LEMMA StepString ==
  ASSUME NEW x, NEW o, NEW b \in Printing \cup {"BEL"}, NEW st \in {"OSC", "DCS"}
  PROVE  Step(At(st, x, o), b) =
           IF b = "BEL" THEN At("NORMAL", <<>>, Calling(o, StringKind(st), x))
           ELSE At(st, Append(x, b), o)
<1>1. At(st, x, o).state = st /\ At(st, x, o).str = x
  BY AtFields
<1>2. CASE b = "BEL"
  BY <1>1, <1>2, AtFields DEF Step, EndsString
<1>3. CASE b # "BEL"
  <2>1. ~EndsString(At(st, x, o), b)
    BY <1>1, <1>3 DEF EndsString
  <2>2. Step(At(st, x, o), b) = InState(At(st, x, o), b)
    BY <1>3, <2>1 DEF Step, Printing
  <2>3. InState(At(st, x, o), b) = Collect(At(st, x, o), b)
    BY <1>1 DEF InState
  <2> QED BY <1>3, <2>2, <2>3, AtFields
<1> QED BY <1>2, <1>3

LEMMA StepTerminator ==
  ASSUME NEW x, NEW o, NEW st \in {"ESC_IN_OSC", "ESC_IN_DCS"}
  PROVE  Step(At(st, x, o), "ST") =
           At("NORMAL", <<>>, Calling(o, StringKind(st), x))
<1>1. At(st, x, o).state = st /\ At(st, x, o).str = x
  BY AtFields
<1> QED BY <1>1, AtFields DEF Step, EndsString

-----------------------------------------------------------------------------
(* Chunks and the stream.                                                  *)

(* What the parser holds of the open sequence: what it copied, and what    *)
(* lies in the chunk before the byte being looked at.                      *)
Seen == IF string_start = 0 THEN strbuffer ELSE strbuffer \o Frag(pos - 1)

(* Of a terminator the ESC is no part of the string.                       *)
Terminating == parser_state \in {"ESC_IN_OSC", "ESC_IN_DCS"}
Held == IF Terminating THEN SubSeq(Seen, 1, Len(Seen) - 1) ELSE Seen

(* The parser's state as one of the stream, and the bytes still to come.   *)
Now == At(parser_state, Held, out)
Rest == SubSeq(bytes, pos, Len(bytes))

(* Reading the rest of the chunk byte by byte from here leads to what the  *)
(* stream without chunks means: so it is as long as nothing deviates.      *)
Faithful ==
  /\ pos <= Len(bytes) + 1
  /\ parser_state = "NORMAL" => strbuffer = <<>>
  /\ Terminating => Seen # <<>> /\ Seen[Len(Seen)] = "ESC"
  /\ Stream(Now, Rest) = ref

Agree == quirks = {} => Faithful

LEMMA InTurn ==
  ASSUME Inv, Turn
  PROVE  /\ bytes \in Seq(ByteClass) /\ strbuffer \in Seq(ByteClass)
         /\ Len(bytes) \in Nat /\ pos \in 1 .. Len(bytes) /\ ~Idle
         /\ c = bytes[pos] /\ c \in ByteClass /\ parser_state \in ParserState
         /\ IF parser_state = "NORMAL" THEN string_start = 0 ELSE string_start \in 1 .. pos
<1>1. bytes \in Seq(ByteClass) /\ c \in ByteClass /\ ~Idle
  BY ChunkBytes, TurnByte DEF Inv
<1>2. Len(bytes) \in Nat /\ pos \in 1 .. Len(bytes)
  BY <1>1, LenProperties DEF Inv, Input, Turn
<1>3. strbuffer \in Seq(ByteClass) /\ parser_state \in ParserState
  BY DEF Inv, Progress, Buffered
<1>4. IF parser_state = "NORMAL" THEN string_start = 0 ELSE string_start \in 1 .. pos
  BY <1>1 DEF Inv, Progress, Started
<1> QED BY <1>1, <1>2, <1>3, <1>4 DEF c

LEMMA SeenBytes ==
  ASSUME Inv, Turn
  PROVE  /\ Seen \in Seq(ByteClass)
         /\ parser_state = "NORMAL" => Seen = strbuffer
         /\ parser_state # "NORMAL" =>
              Seen = strbuffer \o Frag(pos - 1) /\ strbuffer \o Frag(pos) = Append(Seen, c)
<1>1. CASE parser_state = "NORMAL"
  BY <1>1, InTurn DEF Seen
<1>2. CASE parser_state # "NORMAL"
  <2>1. string_start \in 1 .. pos /\ Seen = strbuffer \o Frag(pos - 1)
    BY <1>2, InTurn DEF Seen
  <2>2. pos - 1 \in Int /\ pos - 1 <= Len(bytes) /\ string_start \in Nat \ {0}
    BY <2>1, InTurn
  <2>3. Frag(pos - 1) \in Seq(ByteClass)
    BY <2>2, FragBytes DEF Inv
  <2>4. Seen \in Seq(ByteClass)
    BY <2>1, <2>3, InTurn, ConcatProperties
  <2>5. strbuffer \o Frag(pos) = Append(Seen, c)
    BY <2>1, InTurn, OneMore DEF Frag
  <2> QED BY <1>2, <2>1, <2>4, <2>5
<1> QED BY <1>1, <1>2

(* What is seen of a sequence that starts behind the byte, and of one that *)
(* goes on.                                                                *)
LEMMA SeenAfter ==
  ASSUME Inv, Turn, Advance
  PROVE  /\ string_start' = 0 => Seen' = strbuffer'
         /\ string_start' = pos + 1 /\ strbuffer' \in Seq(ByteClass) => Seen' = strbuffer'
         /\ string_start # 0 /\ UNCHANGED <<strbuffer, string_start>> => Seen' = Append(Seen, c)
<1>1. bytes' = bytes /\ pos' = pos + 1 /\ pos \in Nat /\ pos' - 1 = pos /\ pos + 1 # 0
  BY InTurn DEF Advance
<1>2. string_start' = 0 => Seen' = strbuffer'
  BY DEF Seen
<1>3. ASSUME string_start' = pos + 1, strbuffer' \in Seq(ByteClass) PROVE Seen' = strbuffer'
  <2>1. Seen' = strbuffer' \o SubSeq(bytes, pos + 1, pos)
    BY <1>1, <1>3 DEF Seen, Frag
  <2>2. SubSeq(bytes, pos + 1, pos) = <<>>
    BY <1>1, SubSeqEmpty
  <2> QED BY <1>3, <2>1, <2>2, ConcatEmptySeq
<1>4. ASSUME string_start # 0, UNCHANGED <<strbuffer, string_start>>
      PROVE  Seen' = Append(Seen, c)
  <2>1. Seen' = strbuffer \o Frag(pos)
    BY <1>1, <1>4 DEF Seen, Frag
  <2>2. parser_state # "NORMAL"
    BY <1>4, InTurn
  <2> QED BY <2>1, <2>2, SeenBytes
<1> QED BY <1>2, <1>3, <1>4

(* A turn that does what the stream does at the byte.                      *)
LEMMA Turned ==
  ASSUME Inv, Turn, Advance, Faithful, Now' = Step(Now, c)
  PROVE  Stream(Now', Rest') = ref' /\ pos' <= Len(bytes') + 1
<1>1. bytes' = bytes /\ pos' = pos + 1 /\ ref' = ref /\ pos' <= Len(bytes') + 1
  BY InTurn DEF Advance
<1>2. Rest' = SubSeq(bytes, pos + 1, Len(bytes))
  BY <1>1 DEF Rest
<1>3. Stream(Now, SubSeq(bytes, pos, Len(bytes))) =
        Stream(Step(Now, bytes[pos]), SubSeq(bytes, pos + 1, Len(bytes)))
  BY InTurn, StreamStep
<1> QED BY <1>1, <1>2, <1>3, InTurn DEF Faithful, Rest

(* append_strbuffer drops nothing when there is room.                      *)
LEMMA Whole ==
  ASSUME NEW s \in Seq(ByteClass), strbuffer \in Seq(ByteClass)
  PROVE  /\ Overfull(s) = {} => Appended(s) = strbuffer \o s
         /\ TooLong(s) = {} => StringOf(s) = strbuffer \o s
<1>1. Overfull(s) = {} => Appended(s) = strbuffer \o s
  BY DEF Overfull, Appended, Capped
<1>2. strbuffer = <<>> => strbuffer \o s = s
  BY ConcatEmptySeq
<1> QED BY <1>1, <1>2 DEF TooLong, StringOf

(* A sequence that is open goes on with the byte; and one ends with it.    *)
LEMMA CollectAgrees ==
  ASSUME Inv, Turn, Advance, Faithful, parser_state # "NORMAL", ~Terminating,
         UNCHANGED <<parser_state, strbuffer, string_start, out>>,
         Step(Now, c) = At(parser_state, Append(Seen, c), out)
  PROVE  Faithful'
<1>1. string_start # 0
  BY InTurn
<1>2. Seen' = Append(Seen, c) /\ ~Terminating'
  BY <1>1, SeenAfter DEF Terminating
<1>3. Now' = Step(Now, c)
  BY <1>2 DEF Now, Held
<1> QED BY <1>2, <1>3, Turned DEF Faithful

LEMMA DeliverAgrees ==
  ASSUME Inv, Turn, Advance, Faithful, quirks' = {},
         NEW kind, NEW frag \in Seq(ByteClass), NEW dev, Deliver(kind, frag, dev),
         Step(Now, c) = At("NORMAL", <<>>, Calling(out, kind, strbuffer \o frag))
  PROVE  Faithful'
<1>1. /\ strbuffer' = <<>> /\ parser_state' = "NORMAL" /\ string_start' = 0
      /\ out' = Append(out, Event(kind, StringOf(frag))) /\ TooLong(frag) = {}
  BY DEF Deliver
<1>2. StringOf(frag) = strbuffer \o frag
  BY <1>1, InTurn, Whole
<1>3. Seen' = <<>> /\ ~Terminating'
  BY <1>1, SeenAfter DEF Terminating
<1>4. Now' = Step(Now, c)
  BY <1>1, <1>2, <1>3 DEF Now, Held, Calling
<1> QED BY <1>1, <1>3, <1>4, Turned DEF Faithful

(* A byte that is no part of the sequence: what is held stays the same.    *)
LEMMA SplitAgrees ==
  ASSUME Inv, Turn, Advance, Faithful, quirks' = {}, Split, UNCHANGED parser_state,
         Step(Now, c) = At(parser_state, Held, out')
  PROVE  Faithful'
<1>1. Seen' = Seen /\ (parser_state = "NORMAL" => strbuffer' = strbuffer)
  <2>1. CASE parser_state = "NORMAL"
    BY <2>1, InTurn, SeenBytes, SeenAfter DEF Split
  <2>2. CASE parser_state # "NORMAL"
    <3>1. /\ strbuffer' = Appended(Frag(pos - 1)) /\ Overfull(Frag(pos - 1)) = {}
          /\ string_start' = pos + 1
      BY <2>2 DEF Split
    <3>2. Frag(pos - 1) \in Seq(ByteClass)
      BY <2>2, InTurn, FragBytes DEF Inv
    <3>3. strbuffer' = Seen
      BY <2>2, <3>1, <3>2, InTurn, Whole, SeenBytes
    <3> QED BY <2>2, <3>1, <3>3, SeenBytes, SeenAfter
  <2> QED BY <2>1, <2>2
<1>2. Held' = Held /\ (Terminating' <=> Terminating)
  BY <1>1 DEF Held, Terminating
<1>3. Now' = Step(Now, c)
  BY <1>2 DEF Now
<1> QED BY <1>1, <1>2, <1>3, Turned DEF Faithful

LEMMA IgnoredAgrees == ASSUME Inv, Faithful, Ignored, quirks' = {} PROVE Faithful'
<1>1. Step(Now, c) = At(parser_state, Held, out')
  BY StepIgnored DEF Now, Ignored
<1> QED BY <1>1, SplitAgrees DEF Ignored

LEMMA ControlAgrees == ASSUME Inv, Faithful, Control, quirks' = {} PROVE Faithful'
<1>1. c \in {"C0", "BEL"} /\ ~(c = "BEL" /\ parser_state \in {"OSC", "DCS"})
  BY DEF Control, Ordinary
<1>2. Step(Now, c) = At(parser_state, Held, Calling(out, "control", <<c>>))
  BY <1>1, StepControl DEF Now, Control
<1>3. out' = Calling(out, "control", <<c>>)
  BY DEF Control, Calling
<1> QED BY <1>2, <1>3, SplitAgrees DEF Control

LEMMA CancelAgrees == ASSUME Inv, Faithful, Cancel, quirks' = {} PROVE Faithful'
<1>1. strbuffer = <<>> /\ strbuffer' = <<>> /\ parser_state' = "NORMAL"
      /\ string_start' = 0 /\ out' = out
  BY DEF Cancel, Dropped
<1>2. Step(Now, c) = At("NORMAL", <<>>, out)
  BY StepCancel DEF Now, Cancel
<1>3. Seen' = <<>> /\ ~Terminating'
  BY <1>1, SeenAfter DEF Cancel, Terminating
<1>4. Now' = Step(Now, c)
  BY <1>1, <1>2, <1>3 DEF Now, Held
<1> QED BY <1>1, <1>3, <1>4, Turned DEF Faithful, Cancel

LEMMA EscapeAgrees == ASSUME Inv, Faithful, Escape, quirks' = {} PROVE Faithful'
<1> DEFINE st == IF parser_state = "OSC" THEN "ESC_IN_OSC"
                 ELSE IF parser_state = "DCS" THEN "ESC_IN_DCS" ELSE "ESC"
<1>1. parser_state' = st /\ out' = out /\ strbuffer' = strbuffer /\ Turn /\ Advance /\ c = "ESC"
  BY DEF Escape
<1>2. CASE parser_state \in {"OSC", "DCS"}
  <2>1. string_start' = string_start /\ string_start # 0
    BY <1>1, <1>2, InTurn DEF Escape
  <2>2. Seen' = Append(Seen, c)
    BY <1>1, <2>1, SeenAfter
  <2>3. Seen' # <<>> /\ Seen'[Len(Seen')] = "ESC" /\ SubSeq(Seen', 1, Len(Seen') - 1) = Seen
    <3>1. Seen \in Seq(ByteClass) /\ c \in ByteClass
      BY <1>1, InTurn, SeenBytes
    <3> QED BY <1>1, <2>2, <3>1, LastApart, Zenon
  <2>4. Terminating' /\ ~Terminating
    BY <1>1, <1>2 DEF Terminating
  <2>5. Held' = Seen /\ Held = Seen
    BY <2>3, <2>4 DEF Held
  <2>6. Step(Now, c) = At(st, Seen, out)
    BY <1>1, <1>2, <2>5, StepESC DEF Now
  <2>7. Now' = Step(Now, c)
    BY <1>1, <2>5, <2>6 DEF Now
  <2> QED BY <1>1, <1>2, <2>3, <2>4, <2>7, Turned DEF Faithful
<1>3. CASE parser_state \notin {"OSC", "DCS"}
  <2>1. string_start' = pos + 1 /\ strbuffer = <<>>
    BY <1>3 DEF Escape, Dropped
  <2>2. Seen' = <<>> /\ ~Terminating'
    BY <1>1, <1>3, <2>1, InTurn, SeenAfter DEF Terminating
  <2>3. Step(Now, c) = At("ESC", <<>>, out)
    BY <1>1, <1>3, StepESC DEF Now
  <2>4. Now' = Step(Now, c)
    BY <1>1, <1>3, <2>2, <2>3 DEF Now, Held
  <2> QED BY <1>1, <1>3, <2>1, <2>2, <2>4, Turned DEF Faithful
<1> QED BY <1>2, <1>3

LEMMA CSIAgrees == ASSUME Inv, Faithful, CSIByte, quirks' = {} PROVE Faithful'
<1>1. c \in Printing /\ parser_state = "CSI" /\ ~Terminating /\ Held = Seen /\ Turn /\ Advance
  BY InTurn DEF CSIByte, Ordinary, Printing, Terminating, Held
<1>2. Step(Now, c) = IF c \in CSIFinal THEN At("NORMAL", <<>>, Calling(out, "csi", Append(Seen, c)))
                     ELSE At("CSI", Append(Seen, c), out)
  BY <1>1, StepCSI DEF Now
<1>3. strbuffer \o Frag(pos) = Append(Seen, c) /\ Frag(pos) \in Seq(ByteClass)
  BY <1>1, InTurn, SeenBytes, FragBytes DEF Inv
<1>4. CASE c \in CSIFinal
  BY <1>1, <1>2, <1>3, <1>4, DeliverAgrees DEF CSIByte
<1>5. CASE c \notin CSIFinal
  BY <1>1, <1>2, <1>5, CollectAgrees DEF CSIByte
<1> QED BY <1>4, <1>5

LEMMA StringAgrees == ASSUME Inv, Faithful, StringByte, quirks' = {} PROVE Faithful'
<1>1. /\ c \in Printing \cup {"BEL"} /\ parser_state \in {"OSC", "DCS"}
      /\ ~Terminating /\ Held = Seen /\ Turn /\ Advance
  BY InTurn DEF StringByte, Ordinary, Printing, Terminating, Held
<1>2. Step(Now, c) =
        IF c = "BEL" THEN At("NORMAL", <<>>, Calling(out, StringKind(parser_state), Seen))
        ELSE At(parser_state, Append(Seen, c), out)
  BY <1>1, StepString DEF Now
<1>3. strbuffer \o Frag(pos - 1) = Seen /\ Frag(pos - 1) \in Seq(ByteClass)
  <2>1. parser_state # "NORMAL"
    BY <1>1
  <2>2. string_start \in 1 .. pos /\ pos \in 1 .. Len(bytes) /\ Len(bytes) \in Nat
    BY <1>1, <2>1, InTurn
  <2>3. pos - 1 \in Int /\ pos - 1 <= Len(bytes) /\ string_start \in Nat \ {0}
    BY <2>2
  <2>4. Frag(pos - 1) \in Seq(ByteClass)
    BY <2>3, FragBytes DEF Inv
  <2> QED BY <1>1, <2>1, <2>4, SeenBytes, Zenon
<1>4. CASE c = "BEL"
  BY <1>1, <1>2, <1>3, <1>4, DeliverAgrees DEF StringByte
<1>5. CASE c # "BEL"
  BY <1>1, <1>2, <1>5, CollectAgrees DEF StringByte
<1> QED BY <1>4, <1>5

(* The fragment of a terminated string is what is held: without the        *)
(* deviation its ESC lies in the same fragment.                            *)
LEMMA TerminatorAgrees ==
  ASSUME Inv, Faithful, StringTerminator, quirks' = {}
  PROVE  Faithful'
<1> DEFINE frag == Frag(pos - 2)
           front == strbuffer \o frag
<1>1. Turn /\ Advance /\ c = "ST" /\ Terminating /\ parser_state # "NORMAL"
  BY DEF StringTerminator, Terminating
<1>2. pos - string_start - 1 >= 0 /\ Deliver(StringKind(parser_state), frag, {})
  <2>1. ASSUME NEW rest, Deliver(StringKind(parser_state), rest, {"st"}) PROVE FALSE
    BY <2>1 DEF Deliver
  <2> HIDE DEF frag
  <2> QED BY <2>1 DEF StringTerminator, StringEnd, frag
<1>3. string_start \in 1 .. pos - 1 /\ pos - 1 \in 1 .. Len(bytes) /\ (pos - 1) - 1 = pos - 2
  BY <1>1, <1>2, InTurn
<1>4. frag \in Seq(ByteClass)
  <2>1. pos - 2 \in Int /\ pos - 2 <= Len(bytes) /\ string_start \in Nat \ {0}
    BY <1>1, <1>3, InTurn
  <2> QED BY <2>1, FragBytes DEF Inv
<1>5. front \in Seq(ByteClass)
  BY <1>1, <1>4, InTurn, ConcatProperties
<1>6. Seen = Append(front, bytes[pos - 1]) /\ bytes[pos - 1] \in ByteClass
  <2>1. strbuffer \o SubSeq(bytes, string_start, pos - 1) =
          Append(strbuffer \o SubSeq(bytes, string_start, pos - 2), bytes[pos - 1])
    BY <1>1, <1>3, InTurn, OneMore, ZenonT(40)
  <2>2. parser_state # "NORMAL" /\ Seen = strbuffer \o Frag(pos - 1)
    BY <1>1, SeenBytes, Zenon
  <2>3. bytes[pos - 1] \in ByteClass
    BY <1>1, <1>3, InTurn, ElementOfSeq
  <2> QED BY <2>1, <2>2, <2>3, Zenon DEF Frag
<1> HIDE DEF front, frag
<1>7. Held = front
  BY <1>1, <1>5, <1>6, LastApart DEF Held
<1>8. Step(Now, c) = At("NORMAL", <<>>, Calling(out, StringKind(parser_state), strbuffer \o frag))
  BY <1>1, <1>7, StepTerminator DEF Now, Terminating, front
<1> QED BY <1>1, <1>2, <1>4, <1>8, DeliverAgrees

(* In ESC_IN_OSC and ESC_IN_DCS the sequence starts anew at the byte.      *)
LEMMA EscapeByteAgrees ==
  ASSUME Inv, Faithful, EscapeByte, quirks' = {}
  PROVE  Faithful'
<1> DEFINE given_up == parser_state # "ESC"
           start == IF given_up THEN pos ELSE string_start
           drop == IF given_up THEN Dropped ELSE {}
           frag == SubSeq(bytes, start, pos)
           kind == IF StringOf(frag) = <<"ST">> THEN "control" ELSE "escape"
           esc == IF given_up THEN <<>> ELSE Seen
<1>1. /\ Turn /\ Advance /\ c \in Printing /\ parser_state # "NORMAL"
      /\ parser_state \in {"ESC", "ESC_IN_OSC", "ESC_IN_DCS"} /\ (given_up => c # "ST")
      /\ Terminating = given_up
  BY InTurn DEF EscapeByte, Ordinary, Printing, Terminating
<1>2. \/ /\ c \in Introducer
         /\ parser_state' = Intro(c)
         /\ string_start' = pos + 1
         /\ quirks' = quirks \cup (IF given_up THEN drop ELSE Dropped)
         /\ UNCHANGED <<strbuffer, out>>
      \/ c \in {"param", "final", "ST"} /\ Deliver(kind, frag, drop)
      \/ /\ c \in {"inter", "high"}
         /\ parser_state' = "ESC"
         /\ string_start' = start
         /\ quirks' = quirks \cup drop
         /\ UNCHANGED <<strbuffer, out>>
  BY DEF EscapeByte
<1>3. start \in 1 .. pos /\ pos \in 1 .. Len(bytes)
  BY <1>1, InTurn
<1>4. frag \in Seq(ByteClass)
  <2>1. start \in Nat \ {0} /\ pos \in Int /\ pos <= Len(bytes)
    BY <1>1, <1>3, InTurn
  <2> QED BY <1>1, <2>1, InTurn, PartOf
<1>5. esc \in Seq(ByteClass)
  BY <1>1, SeenBytes, EmptySeq
<1>6. strbuffer = <<>> \/ ~given_up => strbuffer \o frag = Append(esc, c)
  <2>1. CASE given_up
    <3>1. frag = SubSeq(bytes, pos, pos)
      BY <2>1
    <3>2. /\ <<>> \o SubSeq(bytes, pos, pos) = Append(<<>> \o SubSeq(bytes, pos, pos - 1), c)
          /\ SubSeq(bytes, pos, pos - 1) = <<>>
      BY <1>1, <1>3, InTurn, OneMore, SubSeqEmpty, EmptySeq
    <3>3. <<>> \o <<>> = <<>>
      BY ConcatEmptySeq, EmptySeq
    <3> QED BY <2>1, <3>1, <3>2, <3>3
  <2>2. CASE ~given_up
    BY <1>1, <2>2, SeenBytes DEF Frag
  <2> QED BY <2>1, <2>2
<1>7. parser_state # "ESC" => c # "ST"
  BY <1>1
<1>8. esc = IF parser_state = "ESC" THEN Held ELSE <<>>
  BY <1>1 DEF Held
<1> HIDE DEF frag, start, drop, kind, esc
<1>9. /\ c \in Introducer => Step(Now, c) = At(Intro(c), <<>>, out)
      /\ c \in {"inter", "high"} => Step(Now, c) = At("ESC", Append(esc, c), out)
      /\ c \in {"param", "final", "ST"} => Step(Now, c) =
           At("NORMAL", <<>>,
              IF esc = <<>> /\ c = "ST" THEN Calling(out, "control", <<"ST">>)
              ELSE Calling(out, "escape", Append(esc, c)))
  BY <1>1, <1>7, <1>8, StepEscape DEF Now
<1>10. CASE /\ c \in Introducer
            /\ parser_state' = Intro(c)
            /\ string_start' = pos + 1
            /\ quirks' = quirks \cup (IF given_up THEN drop ELSE Dropped)
            /\ UNCHANGED <<strbuffer, out>>
  <2>1. strbuffer = <<>> /\ strbuffer' = <<>>
    BY <1>10 DEF drop, Dropped
  <2>2. Seen' = <<>>
    BY <1>1, <1>10, <2>1, InTurn, SeenAfter
  <2>3. Intro(c) \in {"DCS", "CSI", "OSC"}
    BY <1>10 DEF Introducer, Intro
  <2>4. ~Terminating'
    BY <1>10, <2>3 DEF Terminating
  <2>5. Now' = Step(Now, c)
    BY <1>9, <1>10, <2>2, <2>4 DEF Now, Held
  <2> QED BY <1>1, <2>1, <2>4, <2>5, Turned DEF Faithful
<1>11. CASE c \in {"param", "final", "ST"} /\ Deliver(kind, frag, drop)
  <2>1. drop = {} /\ TooLong(frag) = {}
    BY <1>11 DEF Deliver
  <2>2. strbuffer \o frag = Append(esc, c)
    BY <1>6, <2>1 DEF drop, Dropped
  <2>3. StringOf(frag) = Append(esc, c)
    BY <1>1, <1>4, <2>1, <2>2, InTurn, Whole
  <2>4. StringOf(frag) = <<"ST">> <=> esc = <<>> /\ c = "ST"
    <3>1. ASSUME esc = <<>>, c = "ST" PROVE Append(esc, c) = <<"ST">>
      BY <3>1
    <3>2. ASSUME Append(esc, c) = <<"ST">> PROVE esc = <<>> /\ c = "ST"
      <4>1. Len(Append(esc, c)) = Len(esc) + 1 /\ Append(esc, c)[Len(esc) + 1] = c
        BY <1>1, <1>5, InTurn, AppendProperties
      <4>2. Len(<<"ST">>) = 1 /\ <<"ST">>[1] = "ST" /\ Len(esc) \in Nat
        BY <1>5, LenProperties
      <4>3. Len(esc) = 0 /\ c = "ST"
        BY <3>2, <4>1, <4>2
      <4> QED BY <1>5, <4>3, EmptySeq
    <3> QED BY <2>3, <3>1, <3>2
  <2>5. Step(Now, c) = At("NORMAL", <<>>, Calling(out, kind, strbuffer \o frag))
    <3>1. CASE esc = <<>> /\ c = "ST"
      BY <1>9, <2>2, <2>3, <2>4, <3>1 DEF kind
    <3>2. CASE ~(esc = <<>> /\ c = "ST")
      BY <1>9, <1>11, <2>2, <2>4, <3>2 DEF kind
    <3> QED BY <3>1, <3>2
  <2> QED BY <1>1, <1>4, <1>11, <2>5, DeliverAgrees
<1>12. CASE /\ c \in {"inter", "high"}
            /\ parser_state' = "ESC"
            /\ string_start' = start
            /\ quirks' = quirks \cup drop
            /\ UNCHANGED <<strbuffer, out>>
  <2>1. strbuffer \o frag = Append(esc, c)
    BY <1>6, <1>12 DEF drop, Dropped
  <2>2. Seen' = strbuffer \o frag
    <3>1. string_start' # 0 /\ pos' - 1 = pos /\ bytes' = bytes
      BY <1>1, <1>3, <1>12, InTurn DEF Advance
    <3> QED BY <1>12, <3>1 DEF Seen, Frag, frag
  <2>3. ~Terminating'
    BY <1>12 DEF Terminating
  <2>4. Now' = Step(Now, c)
    BY <1>9, <1>12, <2>1, <2>2, <2>3 DEF Now, Held
  <2> QED BY <1>1, <1>12, <2>3, <2>4, Turned DEF Faithful
<1> QED BY <1>2, <1>10, <1>11, <1>12

(* A run of text: on_text stops where the stream would do something else,  *)
(* and eats at least one byte, by induction over the bytes it eats.        *)
LEMMA TextAgrees ==
  ASSUME Inv, Faithful, TextRun, quirks' = {}
  PROVE  Faithful'
<1> DEFINE n == Len(bytes)
           stops == {i \in 1 .. Len(Text) : StopsText(Text, i)}
           first == CHOOSE i \in stops : \A j \in stops : i <= j
           eaten == IF stops = {} THEN Len(Text) ELSE first - 1
           calls == [i \in 1 .. eaten |-> Event("text", <<Text[i]>>)]
           O(k) == out \o SubSeq(calls, 1, k)
           T == {k \in 0 .. eaten :
                   Stream(At("NORMAL", <<>>, O(k)), SubSeq(bytes, pos + k, n)) = ref}
<1>1. /\ Turn /\ Ordinary /\ parser_state = "NORMAL" /\ strbuffer = <<>> /\ string_start = 0
      /\ bytes \in Seq(ByteClass) /\ n \in Nat /\ pos \in 1 .. n
      /\ c = bytes[pos] /\ c \in ByteClass
  BY InTurn DEF TextRun, Faithful
<1>2. /\ Text = SubSeq(bytes, pos, n) /\ Len(Text) = n - pos + 1
      /\ \A i \in 1 .. Len(Text) : Text[i] = bytes[pos + i - 1] /\ Text[i] \in ByteClass
  <2>1. Text = SubSeq(bytes, pos, n)
    BY <1>1 DEF Text, StringOf
  <2>2. \A i \in pos .. n : bytes[i] \in ByteClass
    BY <1>1, ElementOfSeq
  <2>3. /\ Len(SubSeq(bytes, pos, n)) = n - pos + 1
        /\ \A i \in 1 .. n - pos + 1 : SubSeq(bytes, pos, n)[i] = bytes[pos + i - 1]
    BY <1>1, <2>2, SubSeqProperties
  <2>4. \A i \in 1 .. n - pos + 1 : pos + i - 1 \in pos .. n
    BY <1>1
  <2> QED BY <2>1, <2>2, <2>3, <2>4
<1>3. stops \subseteq 2 .. Len(Text)
  <2>1. 1 \in 1 .. Len(Text) /\ Text[1] = c
    <3>1. 1 \in 1 .. Len(Text) /\ pos + 1 - 1 = pos
      BY <1>1, <1>2
    <3> QED BY <1>1, <1>2, <3>1
  <2>2. ~StopsText(Text, 1)
    BY <1>1, <2>1 DEF StopsText, Ordinary
  <2> QED BY <1>1, <1>2, <2>2
<1>4. /\ eaten \in 1 .. Len(Text)
      /\ \A i \in 1 .. eaten : ~StopsText(Text, i)
  <2>1. CASE stops = {}
    <3>1. eaten = Len(Text) /\ \A i \in 1 .. Len(Text) : ~StopsText(Text, i)
      BY <2>1, Zenon
    <3>2. Len(Text) \in 1 .. Len(Text)
      BY <1>1, <1>2
    <3> HIDE DEF eaten
    <3> QED BY <3>1, <3>2
  <2>2. CASE stops # {}
    <3>1. first \in stops /\ \A j \in stops : first <= j
      <4>1. stops \in SUBSET Nat
        OBVIOUS
      <4> HIDE DEF stops
      <4> QED BY <2>2, <4>1, LeastExists
    <3> HIDE DEF first
    <3>2. eaten = first - 1 /\ first \in 2 .. Len(Text)
      BY <1>3, <2>2, <3>1
    <3>3. \A i \in 1 .. first - 1 : i \notin stops /\ i \in 1 .. Len(Text)
      BY <1>1, <1>2, <3>1, <3>2
    <3> QED BY <1>1, <1>2, <3>2, <3>3
  <2> QED BY <2>1, <2>2
<1>5. /\ out' = out \o calls /\ strbuffer' = <<>> /\ pos' = pos + eaten /\ bytes' = bytes
      /\ parser_state' = "NORMAL" /\ string_start' = 0 /\ ref' = ref
      /\ \A i \in 1 .. eaten : Text[i] # "DEL"
  <2>1. /\ out' = out \o calls
        /\ quirks' = quirks \cup TooLong(SubSeq(bytes, pos, n))
               \cup (IF \E i \in 1 .. eaten : Text[i] = "DEL" THEN {"del"} ELSE {})
        /\ IF eaten > 0
           THEN strbuffer' = <<>> /\ pos' = pos + eaten /\ UNCHANGED bytes
           ELSE KeepRest
        /\ UNCHANGED <<parser_state, string_start, ref>>
    BY DEF TextRun
  <2> HIDE DEF eaten, calls
  <2>2. eaten > 0
    BY <1>4
  <2>3. \A i \in 1 .. eaten : Text[i] # "DEL"
    BY <2>1
  <2> QED BY <1>1, <2>1, <2>2, <2>3
<1> HIDE DEF eaten, stops, first, n
<1>6. /\ calls \in Seq(Call) /\ Len(calls) = eaten /\ eaten \in Nat
      /\ \A i \in 1 .. eaten : calls[i] = Event("text", <<Text[i]>>)
  <2>1. \A i \in 1 .. eaten : Text[i] \in ByteClass
    BY <1>1, <1>2, <1>4
  <2>2. \A i \in 1 .. eaten : Event("text", <<Text[i]>>) \in Call
    BY <2>1 DEF Event, Call, Kind
  <2>3. calls \in [1 .. eaten -> Call] /\ eaten \in Nat
    BY <1>4, <2>2
  <2>4. \A i \in 1 .. eaten : calls[i] = Event("text", <<Text[i]>>)
    OBVIOUS
  <2> HIDE DEF calls
  <2>5. calls \in Seq(Call) /\ Len(calls) = eaten
    BY <2>3, SeqDef
  <2> QED BY <2>3, <2>4, <2>5
<1> HIDE DEF calls
<1>7. out \in Seq(Call)
  BY DEF Inv, Progress
<1>8. Now = At("NORMAL", <<>>, out)
  BY <1>1 DEF Now, Held, Seen, Terminating
<1>9. 0 \in T
  <2>1. SubSeq(calls, 1, 0) = <<>>
    BY SubSeqEmpty
  <2>2. O(0) = out
    BY <1>7, <2>1, ConcatEmptySeq
  <2>3. Stream(At("NORMAL", <<>>, O(0)), SubSeq(bytes, pos + 0, n)) = ref
    <3>1. pos + 0 = pos
      BY <1>1
    <3>2. Stream(At("NORMAL", <<>>, out), SubSeq(bytes, pos, n)) = ref
      BY <1>8 DEF Faithful, Rest, n
    <3> HIDE DEF O
    <3> QED BY <2>2, <3>1, <3>2
  <2> HIDE DEF O
  <2> QED BY <1>6, <2>3
<1>10. ASSUME NEW k \in 0 .. eaten - 1, k \in T PROVE k + 1 \in T
  <2>1. /\ k + 1 \in 1 .. eaten /\ k + 1 \in 1 .. Len(Text) /\ pos + k \in 1 .. n
        /\ pos + (k + 1) - 1 = pos + k /\ (k + 1) - 1 = k /\ pos + (k + 1) = (pos + k) + 1
        /\ k \in 0 .. eaten /\ 1 \in 1 .. k + 1
    <3>1. /\ pos \in Nat \ {0} /\ n \in Nat /\ eaten \in Nat /\ Len(Text) = n - pos + 1
          /\ eaten <= Len(Text) /\ k \in Nat /\ k < eaten
      BY <1>1, <1>2, <1>4
    <3> QED BY <3>1
  <2> DEFINE b == bytes[pos + k]
  <2>2. b = Text[k + 1] /\ b \in Printing
    <3>1. b = Text[k + 1] /\ b \in ByteClass
      BY <1>2, <2>1
    <3>2. ~StopsText(Text, k + 1) /\ Text[k + 1] # "DEL"
      BY <1>4, <1>5, <2>1
    <3> QED BY <3>1, <3>2 DEF StopsText, Printing
  <2>3. O(k + 1) = Calling(O(k), "text", <<b>>)
    <3>1. out \o SubSeq(calls, 1, k + 1) = Append(out \o SubSeq(calls, 1, (k + 1) - 1), calls[k + 1])
      BY <1>6, <1>7, <2>1, OneMore
    <3>2. calls[k + 1] = Event("text", <<b>>)
      BY <1>6, <2>1, <2>2
    <3> QED BY <2>1, <3>1, <3>2 DEF Calling
  <2> DEFINE s == At("NORMAL", <<>>, O(k))
  <2>4. Step(s, b) = At("NORMAL", <<>>, O(k + 1))
    <3> HIDE DEF b, O, eaten
    <3>1. Step(s, b) = At("NORMAL", <<>>, Calling(O(k), "text", <<b>>))
      BY <2>2, StepText
    <3> QED BY <2>3, <3>1
  <2>5. Stream(s, SubSeq(bytes, pos + k, n)) = Stream(Step(s, b), SubSeq(bytes, (pos + k) + 1, n))
    <3> HIDE DEF s
    <3> QED BY <1>1, <2>1, StreamStep DEF n
  <2>6. Stream(s, SubSeq(bytes, pos + k, n)) = ref
    BY <1>10
  <2>7. Stream(At("NORMAL", <<>>, O(k + 1)), SubSeq(bytes, pos + (k + 1), n)) = ref
    <3> HIDE DEF O, b, s
    <3> QED BY <2>1, <2>4, <2>5, <2>6
  <2>8. k + 1 \in 0 .. eaten
    BY <1>6, <2>1
  <2> HIDE DEF O
  <2> QED BY <2>7, <2>8
<1>11. Stream(At("NORMAL", <<>>, O(eaten)), SubSeq(bytes, pos + eaten, n)) = ref
  <2> HIDE DEF T
  <2>1. \A k \in 0 .. eaten : k \in T
    BY <1>6, <1>9, <1>10, UpTo
  <2>2. eaten \in T
    BY <1>6, <2>1
  <2> QED BY <2>2 DEF T
<1>12. O(eaten) = out'
  BY <1>5, <1>6, SubSeqFull
<1> HIDE DEF T, O
<1>13. /\ Now' = At("NORMAL", <<>>, out')
       /\ Rest' = SubSeq(bytes, pos + eaten, n)
       /\ ~Terminating' /\ n = Len(bytes)
  BY <1>5 DEF Now, Held, Seen, Terminating, Rest, n
<1>14. pos' <= Len(bytes') + 1
  BY <1>1, <1>2, <1>4, <1>5, <1>13
<1>15. Stream(Now', Rest') = ref'
  BY <1>5, <1>11, <1>12, <1>13
<1> QED BY <1>5, <1>13, <1>14, <1>15 DEF Faithful

(* Between chunks there is nothing left to read.                           *)
LEMMA AtRest ==
  ASSUME Inv, Idle
  PROVE  Seen = strbuffer /\ (Faithful => Now = ref)
<1>1. string_start = 0 /\ bytes = <<>>
  BY DEF Inv, Progress, Started, Idle
<1>2. Seen = strbuffer
  BY <1>1 DEF Seen
<1>3. Len(bytes) = 0 /\ pos \in Nat \ {0}
  BY <1>1, EmptySeq DEF Inv, Input
<1>4. Rest = <<>>
  BY <1>3, SubSeqEmpty DEF Rest
<1> QED BY <1>2, <1>4, StreamEnd DEF Faithful

LEMMA PauseAgrees ==
  ASSUME Inv, Faithful, Pause, quirks' = {}
  PROVE  Faithful'
<1>1. /\ bytes' = <<>> /\ pos' = 1 /\ string_start' = 0
      /\ UNCHANGED <<parser_state, out, ref>> /\ ~Idle /\ ~Turn
  BY DEF Pause
<1>2. Len(bytes) \in Nat /\ pos \in Nat /\ pos = Len(bytes) + 1
  BY <1>1, LenProperties DEF Inv, Input, Faithful, Turn
<1>3. strbuffer \in Seq(ByteClass)
  BY DEF Inv, Progress, Buffered
<1>4. Seen' = strbuffer'
  BY <1>1 DEF Seen
<1>5. strbuffer' = Seen
  <2>1. CASE string_start = 0
    BY <2>1 DEF Pause, OpenAtEnd, Seen
  <2>2. CASE string_start # 0 /\ string_start <= Len(bytes)
    <3>1. strbuffer' = Appended(Frag(Len(bytes))) /\ Overfull(Frag(Len(bytes))) = {}
      BY <2>2 DEF Pause, OpenAtEnd
    <3>2. Frag(Len(bytes)) \in Seq(ByteClass)
      <4>1. string_start \in Nat \ {0}
        BY <1>1, <2>2 DEF Inv, Progress, Started
      <4> QED BY <1>2, <4>1, FragBytes DEF Inv
    <3>3. strbuffer' = strbuffer \o Frag(Len(bytes))
      BY <1>3, <3>1, <3>2, Whole
    <3> QED BY <1>2, <2>2, <3>3 DEF Seen
  <2>3. CASE string_start # 0 /\ ~(string_start <= Len(bytes))
    <3>1. string_start = pos
      BY <1>1, <1>2, <2>3 DEF Inv, Progress, Started
    <3>2. Frag(pos - 1) = <<>>
      BY <1>2, <3>1, SubSeqEmpty DEF Frag
    <3>3. Seen = strbuffer
      BY <1>3, <2>3, <3>2, ConcatEmptySeq DEF Seen
    <3> QED BY <2>3, <3>3 DEF Pause, OpenAtEnd
  <2> QED BY <2>1, <2>2, <2>3
<1>6. Now' = Now /\ (Terminating' <=> Terminating)
  BY <1>1, <1>4, <1>5 DEF Now, Held, Terminating
<1>7. Rest = <<>> /\ Rest' = <<>> /\ pos' <= Len(bytes') + 1
  <2>1. Rest = <<>>
    BY <1>2, SubSeqEmpty DEF Rest
  <2>2. Len(bytes') = 0
    BY <1>1, EmptySeq
  <2> QED BY <1>1, <2>1, <2>2, SubSeqEmpty DEF Rest
<1>8. parser_state = "NORMAL" => strbuffer' = <<>>
  <2>1. parser_state = "NORMAL" => strbuffer = <<>> /\ string_start = 0
    BY <1>1 DEF Faithful, Inv, Progress, Started
  <2> QED BY <1>5, <2>1 DEF Seen
<1> QED BY <1>1, <1>4, <1>5, <1>6, <1>7, <1>8 DEF Faithful

LEMMA PushAgrees ==
  ASSUME Inv, Faithful, NEW n \in 1 .. MaxChunk, NEW chunk \in [1 .. n -> host.bytes],
         vterm_push_bytes(chunk)
  PROVE  Faithful'
<1>1. /\ bytes' = chunk /\ pos' = 1 /\ UNCHANGED <<parser_state, strbuffer>>
      /\ string_start' = IF parser_state = "NORMAL" THEN 0 ELSE 1
      /\ out' = IF out = ref.out THEN <<>> ELSE out
      /\ ref' = Stream(IF out = ref.out THEN [ref EXCEPT !.out = <<>>] ELSE ref, chunk)
      /\ Idle
  BY DEF vterm_push_bytes
<1>2. Now = ref /\ Seen = strbuffer
  BY <1>1, AtRest
<1>3. strbuffer \in Seq(ByteClass) /\ chunk \in Seq(host.bytes) /\ Len(chunk) = n
  BY ParserAssumption DEF Inv, Progress, Buffered
<1>4. Seen' = Seen
  <2>1. CASE parser_state = "NORMAL"
    BY <1>1, <1>2, <2>1 DEF Seen
  <2>2. CASE parser_state # "NORMAL"
    <3>1. Seen' = strbuffer \o SubSeq(chunk, 1, 0)
      BY <1>1, <2>2 DEF Seen, Frag
    <3>2. SubSeq(chunk, 1, 0) = <<>>
      BY SubSeqEmpty
    <3> QED BY <1>2, <1>3, <3>1, <3>2, ConcatEmptySeq
  <2> QED BY <2>1, <2>2
<1>5. Held' = Held /\ (Terminating' <=> Terminating)
  BY <1>1, <1>4 DEF Held, Terminating
<1>6. out = ref.out
  BY <1>2, AtFields DEF Now
<1>7. Now' = [ref EXCEPT !.out = <<>>]
  <2>1. Now' = At(parser_state, Held, <<>>)
    BY <1>1, <1>5, <1>6 DEF Now
  <2>2. ref = At(parser_state, Held, out)
    BY <1>2 DEF Now
  <2>3. [At(parser_state, Held, out) EXCEPT !.out = <<>>] = At(parser_state, Held, <<>>)
    BY DEF At
  <2> QED BY <2>1, <2>2, <2>3
<1>8. Rest' = chunk
  <2>1. SubSeq(chunk, 1, Len(chunk)) = chunk
    BY <1>3, SubSeqFull
  <2> QED BY <1>1, <2>1 DEF Rest
<1>9. Stream(Now', Rest') = ref'
  BY <1>1, <1>6, <1>7, <1>8
<1>10. pos' <= Len(bytes') + 1
  BY <1>1, <1>3
<1> QED BY <1>1, <1>4, <1>5, <1>9, <1>10 DEF Faithful

(* A deviation that has occurred stays on record.                          *)
LEMMA QuirksGrow == ASSUME [Next]_vars PROVE quirks \subseteq quirks'
<1>1. Ignored \/ Control => quirks \subseteq quirks'
  BY DEF Ignored, Control, Split
<1>2. Cancel \/ Escape \/ CSIByte \/ StringByte \/ StringTerminator => quirks \subseteq quirks'
  BY DEF Cancel, Escape, CSIByte, StringByte, StringTerminator, Deliver
<1>3. EscapeByte \/ TextRun \/ Pause => quirks \subseteq quirks'
  BY DEF EscapeByte, TextRun, Pause, Deliver
<1>4. (\E chunk : vterm_push_bytes(chunk)) => quirks \subseteq quirks'
  BY DEF vterm_push_bytes
<1> QED BY <1>1, <1>2, <1>3, <1>4 DEF Next, Loop, vars

LEMMA InitAgree == Init => Agree
<1> SUFFICES ASSUME Init PROVE Faithful
  BY DEF Agree
<1>1. Seen = <<>> /\ ~Terminating
  BY DEF Init, Seen, Terminating
<1>2. Now = Start
  BY <1>1 DEF Init, Now, Held, At, Start
<1>3. Rest = <<>> /\ pos <= Len(bytes) + 1
  BY EmptySeq, SubSeqEmpty DEF Init, Rest
<1>4. Stream(Now, Rest) = ref
  BY <1>2, <1>3, StreamEnd DEF Init
<1> QED BY <1>1, <1>3, <1>4 DEF Init, Faithful

LEMMA StepAgree == ASSUME Inv, Agree, [Next]_vars PROVE Agree'
<1> SUFFICES ASSUME quirks' = {} PROVE Faithful'
  BY DEF Agree
<1>1. quirks = {} /\ Faithful
  BY QuirksGrow DEF Agree
<1>2. CASE UNCHANGED vars
  BY <1>1, <1>2 DEF vars, Faithful, Seen, Held, Terminating, Now, Rest, Frag
<1>3. CASE Loop
  BY <1>1, <1>3, IgnoredAgrees, CancelAgrees, EscapeAgrees, ControlAgrees, TerminatorAgrees,
     EscapeByteAgrees, CSIAgrees, StringAgrees, TextAgrees, PauseAgrees DEF Loop
<1>4. ASSUME NEW n \in 1 .. MaxChunk, NEW chunk \in [1 .. n -> host.bytes],
             vterm_push_bytes(chunk)
      PROVE  Faithful'
  BY <1>1, <1>4, PushAgrees
<1> QED BY <1>2, <1>3, <1>4 DEF Next

-----------------------------------------------------------------------------
(* Without the named deviations, however the stream is cut into chunks,    *)
(* the parser makes the calls and reaches the state of the stream read     *)
(* byte by byte (vterm_push_bytes and do_string).                          *)
THEOREM ChunksDoNotMatter == Spec => []ChunkingInvisible
<1>1. Inv /\ Agree => ChunkingInvisible
  <2> SUFFICES ASSUME Inv, Agree, Idle, quirks = {} PROVE parser_state = ref.state /\ out = ref.out
    BY DEF ChunkingInvisible, AgreesExcept
  <2>1. Now = ref
    BY AtRest DEF Agree
  <2> QED BY <2>1, AtFields DEF Now
<1>2. Inv /\ Agree /\ [Next]_vars => (Inv /\ Agree)'
  BY StepInv, StepAgree
<1>3. Init => Inv /\ Agree
  BY InitInv, InitAgree
<1> QED BY <1>1, <1>2, <1>3, PTL DEF Spec

(* Between two chunks strbuffer holds the open sequence and nothing else   *)
(* (the pause label of vterm_push_bytes).                                  *)
THEOREM BufferHoldsSequence == Spec => []OpenSequenceKept
<1>1. Inv /\ Agree => OpenSequenceKept
  <2> SUFFICES ASSUME Inv, Agree, Idle, quirks = {}
               PROVE  strbuffer = IF ref.state \in {"ESC_IN_OSC", "ESC_IN_DCS"}
                                  THEN Append(ref.str, "ESC") ELSE ref.str
    BY DEF OpenSequenceKept
  <2>1. Now = ref /\ Seen = strbuffer /\ Faithful
    BY AtRest DEF Agree
  <2>2. ref.state = parser_state /\ ref.str = Held
    BY <2>1, AtFields DEF Now
  <2>3. CASE ~Terminating
    BY <2>1, <2>2, <2>3 DEF Held, Terminating
  <2>4. CASE Terminating
    <3>1. strbuffer \in Seq(ByteClass) /\ Len(strbuffer) \in Nat /\ strbuffer # <<>>
      BY <2>1, <2>4, LenProperties DEF Inv, Progress, Buffered, Faithful
    <3>2. Len(strbuffer) \in 1 .. Len(strbuffer)
      <4> DEFINE l == Len(strbuffer)
      <4>1. l \in Nat /\ l # 0
        BY <3>1, EmptySeq
      <4> HIDE DEF l
      <4>2. l \in 1 .. l
        BY <4>1, SMTT(40)
      <4> QED BY <4>2 DEF l
    <3> DEFINE n == Len(strbuffer)
               front == SubSeq(strbuffer, 1, n - 1)
    <3>3. strbuffer = Append(front, strbuffer[n])
      <4>1. 1 \in 1 .. n
        BY <3>1, <3>2
      <4>2. <<>> \o SubSeq(strbuffer, 1, n) = Append(<<>> \o front, strbuffer[n])
        <5> DEFINE none == <<>>
        <5>1. none \in Seq(ByteClass)
          BY EmptySeq
        <5> HIDE DEF none
        <5>2. none \o SubSeq(strbuffer, 1, n) = Append(none \o SubSeq(strbuffer, 1, n - 1), strbuffer[n])
          BY <3>1, <3>2, <4>1, <5>1, OneMore
        <5> QED BY <5>2 DEF none
      <4>3. SubSeq(strbuffer, 1, n) = strbuffer
        BY <3>1, SubSeqFull
      <4>4. front \in Seq(ByteClass)
        BY <3>1, PartOf
      <4> HIDE DEF front
      <4> QED BY <3>1, <4>2, <4>3, <4>4, ConcatEmptySeq
    <3>4. strbuffer[n] = "ESC" /\ Held = front
      BY <2>1, <2>4 DEF Faithful, Held
    <3> QED BY <2>2, <2>4, <3>3, <3>4 DEF Terminating
  <2> QED BY <2>3, <2>4
<1>2. Inv /\ Agree /\ [Next]_vars => (Inv /\ Agree)'
  BY StepInv, StepAgree
<1>3. Init => Inv /\ Agree
  BY InitInv, InitAgree
<1> QED BY <1>1, <1>2, <1>3, PTL DEF Spec
=============================================================================
