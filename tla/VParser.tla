------------------------------ MODULE VParser ------------------------------
(***************************************************************************)
(* libvterm's byte parser (libvterm/src/parser.c) as hterm runs it: UTF-8  *)
(* mode, the state's callbacks, console_poll handing vterm_push_bytes      *)
(* whatever the connection had to read.  The parser scans a chunk in       *)
(* place; only when a sequence continues in the next chunk, or a control   *)
(* interrupts it, does it copy what it has into strbuffer.                 *)
(*                                                                         *)
(* One step is one turn of the loop of vterm_push_bytes.  Positions count  *)
(* from 1; string_start = 0 is the null pointer.                           *)
(***************************************************************************)
EXTENDS VTStream, FiniteSets

CONSTANTS
  Hosts,         \* what hosts send: [bytes: a set of byte classes,
                 \* length: bound on the whole stream]
  MaxChunk,      \* bound: the length of one chunk (10240 in console_poll)
  StrbufferLen   \* strbuffer_len (1024000 in the code)

ASSUME ParserAssumption ==
  /\ \A h \in Hosts : h.bytes \subseteq ByteClass /\ h.length \in Nat
  /\ MaxChunk \in Nat \ {0}
  /\ StrbufferLen \in Nat \ {0}

VARIABLES
  host,                       \* external: the one this stream comes from
  parser_state, strbuffer,
  bytes, pos, string_start,   \* the chunk vterm_push_bytes works on
  out,                        \* ghost: the callbacks made so far; those
                              \* that agree with ref's are forgotten
  ref,                        \* ghost: the same stream without chunks
  quirks,                     \* ghost: the deviations that have happened
  received                    \* ghost: the bytes received

vars == <<host, parser_state, strbuffer, bytes, pos, string_start, out, ref, quirks,
          received>>

(* The rest of a string the parser could not have read: what lies behind   *)
(* the chunk in console_poll's buffer.                                     *)
Junk == "junk"

Idle == bytes = <<>>

Init ==
  /\ host \in Hosts
  /\ parser_state = "NORMAL"
  /\ strbuffer = <<>>
  /\ bytes = <<>>
  /\ pos = 1
  /\ string_start = 0
  /\ out = <<>>
  /\ ref = Start
  /\ quirks = {}
  /\ received = 0

-----------------------------------------------------------------------------
(* Helpers.                                                                *)

Frag(last) == SubSeq(bytes, string_start, last)

(* append_strbuffer: what does not fit is dropped.                         *)
Capped_Overrun(str) == str
Capped(str) == IF Len(str) > StrbufferLen THEN SubSeq(str, 1, StrbufferLen) ELSE str
Appended(str) == Capped(strbuffer \o str)

Overfull(str) ==
  IF Len(strbuffer \o str) > StrbufferLen THEN {"full"} ELSE {}

(* A sequence given up while strbuffer holds its beginning: ENTER_NORMAL_  *)
(* STATE and ENTER_STRING_STATE leave strbuffer as it is.                  *)
Dropped == IF strbuffer = <<>> THEN {} ELSE {"cancel"}

(* do_string's view of its argument: the fragment, behind the strbuffer    *)
(* when that holds something.                                              *)
StringOf(frag) == IF strbuffer = <<>> THEN frag ELSE Appended(frag)
TooLong(frag) == IF strbuffer = <<>> THEN {} ELSE Overfull(frag)

(* The parser hands a string to a callback and returns to NORMAL. *)
Deliver(kind, frag, deviation) ==
  /\ out' = Append(out, Event(kind, StringOf(frag)))
  /\ quirks' = quirks \cup TooLong(frag) \cup deviation
  /\ strbuffer' = <<>>
  /\ parser_state' = "NORMAL"
  /\ string_start' = 0

Turn == pos <= Len(bytes)
c == bytes[pos]

(* The bytes that reach the switch on the parser's state.                  *)
Ordinary ==
  \/ c \notin {"NUL", "DEL", "CAN", "ESC", "BEL", "C0"}
  \/ c = "BEL" /\ parser_state \in {"OSC", "DCS"}

Advance == pos' = pos + 1 /\ UNCHANGED <<bytes, ref, received>>

(* A byte that is no part of the open sequence splits its bytes in two: the *)
(* first part is copied.                                                   *)
Split_KeepsStart ==
  IF parser_state = "NORMAL" THEN UNCHANGED <<strbuffer, string_start, quirks>>
  ELSE /\ strbuffer' = Appended(Frag(pos - 1))
       /\ quirks' = quirks \cup Overfull(Frag(pos - 1))
       /\ string_start' = pos
Split ==
  IF parser_state = "NORMAL" THEN UNCHANGED <<strbuffer, string_start, quirks>>
  ELSE /\ strbuffer' = Appended(Frag(pos - 1))
       /\ quirks' = quirks \cup Overfull(Frag(pos - 1))
       /\ string_start' = pos + 1

-----------------------------------------------------------------------------
(* A chunk arrives.                                                        *)

vterm_push_bytes(chunk) ==
  /\ Idle
  /\ bytes' = chunk
  /\ pos' = 1
  /\ string_start' = IF parser_state = "NORMAL" THEN 0 ELSE 1
  /\ out' = IF out = ref.out THEN <<>> ELSE out
  /\ ref' = Stream(IF out = ref.out THEN [ref EXCEPT !.out = <<>>] ELSE ref, chunk)
  /\ received' = received + Len(chunk)
  /\ UNCHANGED <<host, parser_state, strbuffer, quirks>>

(* NUL and DEL are skipped; in a string they split the fragment.           *)
Ignored ==
  /\ Turn /\ c \in {"NUL", "DEL"}
  /\ Split
  /\ Advance
  /\ UNCHANGED <<parser_state, out>>

Cancel ==
  /\ Turn /\ c = "CAN"
  /\ parser_state' = "NORMAL"
  /\ string_start' = 0
  /\ quirks' = quirks \cup Dropped
  /\ Advance
  /\ UNCHANGED <<strbuffer, out>>

(* ESC may begin the terminator of an OSC or DCS string, whose fragment    *)
(* stays as it is; anywhere else it starts an escape sequence.             *)
Escape ==
  /\ Turn /\ c = "ESC"
  /\ IF parser_state \in {"OSC", "DCS"}
     THEN /\ parser_state' = IF parser_state = "OSC" THEN "ESC_IN_OSC"
                                                     ELSE "ESC_IN_DCS"
          /\ UNCHANGED <<string_start, quirks>>
     ELSE /\ parser_state' = "ESC"
          /\ string_start' = pos + 1
          /\ quirks' = quirks \cup Dropped
  /\ Advance
  /\ UNCHANGED <<strbuffer, out>>

(* A control is executed at once, also within a sequence.                  *)
Control ==
  /\ Turn /\ (c = "C0" \/ c = "BEL") /\ ~Ordinary
  /\ out' = Append(out, Event("control", <<c>>))
  /\ Split
  /\ Advance
  /\ UNCHANGED parser_state

(* Where the fragment of a terminated string ends: before the ESC. *)
StringEnd == pos - 2

(* The second byte of the 7-bit terminator.  The fragment ends before the  *)
(* ESC; when that lies in another chunk, or before a byte that split the   *)
(* fragment, its length is -1, which append_strbuffer takes for a huge     *)
(* one: it copies the chunk up to a NUL and fills the whole strbuffer.     *)
StringTerminator ==
  /\ Turn /\ c = "ST" /\ parser_state \in {"ESC_IN_OSC", "ESC_IN_DCS"}
  /\ LET len  == pos - string_start - 1
         nuls == {i \in string_start .. Len(bytes) : bytes[i] = "NUL"}
         rest == IF nuls = {} THEN Append(Frag(Len(bytes)), Junk)
                 ELSE Append(Frag((CHOOSE i \in nuls : \A j \in nuls : i <= j) - 1), Junk)
     IN  IF len >= 0 THEN Deliver(StringKind(parser_state), Frag(StringEnd), {})
                     ELSE Deliver(StringKind(parser_state), rest, {"st"})
  /\ Advance

(* A byte of an escape sequence, or the one that shows that the ESC within *)
(* an OSC or DCS string was not the terminator: the string is given up.    *)
EscapeByte ==
  /\ Turn /\ Ordinary
  /\ \/ parser_state = "ESC"
     \/ parser_state \in {"ESC_IN_OSC", "ESC_IN_DCS"} /\ c # "ST"
  /\ LET given_up == parser_state # "ESC"
         start == IF given_up THEN pos ELSE string_start
         drop == IF given_up THEN Dropped ELSE {}
         frag == SubSeq(bytes, start, pos)
         kind == IF StringOf(frag) = <<"ST">> THEN "control" ELSE "escape"
     IN  \/ /\ c \in Introducer
            /\ parser_state' = Intro(c)
            /\ string_start' = pos + 1
            /\ quirks' = quirks \cup (IF given_up THEN drop ELSE Dropped)
            /\ UNCHANGED <<strbuffer, out>>
         \/ /\ c \in {"param", "final", "ST"}
            /\ Deliver(kind, frag, drop)
         \/ /\ c \in {"inter", "high"}
            /\ parser_state' = "ESC"
            /\ string_start' = start
            /\ quirks' = quirks \cup drop
            /\ UNCHANGED <<strbuffer, out>>
  /\ Advance

CSIByte ==
  /\ Turn /\ Ordinary /\ parser_state = "CSI"
  /\ IF c \in CSIFinal THEN Deliver("csi", Frag(pos), {})
     ELSE UNCHANGED <<parser_state, strbuffer, string_start, out, quirks>>
  /\ Advance

StringByte ==
  /\ Turn /\ Ordinary /\ parser_state \in {"OSC", "DCS"}
  /\ IF c = "BEL"
     THEN Deliver(StringKind(parser_state), Frag(pos - 1), {})
     ELSE UNCHANGED <<parser_state, strbuffer, string_start, out, quirks>>
  /\ Advance

(* Text goes to the state's on_text, which eats up to the next control, or *)
(* up to the next high byte when it began with an ASCII one.  What         *)
(* strbuffer still holds of a sequence that was given up comes first, and  *)
(* counts as eaten.  If nothing is eaten the rest of the chunk is kept.    *)
Text == StringOf(SubSeq(bytes, pos, Len(bytes)))

StopsText(str, i) ==
  \/ str[i] \in {"NUL", "CAN", "ESC", "BEL", "C0"}
  \/ str[i] = "high" /\ str[1] # "high"

KeepRest_Retry == UNCHANGED <<strbuffer, bytes, pos>>
KeepRest ==
  /\ strbuffer' = Capped(SubSeq(bytes, pos, Len(bytes)))
  /\ bytes' = <<>>
  /\ pos' = 1

TextRun ==
  /\ Turn /\ Ordinary /\ parser_state = "NORMAL"
  /\ LET stops == {i \in 1 .. Len(Text) : StopsText(Text, i)}
         eaten == IF stops = {} THEN Len(Text)
                  ELSE (CHOOSE i \in stops : \A j \in stops : i <= j) - 1
     IN  /\ out' = out \o [i \in 1 .. eaten |-> Event("text", <<Text[i]>>)]
         /\ quirks' = quirks \cup TooLong(SubSeq(bytes, pos, Len(bytes)))
                \cup (IF \E i \in 1 .. eaten : Text[i] = "DEL" THEN {"del"} ELSE {})
         /\ IF eaten > 0
            THEN /\ strbuffer' = <<>>
                 /\ pos' = pos + eaten
                 /\ UNCHANGED bytes
            ELSE KeepRest
  /\ UNCHANGED <<parser_state, string_start, ref, received>>

(* The end of the chunk: an open sequence is kept in strbuffer. *)
OpenAtEnd_LosesLast == string_start # 0 /\ string_start < Len(bytes)
OpenAtEnd == string_start # 0 /\ string_start <= Len(bytes)

Pause ==
  /\ ~Idle /\ ~Turn
  /\ IF ~OpenAtEnd THEN UNCHANGED <<strbuffer, quirks>>
     ELSE /\ strbuffer' = Appended(Frag(Len(bytes)))
          /\ quirks' = quirks \cup Overfull(Frag(Len(bytes)))
  /\ bytes' = <<>>
  /\ pos' = 1
  /\ string_start' = 0
  /\ UNCHANGED <<parser_state, out, ref, received>>

Loop ==
  /\ \/ Ignored \/ Cancel \/ Escape \/ Control \/ StringTerminator
     \/ EscapeByte \/ CSIByte \/ StringByte \/ TextRun \/ Pause
  /\ UNCHANGED host

(* c_read hands over at least one byte. *)
Next ==
  \/ Loop
  \/ \E n \in 1 .. MaxChunk :
       /\ received + n <= host.length
       /\ \E chunk \in [1 .. n -> host.bytes] : vterm_push_bytes(chunk)

(* vterm_push_bytes is called in the main loop and runs to its end; that   *)
(* the host sends more is not assumed.                                     *)
Spec == Init /\ [][Next]_vars /\ WF_vars(Loop)

-----------------------------------------------------------------------------
(* Properties.                                                             *)

(* Type correctness; the buffer never holds more than it can               *)
(* (append_strbuffer), and a sequence that is open in the middle of a      *)
(* chunk begins in it, at or before the byte being looked at               *)
(* (vterm_push_bytes).                                                     *)
TypeOK ==
  /\ host \in Hosts
  /\ parser_state \in ParserState
  /\ Range(strbuffer) \subseteq ByteClass /\ Len(strbuffer) <= StrbufferLen
  /\ Range(bytes) \subseteq host.bytes /\ Len(bytes) <= MaxChunk
  /\ pos \in Nat \ {0}
  /\ IF Idle \/ parser_state = "NORMAL" THEN string_start = 0
     ELSE string_start \in 1 .. pos
  /\ \A i \in 1 .. Len(out) : out[i].kind \in
       {"text", "control", "escape", "csi", "osc", "dcs"}
  /\ quirks \subseteq {"full", "cancel", "st", "del"}
  /\ received \in 0 .. host.length

(* Where the host's bytes are cut into chunks makes no difference, unless  *)
(* one of the named deviations occurs: the callbacks made, with their      *)
(* bytes, are those of the stream read byte by byte (vterm_push_bytes and  *)
(* do_string together).                                                    *)
AgreesExcept(allowed) ==
  Idle /\ quirks \subseteq allowed =>
    parser_state = ref.state /\ out = ref.out
ChunkingInvisible == AgreesExcept({})

(* Between two chunks strbuffer holds exactly the bytes of the sequence    *)
(* that is open (the pause label of vterm_push_bytes), and none when none  *)
(* is; of a terminator the first half is copied with them.                 *)
OpenSequenceKept ==
  Idle /\ quirks = {} =>
    strbuffer = IF ref.state \in {"ESC_IN_OSC", "ESC_IN_DCS"}
                THEN Append(ref.str, "ESC") ELSE ref.str

(* A call of vterm_push_bytes returns: no byte, and no remainder of an     *)
(* abandoned sequence in front of it, keeps the loop from advancing.       *)
PushReturns == ~Idle ~> Idle

(* t/02parser.test, "!CAN cancels CSI, returns to normal mode" and         *)
(* "!Escape cancels CSI, starts Escape": cancelling leaves nothing behind. *)
CancelLeavesNothing == AgreesExcept({"cancel"})

(* t/02parser.test, "!OSC ST (7bit)": ESC backslash ends the string, whose *)
(* bytes are those before it.                                              *)
TerminatorEndsString == AgreesExcept({"st"})
=============================================================================
