----------------------------- MODULE InlineData -----------------------------
(***************************************************************************)
(* Inline images (inlinedata.c, base64.c): the host writes the name        *)
(* HTERMFILEXFER and a PNG in base64 into the text of the terminal.        *)
(* text_handler of main.c hands every run of text to inline_data_receive,  *)
(* which searches what it has been given for the name, and from then on    *)
(* decodes text and feeds it to libpng, until that has the whole image.    *)
(*                                                                         *)
(* One step is one run of text or one sequence that clears.  Names are     *)
(* three letters long: "h" "f" for HTERMF, then "i" (ILEXFER), "n"         *)
(* (NORMAL) or "d" (DOUBLE).  A letter's six bits are named, not valued.   *)
(* libpng is external: it may have the whole image, or find an error,      *)
(* whenever it is fed.  What it draws, and FirstBlock, the 4096 bytes the  *)
(* first decoding has room for, are left out.                              *)
(***************************************************************************)
EXTENDS Integers, Sequences, SequencesExt, FiniteSets, FiniteSetsExt

CONSTANTS
  MaxWords,     \* bound: the words the host writes
  MaxRun,       \* bound: the length of a run (10240 in console_poll)
  BufferSize    \* BUFFERSIZE (10241 in the code)

inline_magic == <<"h", "f", "i">>
FontName == [normal |-> <<"h", "f", "n">>, double |-> <<"h", "f", "d">>]

base64alphabet == {"h", "f", "i", "n", "d"}
Symbol == base64alphabet \cup {" ", "=", "-"}

(* What the host writes: the names, base64, blanks, padding and characters *)
(* that are not base64, in any order.                                      *)
Word ==
  {inline_magic, FontName.normal, FontName.double,
   <<"h">>, <<"f", "f">>, <<" ">>, <<"=">>, <<"-">>}

(* A name fits the buffer, and so does what console_poll reads.            *)
ASSUME InlineDataAssumption ==
  /\ MaxWords \in Nat /\ MaxRun \in Nat \ {0} /\ BufferSize \in Nat
  /\ MaxRun <= BufferSize /\ Len(inline_magic) <= BufferSize

VARIABLES
  processing_png, file_end,
  Gpng_ptr,      \* libpng's reader exists
  buffer,        \* the text that is searched
  base64_bits,   \* the bits of the byte that is being put together
  font,          \* nunifont_size
  script,        \* the host: what it has not sent yet
  heard,         \* ghost: the text since an image or a clear, all of it
  asked,         \* ghost: the last font named in heard
  image,         \* ghost: the text since the name of the current image
  fed,           \* ghost: the bytes libpng was fed of it
  orphans,       \* ghost: readers that nothing points to any more
  failures,      \* ghost: transfers given up because of a wrong character
  quirks         \* ghost: what has been met that text is lost on

reader == <<Gpng_ptr, fed>>
ghosts == <<heard, asked, image, orphans, failures, quirks>>
vars == <<processing_png, file_end, reader, buffer, base64_bits, font, script, ghosts>>

Init ==
  /\ processing_png = FALSE /\ file_end = FALSE /\ Gpng_ptr = FALSE
  /\ buffer = <<>> /\ base64_bits = <<>>
  /\ font = "normal"
  /\ \E words \in [1 .. MaxWords -> Word] : script = FlattenSeq(words)
  /\ heard = <<>> /\ asked = "normal"
  /\ image = <<>> /\ fed = <<>>
  /\ orphans = 0 /\ failures = 0
  /\ quirks = {}

-----------------------------------------------------------------------------
(* base64_decode: blanks are skipped; padding, or a character that is none *)
(* of the alphabet, throws away the bits so far and the rest of the run.   *)

Bits(letter) == [i \in 1 .. 6 |-> <<letter, i>>]

DecodeSymbol(d, symbol) ==
  IF d.stopped \/ symbol = " " THEN d
  ELSE IF symbol \notin base64alphabet
  THEN [d EXCEPT !.stopped = TRUE, !.failflag = (symbol # "="), !.bits = <<>>]
  ELSE LET bits == d.bits \o Bits(symbol)
       IN  IF Len(bits) < 8 THEN [d EXCEPT !.bits = bits]
           ELSE [d EXCEPT !.output = Append(@, SubSeq(bits, 1, 8)),
                          !.bits = SubSeq(bits, 9, Len(bits))]

Undecoded(bits) ==
  [bits |-> bits, output |-> <<>>, stopped |-> FALSE, failflag |-> FALSE]

base64_decode_FromTheStart(bits, run) ==
  LET d[n \in 0 .. Len(run)] ==
        IF n = 0 THEN Undecoded(<<>>) ELSE DecodeSymbol(d[n - 1], run[n])
  IN  d[Len(run)]
base64_decode(bits, run) ==
  LET d[n \in 0 .. Len(run)] ==
        IF n = 0 THEN Undecoded(bits) ELSE DecodeSymbol(d[n - 1], run[n])
  IN  d[Len(run)]

(* inlinepng_process_data, when there is something: without a reader the   *)
(* transfer is over; libpng may go on, have the whole image (end_callback) *)
(* or report an error, which destroys the reader and nothing else.         *)
inlinepng_process_data_KeepsReader(live, data) ==
  IF data = <<>> THEN {[live |-> live, ended |-> FALSE]}
  ELSE IF ~live THEN {[live |-> FALSE, ended |-> TRUE]}
  ELSE {[live |-> TRUE, ended |-> FALSE], [live |-> TRUE, ended |-> TRUE],
        [live |-> FALSE, ended |-> FALSE]}
inlinepng_process_data(live, data) ==
  IF data = <<>> THEN {[live |-> live, ended |-> FALSE]}
  ELSE IF ~live THEN {[live |-> FALSE, ended |-> TRUE]}
  ELSE {[live |-> TRUE, ended |-> FALSE], [live |-> FALSE, ended |-> TRUE],
        [live |-> FALSE, ended |-> FALSE]}

-----------------------------------------------------------------------------
(* The search.                                                             *)

(* buffer_push: the newest BufferSize characters. *)
buffer_push_Unbounded(run) == buffer \o run
buffer_push_KeepsOldest(run) ==
  SubSeq(buffer \o run, 1, Min({BufferSize, Len(buffer \o run)}))
buffer_push(run) ==
  LET all == buffer \o run
  IN  IF Len(all) <= BufferSize THEN all
      ELSE SubSeq(all, Len(all) - BufferSize + 1, Len(all))

(* buffer_search: where name begins, counted from 0; at the very end of    *)
(* the text it is not seen yet.                                            *)
Found(name, text) ==
  {n \in 0 .. Len(text) - Len(name) - 1 : SubSeq(text, n + 1, n + Len(name)) = name}

(* buffer_search returns the first place only, and place 0 does not count  *)
(* for a font: a name at the start of the buffer hides a later one.        *)
Obeyed(name, text) == Found(name, text) # {} /\ 0 \notin Found(name, text)

(* The commands for the font stay in the buffer and are obeyed again with  *)
(* every run, DOUBLE after NORMAL.                                         *)
FontAfter_NeverBack(text) ==
  IF Obeyed(FontName.double, text) THEN "double" ELSE font
FontAfter(text) ==
  IF Obeyed(FontName.double, text) THEN "double"
  ELSE IF Obeyed(FontName.normal, text) THEN "normal" ELSE font

(* Ghosts: the last font named, and what the search does not see.          *)
Named(text) == {f \in {"normal", "double"} : Found(FontName[f], text) # {}}
LastNamed(text) ==
  IF Named(text) = {} THEN asked
  ELSE CHOOSE f \in Named(text) : \A g \in Named(text) :
         Max(Found(FontName[f], text)) >= Max(Found(FontName[g], text))

(* Whether a run pushes the beginning of a name out of the buffer together *)
(* with the text in front of it.                                           *)
PushesOut(run) ==
  \E name \in {inline_magic, FontName.normal, FontName.double} :
    \E k \in 1 .. Min({Len(name), Len(buffer)}) :
      /\ k + Len(run) > BufferSize
      /\ SubSeq(buffer, Len(buffer) - k + 1, Len(buffer)) = SubSeq(name, 1, k)

Unseen(run) ==
  LET text == buffer_push(run)
  IN  (IF \E f \in Named(text) : 0 \in Found(FontName[f], text) THEN {"first"} ELSE {}) \cup
      (IF Cardinality(Named(text)) > 1 THEN {"both"} ELSE {}) \cup
      (IF PushesOut(run) THEN {"shifted"} ELSE {})

-----------------------------------------------------------------------------
(* inline_data_receive, with no image on its way: a run that completes the *)
(* name starts one, with the rest of the buffer as its first text, and a   *)
(* reader in place of any that is left.                                    *)

Search(run) ==
  /\ buffer' = buffer_push(run)
  /\ font' = FontAfter(buffer')
  /\ Found(inline_magic, buffer') = {}
  /\ file_end' = FALSE
  /\ heard' = heard \o run
  /\ asked' = LastNamed(heard') /\ quirks' = quirks \cup Unseen(run)
  /\ image' = <<>> /\ fed' = <<>>
  /\ UNCHANGED <<processing_png, Gpng_ptr, base64_bits, orphans, failures>>

Begin(run) ==
  LET text == buffer_push(run)
      from == Min(Found(inline_magic, text)) + Len(inline_magic) + 1
      rest == SubSeq(text, from, Len(text))
      d    == base64_decode(<<>>, rest)
  IN  /\ Found(inline_magic, text) # {}
      /\ font' = FontAfter(text)
      /\ \E created \in BOOLEAN :
         \E after \in inlinepng_process_data(created, d.output) :
           /\ Gpng_ptr' = after.live
           /\ file_end' = after.ended
           /\ fed' = IF created THEN d.output ELSE <<>>
      /\ orphans' = IF Gpng_ptr THEN orphans + 1 ELSE orphans
      /\ base64_bits' = d.bits
      /\ processing_png' = ~d.failflag
      /\ failures' = IF d.failflag THEN failures + 1 ELSE failures
      /\ image' = rest
      /\ buffer' = <<>> /\ heard' = <<>>
      /\ asked' = LastNamed(heard \o run)
      /\ quirks' = quirks \cup Unseen(run)

(* With an image on its way. *)
Decode(run) ==
  LET d == base64_decode(base64_bits, run)
  IN  /\ ~file_end
      /\ base64_bits' = d.bits
      /\ \E after \in inlinepng_process_data(Gpng_ptr, d.output) :
           /\ Gpng_ptr' = after.live
           /\ file_end' = (after.ended \/ d.failflag)
           /\ failures' = IF d.failflag /\ ~after.ended THEN failures + 1 ELSE failures
      /\ fed' = IF Gpng_ptr THEN fed \o d.output ELSE fed
      /\ processing_png' = ~file_end'
      /\ image' = image \o run
      /\ UNCHANGED <<buffer, font, heard, asked, orphans, quirks>>

(* An image that was complete within its first text: the next run goes     *)
(* nowhere.                                                                *)
Swallow(run) ==
  /\ file_end
  /\ processing_png' = FALSE
  /\ quirks' = quirks \cup {"swallowed"}
  /\ heard' = heard \o run /\ image' = <<>> /\ fed' = <<>>
  /\ UNCHANGED <<file_end, Gpng_ptr, buffer, base64_bits, font, asked, orphans, failures>>

inline_data_receive(run) ==
  /\ IF processing_png THEN Decode(run) \/ Swallow(run)
                       ELSE Search(run) \/ Begin(run)

(* ED and EL (csi_handler). *)
inline_data_clear ==
  /\ buffer # <<>> \/ heard # <<>>
  /\ buffer' = <<>> /\ heard' = <<>>
  /\ UNCHANGED <<processing_png, file_end, reader, base64_bits, font, script, asked,
                 image, orphans, failures, quirks>>

Next ==
  \/ inline_data_clear
  \/ \E n \in 1 .. Min({MaxRun, Len(script)}) :
       /\ inline_data_receive(SubSeq(script, 1, n))
       /\ script' = SubSeq(script, n + 1, Len(script))

Spec == Init /\ [][Next]_vars

-----------------------------------------------------------------------------
(* Properties.                                                             *)

(* The variables keep their types, and the buffer its size (buffer_push).  *)
TypeOK ==
  /\ processing_png \in BOOLEAN /\ file_end \in BOOLEAN /\ Gpng_ptr \in BOOLEAN
  /\ Range(buffer) \subseteq Symbol /\ Len(buffer) <= BufferSize
  /\ Len(base64_bits) \in {0, 2, 4, 6}
  /\ font \in {"normal", "double"} /\ asked \in {"normal", "double"}
  /\ quirks \subseteq {"first", "both", "shifted", "swallowed"}

(* The letters of a transfer: those up to the first padding or wrong       *)
(* character.                                                              *)
Letters(text) ==
  LET ends == {i \in 1 .. Len(text) : text[i] \notin base64alphabet \cup {" "}}
      last == IF ends = {} THEN Len(text) ELSE Min(ends) - 1
      kept[n \in 0 .. last] ==
        IF n = 0 THEN <<>>
        ELSE IF text[n] = " " THEN kept[n - 1] ELSE Append(kept[n - 1], text[n])
  IN  kept[last]

(* RFC 4648, which base64.c names: the bits of the letters in a row, eight *)
(* to a byte.                                                              *)
Base64(letters) ==
  [k \in 1 .. (6 * Len(letters)) \div 8 |->
    [i \in 1 .. 8 |-> LET at == 8 * (k - 1) + i - 1
                      IN  <<letters[(at \div 6) + 1], (at % 6) + 1>>]]

(* What libpng gets is the decoding of the text behind the name, however   *)
(* that was cut into runs, and all of it while libpng reads: the bits that *)
(* base64_decode carries from call to call, the rest of the buffer that is *)
(* the first text, and a reader that was destroyed fit together.           *)
DecodedAsSent ==
  LET sent == Base64(Letters(image))
  IN  /\ IsPrefix(SubSeq(fed, 1, Min({Len(fed), Len(sent)})), sent)
      /\ processing_png /\ Gpng_ptr => IsPrefix(sent, fed)

(* The name of an image is seen however the runs cut it and whatever stood *)
(* before it (buffer_push, buffer_search): there is no text that holds it, *)
(* with one more character, and no image on its way, unless it went past a *)
(* full buffer or into the run behind a small image.                       *)
NameIsSeen ==
  ~processing_png /\ quirks \cap {"shifted", "swallowed"} = {} =>
    Found(inline_magic, heard) = {}

(* The font is the one that was named last (inline_data_receive), unless   *)
(* both names are in the buffer, or one is at its start.                   *)
FontAsNamed == quirks = {} => font = asked

(* Each reader that initialize_png_reader makes is destroyed by the image  *)
(* it was for, complete or in error, before the next one is made; the one  *)
(* of a transfer given up for a wrong character is not.                    *)
ReadersDestroyed ==
  orphans + (IF Gpng_ptr /\ ~processing_png THEN 1 ELSE 0) <= failures
=============================================================================
