-------------------------- MODULE InlineDataProofs --------------------------
(***************************************************************************)
(* Inline images, for every text, every cutting of it into runs and every  *)
(* size of the buffer that has room for a name and a run.                  *)
(*                                                                         *)
(* A reader outlives its image only when the transfer is given up; what    *)
(* makes this inductive is that no reader is left while a complete image   *)
(* waits to swallow the next run (Inv).  A name is seen because the buffer *)
(* is the end of all that was heard (Held), so that a name that is not in  *)
(* it was seen before or pushed out.  An image is decoded as it was sent   *)
(* because the bits carried over are those of the letters that are left    *)
(* over (Sent), which follows by induction over the symbols of a run.      *)
(***************************************************************************)
EXTENDS InlineData, Foundations

Left == IF Gpng_ptr /\ ~processing_png THEN 1 ELSE 0

Inv ==
  /\ orphans \in Nat /\ failures \in Nat
  /\ orphans + Left <= failures
  /\ processing_png /\ file_end => ~Gpng_ptr

(* Whatever libpng does, an image that has ended has no reader.            *)
LEMMA EndedHasNone ==
  ASSUME NEW live, NEW data, NEW after \in inlinepng_process_data(live, data), after.ended
  PROVE  ~after.live
  BY DEF inlinepng_process_data

LEMMA OneMoreFailed ==
  ASSUME NEW o \in Nat, NEW f \in Nat, NEW l, o <= f, l = 0 \/ l = 1
  PROVE  o + l <= f + 1
  OBVIOUS

LEMMA NoMore == ASSUME NEW o \in Nat, NEW f, o <= f PROVE o + 0 <= f
  OBVIOUS

LEMMA InitInv == Init => Inv
  BY DEF Init, Inv, Left

LEMMA SearchStep == ASSUME Inv, NEW run, ~processing_png, Search(run) PROVE Inv'
  BY DEF Inv, Left, Search

LEMMA BeginStep == ASSUME Inv, NEW run, ~processing_png, Begin(run) PROVE Inv'
  <1> DEFINE text == buffer_push(run)
             rest == SubSeq(text, Min(Found(inline_magic, text)) + Len(inline_magic) + 1,
                            Len(text))
             d == base64_decode(<<>>, rest)
  <1>0. PICK created \in BOOLEAN :
          \E after \in inlinepng_process_data(created, d.output) :
            Gpng_ptr' = after.live /\ file_end' = after.ended
    BY Zenon DEF Begin
  <1>1. PICK after \in inlinepng_process_data(created, d.output) :
          Gpng_ptr' = after.live /\ file_end' = after.ended
    BY <1>0, Zenon
  <1>2. file_end' => ~Gpng_ptr'
    BY <1>1, EndedHasNone, Zenon
  <1>3. /\ orphans' = (IF Gpng_ptr THEN orphans + 1 ELSE orphans)
        /\ processing_png' = ~d.failflag
        /\ failures' = (IF d.failflag THEN failures + 1 ELSE failures)
    BY Zenon DEF Begin
  <1> HIDE DEF d
  <1>4. orphans \in Nat /\ failures \in Nat /\ orphans <= failures
    BY DEF Inv, Left
  <1>5. Gpng_ptr => orphans + 1 <= failures
    BY DEF Inv, Left
  <1>6. orphans' \in Nat /\ failures' \in Nat
    BY <1>3, <1>4
  <1>7. orphans' <= failures
    BY <1>3, <1>4, <1>5
  <1>8. Left' = 1 => ~processing_png'
    BY DEF Left
  <1>9. Left' = 0 \/ Left' = 1
    BY DEF Left
  <1>10. orphans' + Left' <= failures'
    <2>1. CASE d.failflag
      <3>1. failures' = failures + 1
        BY <1>3, <2>1, Zenon
      <3> QED BY <3>1, <1>4, <1>6, <1>7, <1>9, OneMoreFailed, Zenon
    <2>2. CASE ~d.failflag
      <3>1. failures' = failures /\ Left' = 0
        BY <1>3, <1>8, <1>9, <2>2, Zenon
      <3> QED BY <3>1, <1>6, <1>7, NoMore, Zenon
    <2> QED BY <2>1, <2>2
  <1> QED BY <1>2, <1>6, <1>10 DEF Inv

LEMMA DecodeStep == ASSUME Inv, NEW run, processing_png, Decode(run) PROVE Inv'
  <1> DEFINE d == base64_decode(base64_bits, run)
  <1>1. PICK after \in inlinepng_process_data(Gpng_ptr, d.output) :
          /\ Gpng_ptr' = after.live
          /\ file_end' = (after.ended \/ d.failflag)
          /\ failures' = (IF d.failflag /\ ~after.ended THEN failures + 1 ELSE failures)
    BY Zenon DEF Decode
  <1>2. processing_png' = ~file_end' /\ orphans' = orphans
    BY Zenon DEF Decode
  <1>3. orphans <= failures /\ orphans \in Nat /\ failures \in Nat
    BY DEF Inv, Left
  <1>4. CASE after.ended
    <2>1. ~Gpng_ptr'
      BY <1>1, <1>4, EndedHasNone, Zenon
    <2>2. failures' = failures
      BY <1>1, <1>4, Zenon
    <2> QED BY <1>2, <1>3, <2>1, <2>2 DEF Inv, Left
  <1>5. CASE ~after.ended /\ d.failflag
    <2>1. failures' = failures + 1 /\ ~processing_png'
      BY <1>1, <1>2, <1>5, Zenon
    <2> HIDE DEF d
    <2> QED BY <1>2, <1>3, <2>1 DEF Inv, Left
  <1>6. CASE ~after.ended /\ ~d.failflag
    <2>1. failures' = failures /\ processing_png' /\ ~file_end'
      BY <1>1, <1>2, <1>6, Zenon
    <2> HIDE DEF d
    <2> QED BY <1>2, <1>3, <2>1 DEF Inv, Left
  <1> QED BY <1>4, <1>5, <1>6, Zenon

LEMMA SwallowStep == ASSUME Inv, NEW run, processing_png, Swallow(run) PROVE Inv'
  BY DEF Inv, Left, Swallow

LEMMA StepInv == ASSUME Inv, [Next]_vars PROVE Inv'
  <1>1. CASE UNCHANGED vars
    BY <1>1 DEF Inv, Left, vars, reader, ghosts
  <1>2. CASE inline_data_clear
    BY <1>2 DEF Inv, Left, inline_data_clear, reader
  <1>3. ASSUME NEW run, inline_data_receive(run) PROVE Inv'
    BY <1>3, SearchStep, BeginStep, DecodeStep, SwallowStep DEF inline_data_receive
  <1> QED BY <1>1, <1>2, <1>3 DEF Next

(* No reader of libpng is lost but to a transfer that is given up for a    *)
(* wrong character (initialize_png_reader, end_callback,                   *)
(* inlinepng_process_data, inline_data_receive).                           *)
THEOREM ReadersBalance == Spec => []ReadersDestroyed
  <1>1. Inv => ReadersDestroyed
    BY DEF Inv, Left, ReadersDestroyed
  <1> QED BY <1>1, InitInv, StepInv, PTL DEF Spec

-----------------------------------------------------------------------------
(* Types.                                                                  *)

Bit == base64alphabet \X (1 .. 6)
Carried == {b \in Seq(Bit) : Len(b) \in {0, 2, 4, 6}}
Decoder == [bits : Carried, output : Seq(Seq(Bit)), stopped : BOOLEAN, failflag : BOOLEAN]
Fonts == {"normal", "double"}

Flags == processing_png \in BOOLEAN /\ file_end \in BOOLEAN /\ Gpng_ptr \in BOOLEAN
Texts ==
  /\ script \in Seq(Symbol) /\ heard \in Seq(Symbol) /\ image \in Seq(Symbol)
  /\ buffer \in Seq(Symbol) /\ Len(buffer) <= BufferSize
Image == base64_bits \in Carried /\ fed \in Seq(Seq(Bit))
Asking ==
  /\ font \in Fonts /\ asked \in Fonts
  /\ quirks \subseteq {"first", "both", "shifted", "swallowed"}

Types == Flags /\ Texts /\ Image /\ Asking

(* A letter adds six bits to the two, four or six that are carried.        *)
LEMMA SixMore ==
  ASSUME NEW letter \in base64alphabet
  PROVE  Bits(letter) \in Seq(Bit) /\ Len(Bits(letter)) = 6
<1>1. \A i \in 1 .. 6 : <<letter, i>> \in Bit
  BY DEF Bit
<1>2. DOMAIN Bits(letter) = 1 .. 6 /\ Bits(letter) = [i \in 1 .. 6 |-> Bits(letter)[i]]
  BY DEF Bits
<1>3. \A i \in 1 .. 6 : Bits(letter)[i] \in Bit
  BY <1>1 DEF Bits
<1>4. Bits(letter) \in Seq(Bit)
  BY <1>2, <1>3, IsASeq
<1> QED BY <1>2, <1>4, LenProperties

LEMMA EightOff ==
  ASSUME NEW b \in Seq(Bit), Len(b) = 8 \/ Len(b) = 10 \/ Len(b) = 12
  PROVE  SubSeq(b, 1, 8) \in Seq(Bit) /\ SubSeq(b, 9, Len(b)) \in Carried
<1> DEFINE n == Len(b)
           rest == SubSeq(b, 9, n)
           m == Len(rest)
<1>0. n = 8 \/ n = 10 \/ n = 12
  OBVIOUS
<1>1. n \in Int
  BY LenProperties
<1>2. \A i \in 9 .. n : b[i] \in Bit
  BY ElementOfSeq
<1>3. m = IF 9 <= n THEN n - 9 + 1 ELSE 0
  <2> HIDE DEF n
  <2> QED BY <1>1, <1>2, SubSeqProperties
<1> HIDE DEF n
<1>4. 8 <= n /\ n <= n
  BY <1>0
<1>5. SubSeq(b, 1, 8) \in Seq(Bit) /\ rest \in Seq(Bit)
  BY <1>1, <1>4, PartOf DEF n
<1>6. m = 0 \/ m = 2 \/ m = 4
  <2> HIDE DEF m
  <2> QED BY <1>0, <1>3
<1>7. rest \in Carried
  <2> HIDE DEF rest
  <2> QED BY <1>5, <1>6 DEF Carried
<1> QED BY <1>5, <1>7 DEF n

LEMMA SymbolDecoded ==
  ASSUME NEW d \in Decoder, NEW symbol \in Symbol
  PROVE  DecodeSymbol(d, symbol) \in Decoder
<1> DEFINE bits == d.bits \o Bits(symbol)
<1>1. CASE d.stopped \/ symbol = " "
  BY <1>1 DEF DecodeSymbol
<1>2. CASE ~(d.stopped \/ symbol = " ") /\ symbol \notin base64alphabet
  <2>1. <<>> \in Carried
    BY EmptySeq DEF Carried
  <2>2. DecodeSymbol(d, symbol) =
          [d EXCEPT !.stopped = TRUE, !.failflag = (symbol # "="), !.bits = <<>>]
    BY <1>2 DEF DecodeSymbol
  <2>3. (symbol # "=") \in BOOLEAN
    OBVIOUS
  <2>4. \A f \in BOOLEAN, b \in Carried :
          [d EXCEPT !.stopped = TRUE, !.failflag = f, !.bits = b] \in Decoder
    BY DEF Decoder
  <2> QED BY <2>1, <2>2, <2>3, <2>4, Zenon
<1>3. CASE ~(d.stopped \/ symbol = " ") /\ symbol \in base64alphabet
  <2>1. Bits(symbol) \in Seq(Bit) /\ Len(Bits(symbol)) = 6
    BY <1>3, SixMore
  <2>2. /\ d.bits \in Seq(Bit) /\ d.output \in Seq(Seq(Bit))
        /\ Len(d.bits) = 0 \/ Len(d.bits) = 2 \/ Len(d.bits) = 4 \/ Len(d.bits) = 6
    BY DEF Decoder, Carried
  <2>3. bits \in Seq(Bit) /\ Len(bits) = Len(d.bits) + Len(Bits(symbol))
    BY <2>1, <2>2, ConcatProperties
  <2>4. DecodeSymbol(d, symbol) =
          IF Len(bits) < 8 THEN [d EXCEPT !.bits = bits]
          ELSE [d EXCEPT !.output = Append(@, SubSeq(bits, 1, 8)),
                         !.bits = SubSeq(bits, 9, Len(bits))]
    BY <1>3, Zenon DEF DecodeSymbol
  <2> HIDE DEF bits
  <2> DEFINE n == Len(bits)
             c == Len(d.bits)
  <2>5. n = 6 \/ n = 8 \/ n = 10 \/ n = 12
    <3>1. n = c + 6 /\ (c = 0 \/ c = 2 \/ c = 4 \/ c = 6)
      BY <2>1, <2>2, <2>3
    <3> HIDE DEF n, c
    <3> QED BY <3>1
  <2> HIDE DEF n
  <2>6. \A o \in Seq(Seq(Bit)), b \in Carried :
          [d EXCEPT !.output = o, !.bits = b] \in Decoder /\ [d EXCEPT !.bits = b] \in Decoder
    BY DEF Decoder
  <2>7. CASE Len(bits) < 8
    <3>0. n < 8
      BY <2>7 DEF n
    <3>1. n = 6
      BY <2>5, <3>0
    <3>2. Len(bits) = 6
      BY <3>1 DEF n
    <3>3. bits \in Carried
      BY <2>3, <3>2 DEF Carried
    <3> QED BY <2>2, <2>4, <2>6, <2>7, <3>3
  <2>8. CASE ~(Len(bits) < 8)
    <3> ~(n < 8)
      BY <2>8 DEF n
    <3>0. n = 8 \/ n = 10 \/ n = 12
      BY <2>5
    <3>1. SubSeq(bits, 1, 8) \in Seq(Bit) /\ SubSeq(bits, 9, Len(bits)) \in Carried
      BY <2>3, <3>0, EightOff DEF n
    <3>2. Append(d.output, SubSeq(bits, 1, 8)) \in Seq(Seq(Bit))
      BY <2>2, <3>1, AppendProperties
    <3>3. DecodeSymbol(d, symbol) =
            [d EXCEPT !.output = Append(d.output, SubSeq(bits, 1, 8)),
                      !.bits = SubSeq(bits, 9, Len(bits))]
      BY <2>4, <2>8
    <3> QED BY <2>6, <3>1, <3>2, <3>3, Zenon
  <2> QED BY <2>7, <2>8
<1> QED BY <1>1, <1>2, <1>3

(* base64_decode goes through a run symbol by symbol.                      *)
Decoding(r, bits, run) ==
  /\ r \in [0 .. Len(run) -> Decoder]
  /\ r[0] = Undecoded(bits) /\ r[Len(run)] = base64_decode(bits, run)
  /\ \A k \in 1 .. Len(run) : r[k] = DecodeSymbol(r[k - 1], run[k])

LEMMA RunDecoded ==
  ASSUME NEW bits \in Carried, NEW run \in Seq(Symbol)
  PROVE  \E r : Decoding(r, bits, run)
<1> DEFINE N == Len(run)
           f == [x \in (1 .. N) \X Decoder |-> DecodeSymbol(x[2], run[x[1]])]
           Reads(r) == r = [n \in 0 .. N |-> IF n = 0 THEN Undecoded(bits)
                                             ELSE DecodeSymbol(r[n - 1], run[n])]
           d == CHOOSE r : Reads(r)
<1>1. N \in Nat /\ \A k \in 1 .. N : run[k] \in Symbol
  BY LenProperties, ElementOfSeq
<1>2. Undecoded(bits) \in Decoder
  BY EmptySeq DEF Undecoded, Decoder
<1>3. f \in [(1 .. N) \X Decoder -> Decoder]
  <2>1. \A x \in (1 .. N) \X Decoder : x[1] \in 1 .. N /\ x[2] \in Decoder
    OBVIOUS
  <2>2. \A x \in (1 .. N) \X Decoder : DecodeSymbol(x[2], run[x[1]]) \in Decoder
    BY <1>1, <2>1, SymbolDecoded
  <2> QED BY <2>2
<1>4. PICK q \in [0 .. N -> Decoder] :
        q[0] = Undecoded(bits) /\ \A k \in 1 .. N : q[k] = f[<<k, q[k - 1]>>]
  <2> DEFINE a == Undecoded(bits)
  <2> HIDE DEF f, N, a
  <2>1. a \in Decoder
    BY <1>2 DEF a
  <2>2. N \in Nat /\ f \in [(1 .. N) \X Decoder -> Decoder]
    BY <1>1, <1>3
  <2> HIDE DEF Decoder
  <2>3. \E q : Recursive(q, N, Decoder, a, f)
    BY <2>1, <2>2, Recursion
  <2> QED BY <2>3 DEF a, Recursive
<1>5. \A k \in 1 .. N : q[k] = DecodeSymbol(q[k - 1], run[k])
  <2> SUFFICES ASSUME NEW k \in 1 .. N PROVE q[k] = DecodeSymbol(q[k - 1], run[k])
    OBVIOUS
  <2>1. q[k - 1] \in Decoder
    BY <1>1
  <2>2. <<k, q[k - 1]>> \in (1 .. N) \X Decoder
    BY <2>1
  <2>3. f[<<k, q[k - 1]>>] = DecodeSymbol(q[k - 1], run[k])
    BY <2>2
  <2> QED BY <1>4, <2>3
<1>6. Reads(q)
  <2>1. q = [n \in 0 .. N |-> q[n]]
    OBVIOUS
  <2>2. \A n \in 0 .. N : q[n] = IF n = 0 THEN Undecoded(bits)
                                 ELSE DecodeSymbol(q[n - 1], run[n])
    BY <1>1, <1>4, <1>5
  <2> HIDE DEF f
  <2> QED BY <2>1, <2>2
<1>7. Reads(d)
  <2> HIDE DEF Reads
  <2> QED BY <1>6
<1>8. base64_decode(bits, run) = d[N]
  BY DEF base64_decode
<1> HIDE DEF d, f
<1>9. d[0] = Undecoded(bits) /\ \A k \in 1 .. N : d[k] = DecodeSymbol(d[k - 1], run[k])
  BY <1>1, <1>7
<1> HIDE DEF Reads
<1>10. \A k \in 1 .. N : d[k - 1] = q[k - 1] => d[k] = q[k]
  BY <1>5, <1>9
<1>11. \A k \in 0 .. N : d[k] = q[k]
  <2> HIDE DEF N
  <2>1. d[0] = q[0]
    BY <1>4, <1>9
  <2>2. Alike(d, q, N)
    BY <1>10, <2>1, Zenon DEF Alike
  <2>3. N \in Nat
    BY <1>1
  <2> QED BY <2>2, <2>3, OneRecursion
<1>12. q[N] = base64_decode(bits, run)
  BY <1>1, <1>8, <1>11
<1>13. Decoding(q, bits, run)
  BY <1>4, <1>5, <1>12 DEF Decoding
<1> QED BY <1>13

LEMMA DecodedTypes ==
  ASSUME NEW bits \in Carried, NEW run \in Seq(Symbol)
  PROVE  base64_decode(bits, run) \in Decoder
<1>1. PICK r : Decoding(r, bits, run)
  BY RunDecoded
<1>2. Len(run) \in 0 .. Len(run)
  BY LenProperties
<1> QED BY <1>1, <1>2 DEF Decoding
(* The words of the script in a row.                                       *)
LEMMA Flattened ==
  ASSUME NEW S, NEW words \in Seq(Seq(S))
  PROVE  FlattenSeq(words) \in Seq(S)
<1> DEFINE N == Len(words)
           Flat(r) == r = [i \in 1 .. N |-> IF i = 1 THEN words[i] ELSE r[i - 1] \o words[i]]
           d == CHOOSE r : Flat(r)
<1>1. N \in Nat /\ \A i \in 1 .. N : words[i] \in Seq(S)
  BY LenProperties, ElementOfSeq
<1>2. CASE N = 0
  BY <1>2, EmptySeq DEF FlattenSeq
<1>3. CASE N # 0
  <2> DEFINE f == [x \in (1 .. N) \X Seq(S) |->
                     IF x[1] = N THEN x[2] ELSE x[2] \o words[x[1] + 1]]
             a == words[1]
  <2>1. f \in [(1 .. N) \X Seq(S) -> Seq(S)]
    <3> SUFFICES ASSUME NEW k \in 1 .. N, NEW s \in Seq(S), k # N
                 PROVE  s \o words[k + 1] \in Seq(S)
      BY <1>1
    <3>1. words[k + 1] \in Seq(S)
      BY <1>1
    <3> QED BY <3>1, ConcatProperties
  <2>2. a \in Seq(S)
    BY <1>1, <1>3
  <2>3. PICK q : Recursive(q, N, Seq(S), a, f)
    <3> HIDE DEF f, a, N
    <3> QED BY <1>1, <2>1, <2>2, Recursion
  <2>4. q \in [0 .. N -> Seq(S)] /\ q[0] = a /\ \A k \in 1 .. N : q[k] = f[<<k, q[k - 1]>>]
    BY <2>3 DEF Recursive
  <2> DEFINE p == [i \in 1 .. N |-> q[i - 1]]
  <2>5. \A i \in 1 .. N : p[i] = IF i = 1 THEN words[i] ELSE p[i - 1] \o words[i]
    <3> HIDE DEF N, f, a
    <3>0. \A i \in 1 .. N : p[i] = q[i - 1]
      OBVIOUS
    <3>00. p[1] = words[1]
      <4>1. 1 \in 1 .. N /\ 1 - 1 = 0
        BY <1>1, <1>3
      <4> QED BY <2>4, <3>0, <4>1 DEF a
    <3> SUFFICES ASSUME NEW i \in 1 .. N, i # 1 PROVE q[i - 1] = q[(i - 1) - 1] \o words[i]
      <4>1. \A i \in 1 .. N : i # 1 => i - 1 \in 1 .. N
        BY <1>1
      <4> HIDE DEF p
      <4> QED BY <3>0, <3>00, <4>1
    <3>1. i - 1 \in 1 .. N /\ (i - 1) - 1 \in 0 .. N /\ i - 1 # N
      BY <1>1
    <3>6. q[(i - 1) - 1] \in Seq(S)
      BY <2>4, <3>1
    <3>2. q[i - 1] = f[<<i - 1, q[(i - 1) - 1]>>]
      BY <2>4, <3>1
    <3>3. <<i - 1, q[(i - 1) - 1]>> \in (1 .. N) \X Seq(S)
      BY <3>1, <3>6
    <3>4. f[<<i - 1, q[(i - 1) - 1]>>] = q[(i - 1) - 1] \o words[(i - 1) + 1]
      BY <3>1, <3>3 DEF f
    <3>5. (i - 1) + 1 = i
      OBVIOUS
    <3> QED BY <3>2, <3>4, <3>5
  <2> HIDE DEF f, a
  <2>6. Flat(p)
    <3>1. p = [i \in 1 .. N |-> p[i]]
      OBVIOUS
    <3> HIDE DEF p
    <3> QED BY <2>5, <3>1
  <2>7. Flat(d)
    <3> HIDE DEF Flat, p
    <3> QED BY <2>6
  <2>8. FlattenSeq(words) = d[N]
    BY <1>3, Zenon DEF FlattenSeq
  <2> HIDE DEF d
  <2>9. \A i \in 1 .. N : d[i] = IF i = 1 THEN words[i] ELSE d[i - 1] \o words[i]
    <3> HIDE DEF N
    <3> QED BY <2>7
  <2> HIDE DEF Flat
  <2> DEFINE T == {k \in 0 .. N - 1 : d[k + 1] \in Seq(S)}
  <2>10. 0 \in T
    <3>1. 1 \in 1 .. N
      BY <1>1, <1>3
    <3>2. d[1] = words[1] /\ words[1] \in Seq(S)
      <4> HIDE DEF N
      <4> QED BY <1>1, <2>9, <3>1
    <3>3. 0 \in 0 .. N - 1 /\ 0 + 1 = 1
      <4> HIDE DEF N
      <4> QED BY <1>1, <1>3
    <3> HIDE DEF N
    <3> QED BY <3>2, <3>3
  <2>11. ASSUME NEW k \in 0 .. (N - 1) - 1, k \in T PROVE k + 1 \in T
    <3>1. k + 2 \in 1 .. N /\ (k + 2) - 1 = k + 1 /\ k + 2 # 1 /\ (k + 1) + 1 = k + 2
      BY <1>1
    <3>2. d[k + 2] = d[k + 1] \o words[k + 2]
      BY <2>9, <3>1
    <3>3. d[k + 1] \in Seq(S) /\ words[k + 2] \in Seq(S)
      BY <1>1, <2>11, <3>1
    <3>4. d[k + 2] \in Seq(S)
      BY <3>2, <3>3, ConcatProperties
    <3> QED BY <1>1, <3>1, <3>4
  <2> HIDE DEF T
  <2>12. N - 1 \in Nat
    BY <1>1, <1>3
  <2>13. \A k \in 0 .. N - 1 : k \in T
    <3> HIDE DEF N
    <3> QED BY <2>10, <2>11, <2>12, UpTo
  <2>14. (N - 1) \in T /\ (N - 1) + 1 = N
    BY <1>1, <2>12, <2>13
  <2> QED BY <2>8, <2>14 DEF T
<1> QED BY <1>2, <1>3
-----------------------------------------------------------------------------
(* buffer_push keeps what has just been pushed, and no more than there is  *)
(* room for.                                                               *)
LEMMA Pushed ==
  ASSUME NEW run \in Seq(Symbol), Texts
  PROVE  buffer_push(run) \in Seq(Symbol) /\ Len(buffer_push(run)) <= BufferSize
<1> DEFINE all == buffer \o run
           n == Len(all)
           tail == SubSeq(all, n - BufferSize + 1, n)
<1>1. all \in Seq(Symbol) /\ n \in Nat /\ BufferSize \in Nat
  BY ConcatProperties, LenProperties, InlineDataAssumption DEF Texts
<1>2. CASE n <= BufferSize
  BY <1>1, <1>2 DEF buffer_push
<1>3. CASE ~(n <= BufferSize)
  <2>1. buffer_push(run) = tail
    BY <1>3 DEF buffer_push
  <2> HIDE DEF all
  <2>2. \A i \in n - BufferSize + 1 .. n : all[i] \in Symbol
    <3>1. \A i \in n - BufferSize + 1 .. n : i \in 1 .. n
      <4> HIDE DEF n
      <4> QED BY <1>1, <1>3
    <3> QED BY <1>1, <3>1, ElementOfSeq
  <2>3. n - BufferSize + 1 \in Int /\ n \in Int
    BY <1>1
  <2>4. tail \in Seq(Symbol) /\ Len(tail) = IF n - BufferSize + 1 <= n
                                            THEN n - (n - BufferSize + 1) + 1 ELSE 0
    <3> HIDE DEF n
    <3> QED BY <2>2, <2>3, SubSeqProperties
  <2>5. Len(tail) <= BufferSize
    <3> DEFINE l == Len(tail)
    <3>1. l = IF n - BufferSize + 1 <= n THEN n - (n - BufferSize + 1) + 1 ELSE 0
      BY <2>4
    <3> HIDE DEF l, n
    <3>2. l <= BufferSize
      BY <1>1, <3>1
    <3> QED BY <3>2 DEF l
  <2> QED BY <2>1, <2>4, <2>5
<1> QED BY <1>2, <1>3

(* buffer_search finds a name within the text.                             *)
LEMMA FoundFirst ==
  ASSUME NEW name, NEW text \in Seq(Symbol), Len(name) = 3, Found(name, text) # {}
  PROVE  /\ Min(Found(name, text)) \in Found(name, text)
         /\ Min(Found(name, text)) \in Nat /\ Min(Found(name, text)) + 3 < Len(text)
         /\ \A n \in Found(name, text) : Min(Found(name, text)) <= n
<1>1. Len(text) \in Nat
  BY LenProperties
<1>2. Found(name, text) \in SUBSET Nat /\ \A n \in Found(name, text) : n + 3 < Len(text)
  BY <1>1 DEF Found
<1>3. \E i \in Found(name, text) : \A j \in Found(name, text) : i <= j
  BY <1>2, LeastExists
<1> DEFINE m == Min(Found(name, text))
<1>4. m \in Found(name, text) /\ \A n \in Found(name, text) : m <= n
  <2> HIDE DEF Found
  <2> QED BY <1>3 DEF Min
<1> HIDE DEF m
<1> QED BY <1>2, <1>4 DEF m

LEMMA FoundLast ==
  ASSUME NEW name, NEW text \in Seq(Symbol), Len(name) = 3, Found(name, text) # {}
  PROVE  /\ Max(Found(name, text)) \in Found(name, text)
         /\ Max(Found(name, text)) \in Nat /\ Max(Found(name, text)) + 3 < Len(text)
         /\ \A n \in Found(name, text) : n <= Max(Found(name, text))
<1>1. Len(text) \in Nat
  BY LenProperties
<1>2. Found(name, text) \in SUBSET Nat /\ \A n \in Found(name, text) : n + 3 < Len(text)
  BY <1>1 DEF Found
<1>3. \A n \in Found(name, text) : n <= Len(text)
  BY <1>1, <1>2
<1>4. \E i \in Found(name, text) : \A j \in Found(name, text) : j <= i
  BY <1>1, <1>2, <1>3, GreatestExists
<1> DEFINE m == Max(Found(name, text))
<1>5. m \in Found(name, text) /\ \A n \in Found(name, text) : m >= n
  <2> HIDE DEF Found
  <2> QED BY <1>4 DEF Max
<1> HIDE DEF m
<1> QED BY <1>2, <1>5 DEF m

LEMMA Names ==
  /\ inline_magic \in Seq(base64alphabet) /\ Len(inline_magic) = 3
  /\ \A f \in Fonts : FontName[f] \in Seq(base64alphabet) /\ Len(FontName[f]) = 3
BY DEF inline_magic, FontName, Fonts, base64alphabet

(* One of the names in a text is the last.                                 *)
LEMMA OneIsLast ==
  ASSUME NEW text \in Seq(Symbol), asked \in Fonts
  PROVE  /\ LastNamed(text) \in Fonts
         /\ Named(text) # {} =>
              /\ LastNamed(text) \in Named(text)
              /\ \A g \in Named(text) : Max(Found(FontName[LastNamed(text)], text))
                                          >= Max(Found(FontName[g], text))
<1>1. CASE Named(text) = {}
  BY <1>1 DEF LastNamed
<1>2. CASE Named(text) # {}
  <2> DEFINE at(f) == Max(Found(FontName[f], text))
             Latest(f) == \A g \in Named(text) : at(f) >= at(g)
  <2>1. \A f \in Named(text) : f \in Fonts /\ at(f) \in Nat
    BY FoundLast, Names DEF Named, Fonts
  <2>2. \E f \in Named(text) : Latest(f)
    <3> HIDE DEF at
    <3>1. PICK f \in Named(text) : TRUE
      BY <1>2
    <3>2. CASE \E g \in Named(text) : ~(at(f) >= at(g))
      <4>1. PICK g \in Named(text) : ~(at(f) >= at(g))
        BY <3>2
      <4>2. \A h \in Named(text) : h = f \/ h = g
        BY <2>1, <3>1, <4>1 DEF Fonts
      <4>3. Latest(g)
        BY <2>1, <4>1, <4>2
      <4> QED BY <4>3
    <3> QED BY <3>2
  <2>3. LastNamed(text) = CHOOSE f \in Named(text) : Latest(f)
    BY <1>2 DEF LastNamed
  <2> HIDE DEF Latest
  <2>4. LastNamed(text) \in Named(text) /\ Latest(LastNamed(text))
    BY <2>2, <2>3
  <2> QED BY <2>1, <2>4 DEF Latest
<1> QED BY <1>1, <1>2
-----------------------------------------------------------------------------
(* The search.  What the buffer holds is the end of all that has been      *)
(* heard, and it is all of it unless the buffer is full.                   *)
EndOf(text, all) ==
  /\ Len(text) <= Len(all)
  /\ \A i \in 1 .. Len(text) : text[i] = all[Len(all) - Len(text) + i]
  /\ Len(text) = Len(all) \/ Len(text) = BufferSize

Held ==
  /\ "swallowed" \notin quirks => EndOf(buffer, heard)
  /\ processing_png => heard = <<>> /\ buffer = <<>>

AllNames == {inline_magic, FontName.normal, FontName.double}

(* A name, letter by letter.                                               *)
LEMMA FoundAt ==
  ASSUME NEW text \in Seq(Symbol), NEW name \in Seq(base64alphabet), Len(name) = 3, NEW n \in Nat
  PROVE  n \in Found(name, text) <=>
           /\ n + 3 < Len(text)
           /\ text[n + 1] = name[1] /\ text[n + 2] = name[2] /\ text[n + 3] = name[3]
<1> DEFINE l == Len(text)
           part == SubSeq(text, n + 1, n + 3)
<1>1. l \in Nat
  BY LenProperties
<1>2. n \in Found(name, text) <=> n + 3 < l /\ part = name
  <2>1. Found(name, text) = {m \in 0 .. l - 3 - 1 : SubSeq(text, m + 1, m + 3) = name}
    BY DEF Found
  <2>2. n \in 0 .. l - 3 - 1 <=> n + 3 < l
    <3> HIDE DEF l
    <3> QED BY <1>1
  <2> QED BY <2>1, <2>2
<1>3. ASSUME n + 3 < l
      PROVE  part = name <=> text[n + 1] = name[1] /\ text[n + 2] = name[2] /\ text[n + 3] = name[3]
  <2>1. \A i \in n + 1 .. n + 3 : text[i] \in Symbol
    <3>1. \A i \in n + 1 .. n + 3 : i \in 1 .. l
      <4> HIDE DEF l
      <4> QED BY <1>1, <1>3
    <3> QED BY <3>1, ElementOfSeq
  <2>2. /\ part \in Seq(Symbol) /\ Len(part) = 3
        /\ \A i \in 1 .. 3 : part[i] = text[n + i]
    <3> HIDE DEF l
    <3>1. /\ part \in Seq(Symbol)
          /\ Len(part) = IF n + 1 <= n + 3 THEN (n + 3) - (n + 1) + 1 ELSE 0
          /\ \A i \in 1 .. (n + 3) - (n + 1) + 1 : part[i] = text[(n + 1) + i - 1]
      BY <2>1, SubSeqProperties, SMTT(40)
    <3>2. (n + 3) - (n + 1) + 1 = 3 /\ n + 1 <= n + 3 /\ \A i \in 1 .. 3 : (n + 1) + i - 1 = n + i
      OBVIOUS
    <3> HIDE DEF part
    <3> QED BY <3>1, <3>2
  <2> HIDE DEF part
  <2>3. name \in Seq(Symbol)
    BY SeqMonotonic DEF Symbol
  <2>4. part = name <=> \A i \in 1 .. 3 : part[i] = name[i]
    BY <2>2, <2>3, SeqEqual
  <2>5. \A i \in 1 .. 3 : i = 1 \/ i = 2 \/ i = 3
    OBVIOUS
  <2>6. 1 \in 1 .. 3 /\ 2 \in 1 .. 3 /\ 3 \in 1 .. 3
    OBVIOUS
  <2>7. part[1] = text[n + 1] /\ part[2] = text[n + 2] /\ part[3] = text[n + 3]
    BY <2>2, <2>6
  <2> HIDE DEF l
  <2> QED BY <2>4, <2>5, <2>6, <2>7, Zenon
<1> HIDE DEF part
<1> QED BY <1>2, <1>3

(* What a run leaves in the buffer is the end of all that is then heard.   *)
LEMMA StillTheEnd ==
  ASSUME Texts, EndOf(buffer, heard), NEW run \in Seq(Symbol)
  PROVE  EndOf(buffer_push(run), heard \o run)
<1> DEFINE b == Len(buffer)
           h == Len(heard)
           r == Len(run)
           pushed == buffer \o run
           all == heard \o run
<1>1. /\ b \in Nat /\ h \in Nat /\ r \in Nat /\ BufferSize \in Nat
      /\ pushed \in Seq(Symbol) /\ Len(pushed) = b + r
      /\ all \in Seq(Symbol) /\ Len(all) = h + r
      /\ \A i \in 1 .. b + r : pushed[i] = IF i <= b THEN buffer[i] ELSE run[i - b]
      /\ \A i \in 1 .. h + r : all[i] = IF i <= h THEN heard[i] ELSE run[i - h]
  BY ConcatProperties, LenProperties, InlineDataAssumption DEF Texts
<1>2. b <= h /\ (b = h \/ b = BufferSize) /\ \A i \in 1 .. b : buffer[i] = heard[h - b + i]
  BY DEF EndOf
<1> HIDE DEF b, h, r, pushed, all
<1>3. \A i \in 1 .. b + r : pushed[i] = all[h - b + i]
  <2> SUFFICES ASSUME NEW i \in 1 .. b + r PROVE pushed[i] = all[h - b + i]
    OBVIOUS
  <2>1. h - b + i \in 1 .. h + r
    BY <1>1, <1>2
  <2>2. CASE i <= b
    <3>1. pushed[i] = buffer[i] /\ i \in 1 .. b /\ h - b + i <= h
      BY <1>1, <1>2, <2>2, SMTT(40)
    <3> QED BY <1>1, <1>2, <2>1, <3>1
  <2>3. CASE ~(i <= b)
    <3>1. pushed[i] = run[i - b] /\ ~(h - b + i <= h) /\ h - b + i - h = i - b
      BY <1>1, <1>2, <2>3
    <3> QED BY <1>1, <2>1, <3>1
  <2> QED BY <2>2, <2>3
<1>4. CASE b + r <= BufferSize
  <2>1. buffer_push(run) = pushed
    BY <1>1, <1>4 DEF buffer_push, pushed
  <2>2. /\ b + r <= h + r /\ (h + r) - (b + r) = h - b
        /\ b + r = h + r \/ b + r = BufferSize
    BY <1>1, <1>2, <1>4, SMTT(40)
  <2>3. EndOf(pushed, all)
    BY <1>1, <1>3, <2>2 DEF EndOf
  <2> QED BY <2>1, <2>3 DEF all
<1>5. CASE ~(b + r <= BufferSize)
  <2> DEFINE part == SubSeq(pushed, b + r - BufferSize + 1, b + r)
  <2>1. buffer_push(run) = part
    BY <1>1, <1>5 DEF buffer_push, pushed
  <2>2. \A i \in b + r - BufferSize + 1 .. b + r : pushed[i] \in Symbol
    <3>1. \A i \in b + r - BufferSize + 1 .. b + r : i \in 1 .. b + r
      BY <1>1, <1>5
    <3> QED BY <1>1, <3>1, ElementOfSeq
  <2>3. /\ Len(part) = IF b + r - BufferSize + 1 <= b + r
                       THEN (b + r) - (b + r - BufferSize + 1) + 1 ELSE 0
        /\ \A i \in 1 .. (b + r) - (b + r - BufferSize + 1) + 1 :
             part[i] = pushed[(b + r - BufferSize + 1) + i - 1]
    <3>1. b + r - BufferSize + 1 \in Int /\ b + r \in Int
      BY <1>1
    <3> QED BY <2>2, <3>1, SubSeqProperties
  <2> HIDE DEF part
  <2>4. (b + r) - (b + r - BufferSize + 1) + 1 = BufferSize
    BY <1>1
  <2>5. Len(part) = BufferSize
    <3>1. ~(b + r - BufferSize + 1 <= b + r) => BufferSize = 0
      BY <1>1
    <3> QED BY <2>3, <2>4, <3>1
  <2>6. \A i \in 1 .. BufferSize : part[i] = all[(h + r) - BufferSize + i]
    <3> SUFFICES ASSUME NEW i \in 1 .. BufferSize PROVE part[i] = all[(h + r) - BufferSize + i]
      OBVIOUS
    <3>1. /\ (b + r - BufferSize + 1) + i - 1 = b + r - BufferSize + i
          /\ b + r - BufferSize + i \in 1 .. b + r
          /\ h - b + (b + r - BufferSize + i) = (h + r) - BufferSize + i
      BY <1>1, <1>5
    <3>2. part[i] = pushed[b + r - BufferSize + i]
      BY <2>3, <2>4, <3>1
    <3> QED BY <1>3, <3>1, <3>2
  <2>7. BufferSize <= h + r
    BY <1>1, <1>2, <1>5
  <2>8. EndOf(part, all)
    BY <1>1, <2>5, <2>6, <2>7 DEF EndOf
  <2> QED BY <2>1, <2>8 DEF all
<1> QED BY <1>4, <1>5
(* A name that is heard is either in the buffer, or was heard before, or   *)
(* has been pushed out of the buffer while it was coming in.               *)
Before(run) == Len(heard \o run) - Len(buffer_push(run))

LEMMA NamesLong ==
  ASSUME NEW name \in AllNames
  PROVE  name \in Seq(base64alphabet) /\ name \in Seq(Symbol) /\ Len(name) = 3
<1>1. name \in Seq(base64alphabet) /\ Len(name) = 3
  <2>1. FontName["normal"] = FontName.normal /\ FontName["double"] = FontName.double
    OBVIOUS
  <2>2. "normal" \in Fonts /\ "double" \in Fonts
    BY DEF Fonts
  <2>3. \A m \in {inline_magic, FontName["normal"], FontName["double"]} :
          m \in Seq(base64alphabet) /\ Len(m) = 3
    BY <2>2, Names
  <2> QED BY <2>1, <2>3, Zenon DEF AllNames
<1> QED BY <1>1, SeqMonotonic DEF Symbol

LEMMA InBuffer ==
  ASSUME Texts, EndOf(buffer, heard), NEW run \in Seq(Symbol), NEW name \in AllNames,
         NEW n \in Nat, n >= Before(run)
  PROVE  n \in Found(name, heard \o run) <=> n - Before(run) \in Found(name, buffer_push(run))
<1> DEFINE text == buffer_push(run)
           all == heard \o run
           t == Len(text)
           a == Len(all)
           k == n - Before(run)
<1>1. text \in Seq(Symbol) /\ all \in Seq(Symbol) /\ t \in Nat /\ a \in Nat
  BY Pushed, ConcatProperties, LenProperties DEF Texts
<1>2. t <= a /\ \A i \in 1 .. t : text[i] = all[a - t + i]
  <2>1. EndOf(text, all)
    BY StillTheEnd, Zenon
  <2> QED BY <2>1, Zenon DEF EndOf
<1>3. Before(run) = a - t
  BY DEF Before
<1>4. name \in Seq(base64alphabet) /\ Len(name) = 3
  BY NamesLong
<1>5. /\ n \in Found(name, all) <=> n + 3 < a /\ all[n + 1] = name[1]
                                      /\ all[n + 2] = name[2] /\ all[n + 3] = name[3]
  <2> HIDE DEF all
  <2> QED BY <1>1, <1>4, FoundAt DEF a
<1>6. k \in Nat
  <2> HIDE DEF a, t
  <2> QED BY <1>1, <1>2, <1>3
<1>7. /\ k \in Found(name, text) <=> k + 3 < t /\ text[k + 1] = name[1]
                                      /\ text[k + 2] = name[2] /\ text[k + 3] = name[3]
  <2> HIDE DEF text, k
  <2> QED BY <1>1, <1>4, <1>6, FoundAt DEF t
<1> HIDE DEF a, t, text, all
<1>8. n + 3 < a <=> k + 3 < t
  BY <1>1, <1>2, <1>3
<1>11. k = n - (a - t)
  BY <1>3
<1> HIDE DEF k
<1>9. ASSUME k + 3 < t
      PROVE  text[k + 1] = all[n + 1] /\ text[k + 2] = all[n + 2] /\ text[k + 3] = all[n + 3]
  <2>1. k + 1 \in 1 .. t /\ k + 2 \in 1 .. t /\ k + 3 \in 1 .. t
    BY <1>1, <1>6, <1>9
  <2>2. a - t + (k + 1) = n + 1 /\ a - t + (k + 2) = n + 2 /\ a - t + (k + 3) = n + 3
    BY <1>1, <1>6, <1>11
  <2>3. text[k + 1] = all[a - t + (k + 1)] /\ text[k + 2] = all[a - t + (k + 2)]
        /\ text[k + 3] = all[a - t + (k + 3)]
    BY <1>2, <2>1
  <2> QED BY <2>2, <2>3
<1>10. n \in Found(name, all) <=> k \in Found(name, text)
  BY <1>5, <1>7, <1>8, <1>9
<1> QED BY <1>10 DEF k, all, text

LEMMA HeardBefore ==
  ASSUME Texts, NEW run \in Seq(Symbol), NEW name \in AllNames, NEW n \in Nat, n + 3 < Len(heard)
  PROVE  n \in Found(name, heard \o run) <=> n \in Found(name, heard)
<1> DEFINE all == heard \o run
           h == Len(heard)
           a == Len(all)
           r == Len(run)
<1>1. /\ all \in Seq(Symbol) /\ heard \in Seq(Symbol) /\ h \in Nat /\ r \in Nat /\ a = h + r
      /\ \A i \in 1 .. h + r : all[i] = IF i <= h THEN heard[i] ELSE run[i - h]
  BY ConcatProperties, LenProperties DEF Texts
<1>2. name \in Seq(base64alphabet) /\ Len(name) = 3
  BY NamesLong
<1>3. n \in Found(name, all) <=> n + 3 < a /\ all[n + 1] = name[1]
                                    /\ all[n + 2] = name[2] /\ all[n + 3] = name[3]
  <2> HIDE DEF all
  <2> QED BY <1>1, <1>2, FoundAt DEF a
<1>4. n \in Found(name, heard) <=> n + 3 < h /\ heard[n + 1] = name[1]
                                    /\ heard[n + 2] = name[2] /\ heard[n + 3] = name[3]
  BY <1>1, <1>2, FoundAt
<1>5. n + 3 < h
  OBVIOUS
<1> HIDE DEF a, h, r, all
<1>6. n + 3 < a /\ \A i \in 1 .. 3 : n + i \in 1 .. h + r /\ n + i <= h
  BY <1>1, <1>5
<1>7. all[n + 1] = heard[n + 1] /\ all[n + 2] = heard[n + 2] /\ all[n + 3] = heard[n + 3]
  <2>1. 1 \in 1 .. 3 /\ 2 \in 1 .. 3 /\ 3 \in 1 .. 3
    OBVIOUS
  <2> QED BY <1>1, <1>6, <2>1
<1>8. n \in Found(name, all) <=> n \in Found(name, heard)
  BY <1>3, <1>4, <1>5, <1>6, <1>7
<1> QED BY <1>8 DEF all

LEMMA BetweenIsPushedOut ==
  ASSUME Texts, EndOf(buffer, heard), NEW run \in Seq(Symbol), Len(run) <= BufferSize,
         NEW name \in AllNames, NEW n \in Found(name, heard \o run),
         n < Before(run), ~(n + 3 < Len(heard))
  PROVE  PushesOut(run)
<1> DEFINE text == buffer_push(run)
           all == heard \o run
           b == Len(buffer)
           h == Len(heard)
           r == Len(run)
           t == Len(text)
           k == h - n
<1>1. /\ all \in Seq(Symbol) /\ heard \in Seq(Symbol) /\ buffer \in Seq(Symbol)
      /\ h \in Nat /\ r \in Nat /\ b \in Nat /\ t \in Nat /\ Len(all) = h + r
      /\ \A i \in 1 .. h + r : all[i] = IF i <= h THEN heard[i] ELSE run[i - h]
  BY Pushed, ConcatProperties, LenProperties DEF Texts
<1>2. name \in Seq(base64alphabet) /\ name \in Seq(Symbol) /\ Len(name) = 3
  BY NamesLong
<1>3. n \in Nat
  <2>1. \A m \in Found(name, all) : m \in Nat
    BY DEF Found
  <2> QED BY <2>1
<1>4. all[n + 1] = name[1] /\ all[n + 2] = name[2] /\ all[n + 3] = name[3] /\ n + 3 < h + r
  <2>1. n \in Found(name, all)
    OBVIOUS
  <2>2. all \in Seq(Symbol) /\ Len(all) = h + r
    BY <1>1, Zenon
  <2> HIDE DEF all
  <2>3. /\ n + 3 < Len(all)
        /\ all[n + 1] = name[1] /\ all[n + 2] = name[2] /\ all[n + 3] = name[3]
    BY <1>2, <1>3, <2>1, <2>2, FoundAt
  <2> QED BY <2>2, <2>3
<1>5. t <= h + r /\ (t = h + r \/ t = BufferSize)
  <2>1. EndOf(text, all)
    BY StillTheEnd, Zenon
  <2>2. t <= Len(all) /\ (t = Len(all) \/ t = BufferSize)
    BY <2>1, Zenon DEF EndOf
  <2> QED BY <1>1, <2>2
<1>6. b <= h /\ (b = h \/ b = BufferSize) /\ \A i \in 1 .. b : buffer[i] = heard[h - b + i]
  BY DEF EndOf
<1>7. n < h + r - t /\ r <= BufferSize /\ ~(n + 3 < h)
  BY <1>1 DEF Before
<1>8. BufferSize \in Nat /\ 3 <= BufferSize
  <2>1. Len(inline_magic) = 3
    BY Names
  <2> QED BY <2>1, InlineDataAssumption
<1> HIDE DEF text, all, b, h, r, t
<1>9. k \in 1 .. 3 /\ k <= b /\ k + r > BufferSize
  BY <1>1, <1>3, <1>5, <1>6, <1>7, <1>8
<1> DEFINE end == SubSeq(buffer, b - k + 1, b)
           start == SubSeq(name, 1, k)
<1>10. \A i \in 1 .. k : buffer[b - k + i] = name[i]
  <2> SUFFICES ASSUME NEW i \in 1 .. k PROVE buffer[b - k + i] = name[i]
    OBVIOUS
  <2>0. k = h - n
    OBVIOUS
  <2> HIDE DEF k
  <2>1. /\ b - k + i \in 1 .. b /\ h - b + (b - k + i) = n + i
        /\ n + i \in 1 .. h + r /\ n + i <= h
    BY <1>1, <1>3, <1>9, <2>0
  <2>2. buffer[b - k + i] = all[n + i]
    BY <1>1, <1>6, <2>1
  <2>3. i = 1 \/ i = 2 \/ i = 3
    BY <1>9
  <2> QED BY <1>4, <2>2, <2>3
<1>11. /\ end \in Seq(Symbol) /\ Len(end) = k
       /\ \A i \in 1 .. k : end[i] = buffer[b - k + i]
  <2> HIDE DEF k
  <2>1. \A i \in b - k + 1 .. b : buffer[i] \in Symbol
    <3>1. \A i \in b - k + 1 .. b : i \in 1 .. b
      BY <1>1, <1>9
    <3> QED BY <1>1, <3>1, ElementOfSeq DEF b
  <2>2. b - k + 1 \in Int /\ b \in Int
    BY <1>1, <1>9
  <2>3. /\ end \in Seq(Symbol)
        /\ Len(end) = IF b - k + 1 <= b THEN b - (b - k + 1) + 1 ELSE 0
        /\ \A i \in 1 .. b - (b - k + 1) + 1 : end[i] = buffer[(b - k + 1) + i - 1]
    BY <2>1, <2>2, SubSeqProperties, SMTT(40)
  <2> HIDE DEF end
  <2>4. b - k + 1 <= b /\ b - (b - k + 1) + 1 = k
    BY <1>1, <1>9
  <2>5. \A i \in 1 .. k : (b - k + 1) + i - 1 = b - k + i
    BY <1>1, <1>9
  <2> QED BY <2>3, <2>4, <2>5
<1>12. start \in Seq(Symbol) /\ Len(start) = k /\ \A i \in 1 .. k : start[i] = name[i]
  <2> HIDE DEF k
  <2>1. \A i \in 1 .. k : name[i] \in Symbol
    <3>1. \A i \in 1 .. k : i \in 1 .. 3
      BY <1>9
    <3> QED BY <1>2, <3>1, ElementOfSeq
  <2>2. /\ start \in Seq(Symbol) /\ Len(start) = (IF 1 <= k THEN k - 1 + 1 ELSE 0)
        /\ \A i \in 1 .. k - 1 + 1 : start[i] = name[1 + i - 1]
    BY <1>9, <2>1, SubSeqProperties
  <2> HIDE DEF start
  <2>3. 1 <= k /\ k - 1 + 1 = k /\ \A i \in 1 .. k : 1 + i - 1 = i
    BY <1>9
  <2> QED BY <2>2, <2>3
<1>13. end = start
  <2> HIDE DEF end, start, k
  <2> QED BY <1>10, <1>11, <1>12, SeqEqual
<1>14. k \in 1 .. Min({Len(name), Len(buffer)})
  <2>1. Min({3, b}) \in {3, b}
    <3>1. \E x \in {3, b} : \A y \in {3, b} : x <= y
      BY <1>1
    <3> QED BY <3>1 DEF Min
  <2> DEFINE m == Min({3, b})
  <2> HIDE DEF m
  <2>2. m = 3 \/ m = b
    BY <2>1 DEF m
  <2>3. k \in 1 .. m
    BY <1>1, <1>9, <2>2
  <2> QED BY <1>2, <2>3 DEF m, b
<1>15. k + Len(run) > BufferSize
  BY <1>9 DEF r
<1>16. SubSeq(buffer, Len(buffer) - k + 1, Len(buffer)) = SubSeq(name, 1, k)
  BY <1>13 DEF b
<1>17. name \in {inline_magic, FontName.normal, FontName.double}
  BY DEF AllNames
<1> HIDE DEF k
<1> QED BY <1>14, <1>15, <1>16, <1>17, Zenon DEF PushesOut
(* Two fonts are not named in one place.                                   *)
LEMMA NamedApart ==
  ASSUME NEW text \in Seq(Symbol), NEW f \in Named(text), NEW g \in Named(text),
         Max(Found(FontName[f], text)) = Max(Found(FontName[g], text))
  PROVE  f = g
<1> DEFINE m == Max(Found(FontName[f], text))
<1>1. f \in Fonts /\ g \in Fonts /\ Found(FontName[f], text) # {} /\ Found(FontName[g], text) # {}
  BY DEF Named, Fonts
<1>2. m \in Found(FontName[f], text) /\ m \in Found(FontName[g], text) /\ m \in Nat
  BY <1>1, FoundLast, Names
<1> HIDE DEF m
<1>3. text[m + 3] = FontName[f][3] /\ text[m + 3] = FontName[g][3]
  <2>1. FontName[f] \in Seq(base64alphabet) /\ Len(FontName[f]) = 3
        /\ FontName[g] \in Seq(base64alphabet) /\ Len(FontName[g]) = 3
    BY <1>1, Names
  <2> QED BY <1>2, <2>1, FoundAt
<1>4. FontName["normal"][3] = "n" /\ FontName["double"][3] = "d"
  BY DEF FontName
<1> QED BY <1>1, <1>3, <1>4 DEF Fonts

LEMMA NotBoth ==
  ASSUME NEW text, ~(Cardinality(Named(text)) > 1), NEW f \in Named(text), NEW g \in Named(text)
  PROVE  f = g
<1> SUFFICES ASSUME f # g PROVE FALSE
  OBVIOUS
<1>1. Named(text) = {f, g}
  BY DEF Named
<1>2. IsFiniteSet({f}) /\ Cardinality({f}) = 1
  BY FS_Singleton
<1>3. {f} \cup {g} = {f, g} /\ g \notin {f}
  OBVIOUS
<1>4. Cardinality({f} \cup {g}) = Cardinality({f}) + 1
  BY <1>2, <1>3, FS_AddElement
<1>5. Cardinality(Named(text)) = 1 + 1
  BY <1>1, <1>2, <1>3, <1>4
<1> QED BY <1>5

(* What nothing is lost on names the font as the buffer does.              *)
LEMMA FontFollows ==
  ASSUME Texts, Asking, EndOf(buffer, heard), NEW run \in Seq(Symbol), Len(run) <= BufferSize,
         Unseen(run) = {}, font = asked, Named(heard) # {} => asked = LastNamed(heard)
  PROVE  FontAfter(buffer_push(run)) = LastNamed(heard \o run)
<1> DEFINE text == buffer_push(run)
           all == heard \o run
           off == Before(run)
           In(f, t) == Found(FontName[f], t)
<1>1. text \in Seq(Symbol) /\ all \in Seq(Symbol) /\ heard \in Seq(Symbol) /\ off \in Nat
  <2>1. text \in Seq(Symbol) /\ all \in Seq(Symbol) /\ heard \in Seq(Symbol)
    BY Pushed, ConcatProperties DEF Texts
  <2>2. Len(text) <= Len(all)
    BY StillTheEnd DEF EndOf
  <2> HIDE DEF text, all
  <2>3. Len(text) \in Nat /\ Len(all) \in Nat /\ off = Len(all) - Len(text)
    BY <2>1, LenProperties DEF Before, text, all
  <2> HIDE DEF off
  <2> QED BY <2>1, <2>2, <2>3
<1>2. "normal" \in Fonts /\ "double" \in Fonts /\ \A f \in Fonts : f = "normal" \/ f = "double"
  BY DEF Fonts
<1>3. \A f \in Fonts : FontName[f] \in AllNames
  BY <1>2 DEF AllNames
<1>4. \A f \in Fonts : \A t : f \in Named(t) <=> In(f, t) # {}
  BY DEF Named, Fonts
<1>5. /\ \A f \in Named(text) : 0 \notin In(f, text)
      /\ ~(Cardinality(Named(text)) > 1)
      /\ ~PushesOut(run)
  BY Zenon DEF Unseen
<1>6. \A t : Named(t) \subseteq Fonts
  BY DEF Named, Fonts
<1>7. \A f \in Fonts : \A t : In(f, t) \subseteq Nat
  BY DEF Found
<1> HIDE DEF In, off
<1>8. FontAfter(text) = IF "double" \in Named(text) THEN "double"
                        ELSE IF "normal" \in Named(text) THEN "normal" ELSE font
  <2>1. \A f \in Fonts : (In(f, text) # {} /\ 0 \notin In(f, text)) <=> f \in Named(text)
    BY <1>4, <1>5
  <2>2. FontAfter(text) = IF In("double", text) # {} /\ 0 \notin In("double", text) THEN "double"
                          ELSE IF In("normal", text) # {} /\ 0 \notin In("normal", text) THEN "normal"
                          ELSE font
    BY DEF FontAfter, Obeyed, In
  <2> HIDE DEF text
  <2> QED BY <1>2, <2>1, <2>2
<1>9. \A f \in Fonts : \A n \in Nat : n >= off => (n \in In(f, all) <=> n - off \in In(f, text))
  BY <1>3, InBuffer DEF In, off
<1>10. \A f \in Fonts : \A n \in Nat : n + 3 < Len(heard) => (n \in In(f, all) <=> n \in In(f, heard))
  BY <1>3, HeardBefore DEF In
<1>11. \A f \in Fonts : \A n \in In(f, all) : n < off => n + 3 < Len(heard)
  BY <1>3, <1>5, BetweenIsPushedOut DEF In, off
<1>12. \A f \in Fonts : \A n \in In(f, heard) : n + 3 < Len(heard)
  <2> SUFFICES ASSUME NEW f \in Fonts, NEW n \in In(f, heard) PROVE n + 3 < Len(heard)
    OBVIOUS
  <2>1. n \in Nat /\ FontName[f] \in Seq(base64alphabet) /\ Len(FontName[f]) = 3
    BY <1>7, Names
  <2> QED BY <1>1, <2>1, FoundAt DEF In
<1>13. \A t \in Seq(Symbol) : \A f \in Named(t) :
         Max(In(f, t)) \in In(f, t) /\ \A n \in In(f, t) : n <= Max(In(f, t))
  <2> SUFFICES ASSUME NEW t \in Seq(Symbol), NEW f \in Named(t)
               PROVE  Max(In(f, t)) \in In(f, t) /\ \A n \in In(f, t) : n <= Max(In(f, t))
    OBVIOUS
  <2>1. f \in Fonts /\ Found(FontName[f], t) # {} /\ Len(FontName[f]) = 3
    BY <1>4, <1>6, Names DEF In
  <2> QED BY <2>1, FoundLast DEF In
<1>14. Named(all) # {} =>
         /\ LastNamed(all) \in Named(all)
         /\ \A g \in Named(all) : Max(In(LastNamed(all), all)) >= Max(In(g, all))
  BY <1>1, OneIsLast DEF Asking, In
<1> HIDE DEF text, all
<1>15. CASE Named(text) = {}
  <2>1. FontAfter(text) = asked
    BY <1>8, <1>15
  <2>2. ASSUME NEW f \in Fonts PROVE In(f, all) = In(f, heard)
    <3>1. In(f, text) = {}
      BY <1>4, <1>15, <2>2
    <3>2. ASSUME NEW n \in Nat PROVE n \in In(f, all) <=> n \in In(f, heard)
      <4>1. n \in In(f, all) => n + 3 < Len(heard)
        <5>1. n \in In(f, all) => ~(n >= off)
          BY <1>9, <2>2, <3>1, <3>2
        <5>2. n >= off \/ n < off
          BY <1>1, <3>2
        <5> QED BY <1>11, <2>2, <5>1, <5>2
      <4> QED BY <1>10, <1>12, <2>2, <3>2, <4>1
    <3> QED BY <1>7, <2>2, <3>2
  <2>3. Named(all) = Named(heard)
    BY <1>4, <1>6, <2>2
  <2>4. CASE Named(all) = {}
    BY <2>1, <2>4 DEF LastNamed, all, text
  <2>5. CASE Named(all) # {}
    <3>1. /\ asked \in Named(heard)
          /\ \A g \in Named(heard) : Max(In(asked, heard)) >= Max(In(g, heard))
      <4>1. asked = LastNamed(heard) /\ Named(heard) # {}
        BY <2>3, <2>5
      <4> QED BY <1>1, <4>1, OneIsLast DEF Asking, In
    <3> DEFINE g == LastNamed(all)
    <3>2. g \in Named(all) /\ asked \in Named(all) /\ g \in Fonts /\ asked \in Fonts
      BY <1>6, <1>14, <2>3, <2>5, <3>1
    <3>3. /\ Max(In(g, all)) >= Max(In(asked, all))
          /\ Max(In(asked, all)) >= Max(In(g, all))
      <4> HIDE DEF g
      <4>1. Max(In(asked, heard)) >= Max(In(g, heard))
        BY <2>3, <3>1, <3>2
      <4>2. In(g, all) = In(g, heard) /\ In(asked, all) = In(asked, heard)
        BY <2>2, <3>2
      <4>3. Max(In(g, all)) >= Max(In(asked, all))
        BY <1>14, <2>5, <3>2 DEF g
      <4> QED BY <4>1, <4>2, <4>3
    <3> HIDE DEF g
    <3>4. Max(In(g, all)) \in Nat /\ Max(In(asked, all)) \in Nat
      BY <1>1, <1>7, <1>13, <3>2
    <3>5. Max(In(g, all)) = Max(In(asked, all))
      BY <3>3, <3>4
    <3>6. g = asked
      BY <1>1, <3>2, <3>5, NamedApart DEF In
    <3> QED BY <2>1, <3>6 DEF g, text, all
  <2> QED BY <2>4, <2>5
<1>16. ASSUME NEW f \in Named(text) PROVE FontAfter(text) = LastNamed(all)
  <2>0. f \in Fonts
    BY <1>6, <1>16
  <2>1. FontAfter(text) = f
    <3>1. \A g \in Named(text) : g = f
      BY <1>5, <1>16, NotBoth
    <3> QED BY <1>2, <1>8, <1>16, <2>0, <3>1
  <2>2. PICK n \in In(f, text) : TRUE
    BY <1>4, <1>16, <2>0
  <2>3. n \in Nat /\ n + off \in Nat /\ n + off >= off /\ (n + off) - off = n
    BY <1>1, <1>7, <2>0
  <2>4. n + off \in In(f, all)
    BY <1>9, <2>0, <2>2, <2>3
  <2>5. f \in Named(all)
    BY <1>4, <2>0, <2>4
  <2> DEFINE g == LastNamed(all)
             m == Max(In(g, all))
  <2>6. g \in Named(all) /\ g \in Fonts /\ m >= Max(In(f, all))
    BY <1>6, <1>14, <2>5
  <2>7. m \in In(g, all) /\ m \in Nat
    BY <1>1, <1>7, <1>13, <2>6
  <2>8. Max(In(f, all)) \in Nat /\ n + off <= Max(In(f, all))
    BY <1>1, <1>7, <1>13, <2>0, <2>4, <2>5
  <2> HIDE DEF g, m
  <2>9. m >= off /\ m - off \in Nat
    BY <1>1, <2>3, <2>6, <2>7, <2>8
  <2>10. g \in Named(text)
    BY <1>4, <1>9, <2>6, <2>7, <2>9
  <2>11. g = f
    BY <1>5, <1>16, <2>10, NotBoth
  <2> QED BY <2>1, <2>11 DEF g
<1>17. Named(text) # {} => FontAfter(text) = LastNamed(all)
  BY <1>16
<1>18. Named(text) # {} => FontAfter(buffer_push(run)) = LastNamed(heard \o run)
  BY <1>17 DEF text, all
<1> QED BY <1>15, <1>18
-----------------------------------------------------------------------------
(* The steps.                                                              *)

Latest(text) ==
  CHOOSE f \in Named(text) : \A g \in Named(text) :
    Max(Found(FontName[f], text)) >= Max(Found(FontName[g], text))

LEMMA ThatIsLatest == ASSUME NEW text, Named(text) # {} PROVE LastNamed(text) = Latest(text)
BY Zenon DEF LastNamed, Latest

Fonted == quirks = {} => font = asked /\ (Named(heard) # {} => asked = Latest(heard))

IInv == Types /\ Held /\ NameIsSeen /\ Fonted

LEMMA OneRun ==
  ASSUME Texts, NEW n \in 1 .. Min({MaxRun, Len(script)})
  PROVE  /\ SubSeq(script, 1, n) \in Seq(Symbol) /\ SubSeq(script, n + 1, Len(script)) \in Seq(Symbol)
         /\ Len(SubSeq(script, 1, n)) <= BufferSize
<1> DEFINE s == Len(script)
           m == Min({MaxRun, s})
<1>1. s \in Nat /\ MaxRun \in Nat /\ MaxRun <= BufferSize /\ BufferSize \in Nat
      /\ script \in Seq(Symbol)
  BY LenProperties, InlineDataAssumption DEF Texts
<1>2. m <= MaxRun /\ m <= s /\ m \in Nat
  <2> HIDE DEF s
  <2>1. \E x \in {MaxRun, s} : \A y \in {MaxRun, s} : x <= y
    BY <1>1
  <2>2. m \in {MaxRun, s} /\ \A y \in {MaxRun, s} : m <= y
    BY <2>1 DEF Min
  <2> QED BY <1>1, <2>2
<1>3. n \in 1 .. m
  OBVIOUS
<1> HIDE DEF m
<1>4. n \in Nat \ {0} /\ n <= MaxRun /\ n <= s
  <2> HIDE DEF s
  <2> QED BY <1>1, <1>2, <1>3
<1>5. SubSeq(script, 1, n) \in Seq(Symbol) /\ SubSeq(script, n + 1, s) \in Seq(Symbol)
  <2>1. n + 1 \in Nat \ {0} /\ s \in Int /\ s <= s /\ 1 \in Nat \ {0} /\ n \in Int
    BY <1>1, <1>4
  <2> QED BY <1>1, <1>4, <2>1, PartOf
<1>6. Len(SubSeq(script, 1, n)) = IF 1 <= n THEN n - 1 + 1 ELSE 0
  <2>1. \A i \in 1 .. n : script[i] \in Symbol
    <3>1. \A i \in 1 .. n : i \in 1 .. s
      <4> HIDE DEF s
      <4> QED BY <1>1, <1>4
    <3> QED BY <1>1, <3>1, ElementOfSeq
  <2> QED BY <1>4, <2>1, SubSeqProperties
<1> DEFINE l == Len(SubSeq(script, 1, n))
<1>7. l <= BufferSize
  <2>1. l = IF 1 <= n THEN n - 1 + 1 ELSE 0
    BY <1>6
  <2> HIDE DEF l
  <2> QED BY <1>1, <1>4, <2>1
<1> QED BY <1>5, <1>7

LEMMA Processed ==
  ASSUME NEW live \in BOOLEAN, NEW data, NEW after \in inlinepng_process_data(live, data)
  PROVE  after.live \in BOOLEAN /\ after.ended \in BOOLEAN
<1>1. CASE data = <<>>
  <2>1. after = [live |-> live, ended |-> FALSE]
    BY <1>1 DEF inlinepng_process_data
  <2>2. after.live = live /\ after.ended = FALSE
    BY <2>1
  <2> QED BY <2>2, Zenon
<1>2. CASE data # <<>> /\ ~live
  <2>1. after = [live |-> FALSE, ended |-> TRUE]
    BY <1>2 DEF inlinepng_process_data
  <2> QED BY <2>1
<1>3. CASE data # <<>> /\ live
  <2>1. after \in {[live |-> TRUE, ended |-> FALSE], [live |-> FALSE, ended |-> TRUE],
                   [live |-> FALSE, ended |-> FALSE]}
    BY <1>3 DEF inlinepng_process_data
  <2>2. after = [live |-> TRUE, ended |-> FALSE] \/ after = [live |-> FALSE, ended |-> TRUE]
        \/ after = [live |-> FALSE, ended |-> FALSE]
    BY <2>1
  <2>3. CASE after = [live |-> TRUE, ended |-> FALSE]
    BY <2>3, Zenon
  <2>4. CASE after = [live |-> FALSE, ended |-> TRUE]
    BY <2>4, Zenon
  <2>5. CASE after = [live |-> FALSE, ended |-> FALSE]
    BY <2>5, Zenon
  <2> QED BY <2>2, <2>3, <2>4, <2>5, Zenon
<1> QED BY <1>1, <1>2, <1>3, Zenon

LEMMA Nothing ==
  /\ <<>> \in Seq(Symbol) /\ <<>> \in Carried /\ <<>> \in Seq(Seq(Bit)) /\ Len(<<>>) <= BufferSize
  /\ EndOf(<<>>, <<>>)
  /\ \A name \in AllNames : Found(name, <<>>) = {}
  /\ Named(<<>>) = {}
<1>1. /\ <<>> \in Seq(Symbol) /\ <<>> \in Seq(Bit) /\ <<>> \in Seq(Seq(Bit)) /\ Len(<<>>) = 0
  BY EmptySeq
<1>2. <<>> \in Carried
  BY <1>1 DEF Carried
<1>3. EndOf(<<>>, <<>>)
  BY <1>1 DEF EndOf
<1>4. \A name \in AllNames : Found(name, <<>>) = {}
  <2> SUFFICES ASSUME NEW name \in AllNames PROVE Found(name, <<>>) = {}
    OBVIOUS
  <2>1. Found(name, <<>>) \subseteq 0 .. 0 - 3 - 1
    BY <1>1, NamesLong DEF Found
  <2>2. 0 .. 0 - 3 - 1 = {}
    OBVIOUS
  <2> QED BY <2>1, <2>2
<1>5. Named(<<>>) = {}
  <2>1. \A f \in Fonts : FontName[f] \in AllNames
    BY DEF AllNames, Fonts
  <2> QED BY <1>4, <2>1 DEF Named, Fonts
<1>6. Len(<<>>) <= BufferSize
  BY <1>1, InlineDataAssumption
<1> QED BY <1>1, <1>2, <1>3, <1>4, <1>5, <1>6

LEMMA InitTypes == Init => IInv
<1> SUFFICES ASSUME Init PROVE IInv
  OBVIOUS
<1>1. script \in Seq(Symbol)
  <2>1. PICK words \in [1 .. MaxWords -> Word] : script = FlattenSeq(words)
    BY DEF Init
  <2>2. \A w \in Word : w \in Seq(Symbol)
    <3>1. \A name \in AllNames : name \in Seq(Symbol)
      BY NamesLong
    <3>2. <<"h">> \in Seq(Symbol) /\ <<"f", "f">> \in Seq(Symbol)
      BY DEF Symbol, base64alphabet
    <3>3. <<" ">> \in Seq(Symbol) /\ <<"=">> \in Seq(Symbol) /\ <<"-">> \in Seq(Symbol)
      BY DEF Symbol
    <3> QED BY <3>1, <3>2, <3>3, Zenon DEF Word, AllNames
  <2>3. words \in Seq(Seq(Symbol))
    <3>1. words \in [1 .. MaxWords -> Seq(Symbol)]
      BY <2>2
    <3> QED BY <3>1, InlineDataAssumption, SeqDef
  <2> QED BY <2>1, <2>3, Flattened
<1>2. Types
  <2>1. Flags
    BY DEF Init, Flags
  <2>2. Texts /\ Image
    BY <1>1, Nothing DEF Init, Texts, Image
  <2>3. Asking
    BY DEF Init, Asking, Fonts
  <2> QED BY <2>1, <2>2, <2>3 DEF Types
<1>3. Held
  BY Nothing DEF Init, Held
<1>4. NameIsSeen
  BY Nothing DEF Init, NameIsSeen, AllNames
<1>5. Fonted
  BY Nothing DEF Init, Fonted
<1> QED BY <1>2, <1>3, <1>4, <1>5 DEF IInv

LEMMA FontTypes ==
  ASSUME Asking, NEW text
  PROVE  FontAfter(text) \in Fonts
BY DEF Asking, FontAfter, Fonts

LEMMA QuirkTypes ==
  ASSUME Asking, NEW run
  PROVE  quirks \cup Unseen(run) \subseteq {"first", "both", "shifted", "swallowed"}
         /\ ("swallowed" \in quirks \cup Unseen(run) <=> "swallowed" \in quirks)
BY DEF Asking, Unseen

LEMMA SearchTypes ==
  ASSUME IInv, NEW n \in 1 .. Min({MaxRun, Len(script)}), ~processing_png,
         Search(SubSeq(script, 1, n)), script' = SubSeq(script, n + 1, Len(script))
  PROVE  IInv'
<1> DEFINE run == SubSeq(script, 1, n)
<1>1. run \in Seq(Symbol) /\ script' \in Seq(Symbol) /\ Len(run) <= BufferSize
  BY OneRun DEF IInv, Types
<1> HIDE DEF run
<1>2. /\ buffer' = buffer_push(run) /\ font' = FontAfter(buffer')
      /\ Found(inline_magic, buffer') = {} /\ file_end' = FALSE
      /\ heard' = heard \o run /\ asked' = LastNamed(heard') /\ quirks' = quirks \cup Unseen(run)
      /\ image' = <<>> /\ fed' = <<>>
      /\ processing_png' = processing_png /\ Gpng_ptr' = Gpng_ptr /\ base64_bits' = base64_bits
  BY DEF Search, run
<1>3. Flags /\ Texts /\ Image /\ Asking /\ heard' \in Seq(Symbol)
  BY <1>1, <1>2, ConcatProperties DEF IInv, Types, Texts
<1>4. Types'
  <2>1. Flags'
    <3>1. FALSE \in BOOLEAN
      OBVIOUS
    <3> QED BY <1>2, <1>3, <3>1, Zenon DEF Flags
  <2>2. Texts' /\ Image'
    BY <1>1, <1>2, <1>3, Nothing, Pushed DEF Texts, Image
  <2>3. Asking'
    <3>1. font' \in Fonts
      BY <1>2, <1>3, FontTypes
    <3>2. asked' \in Fonts
      BY <1>2, <1>3, OneIsLast DEF Asking
    <3> QED BY <1>2, <1>3, <3>1, <3>2, QuirkTypes DEF Asking
  <2> QED BY <2>1, <2>2, <2>3 DEF Types
<1>5. "swallowed" \notin quirks' => EndOf(buffer, heard)
  BY <1>2, <1>3, QuirkTypes DEF IInv, Held
<1>6. Held'
  BY <1>1, <1>2, <1>3, <1>5, StillTheEnd DEF Held
<1>7. NameIsSeen'
  <2> SUFFICES ASSUME "shifted" \notin quirks', "swallowed" \notin quirks'
               PROVE  Found(inline_magic, heard \o run) = {}
    BY <1>2 DEF NameIsSeen
  <2>1. ~PushesOut(run)
    BY <1>2 DEF Unseen
  <2>2. Found(inline_magic, heard) = {}
    BY <1>2 DEF IInv, NameIsSeen
  <2>3. inline_magic \in AllNames
    BY DEF AllNames
  <2> SUFFICES ASSUME NEW m \in Found(inline_magic, heard \o run) PROVE FALSE
    OBVIOUS
  <2>4. m \in Nat /\ Len(heard) \in Nat /\ Before(run) \in Int
    <3>1. Len(heard \o run) \in Nat /\ Len(buffer_push(run)) \in Nat /\ Len(heard) \in Nat
      BY <1>1, <1>2, <1>3, LenProperties, Pushed DEF Texts
    <3>2. Before(run) \in Int
      BY <3>1 DEF Before
    <3> QED BY <3>1, <3>2 DEF Found
  <2>5. CASE m >= Before(run)
    BY <1>1, <1>2, <1>3, <1>5, <2>3, <2>4, <2>5, InBuffer
  <2>6. CASE m < Before(run) /\ m + 3 < Len(heard)
    BY <1>1, <1>3, <2>2, <2>3, <2>4, <2>6, HeardBefore
  <2>7. CASE m < Before(run) /\ ~(m + 3 < Len(heard))
    BY <1>1, <1>3, <1>5, <2>1, <2>3, <2>7, BetweenIsPushedOut
  <2> QED BY <2>4, <2>5, <2>6, <2>7
<1>8. Fonted'
  <2> SUFFICES ASSUME quirks' = {} PROVE font' = asked' /\ (Named(heard') # {} => asked' = Latest(heard'))
    BY DEF Fonted
  <2>1. Unseen(run) = {} /\ quirks = {}
    BY <1>2
  <2>2. font = asked /\ (Named(heard) # {} => asked = LastNamed(heard))
    BY <2>1, ThatIsLatest DEF IInv, Fonted
  <2>3. font' = asked'
    BY <1>1, <1>2, <1>3, <1>5, <2>1, <2>2, FontFollows
  <2>4. Named(heard') # {} => asked' = Latest(heard')
    BY <1>2, ThatIsLatest
  <2> QED BY <2>3, <2>4
<1> QED BY <1>4, <1>6, <1>7, <1>8 DEF IInv

LEMMA BeginTypes ==
  ASSUME IInv, NEW n \in 1 .. Min({MaxRun, Len(script)}), ~processing_png,
         Begin(SubSeq(script, 1, n)), script' = SubSeq(script, n + 1, Len(script))
  PROVE  IInv'
<1> DEFINE run == SubSeq(script, 1, n)
           text == buffer_push(run)
           rest == SubSeq(text, Min(Found(inline_magic, text)) + Len(inline_magic) + 1, Len(text))
           d == base64_decode(<<>>, rest)
<1>1. run \in Seq(Symbol) /\ script' \in Seq(Symbol) /\ Len(run) <= BufferSize
  BY OneRun DEF IInv, Types
<1> HIDE DEF run
<1>2. Flags /\ Texts /\ Image /\ Asking
  BY DEF IInv, Types
<1>3. /\ Found(inline_magic, text) # {} /\ font' = FontAfter(text)
      /\ base64_bits' = d.bits /\ processing_png' = ~d.failflag
      /\ image' = rest /\ buffer' = <<>> /\ heard' = <<>>
      /\ asked' = LastNamed(heard \o run) /\ quirks' = quirks \cup Unseen(run)
  BY Zenon DEF Begin, run
<1>4. PICK created \in BOOLEAN : \E after \in inlinepng_process_data(created, d.output) :
        Gpng_ptr' = after.live /\ file_end' = after.ended /\ fed' = IF created THEN d.output ELSE <<>>
  BY Zenon DEF Begin, run
<1>5. PICK after \in inlinepng_process_data(created, d.output) :
        Gpng_ptr' = after.live /\ file_end' = after.ended /\ fed' = IF created THEN d.output ELSE <<>>
  BY <1>4, Zenon
<1>6. text \in Seq(Symbol)
  BY <1>1, <1>2, Pushed
<1>7. rest \in Seq(Symbol)
  <2> DEFINE m == Min(Found(inline_magic, text))
             l == Len(text)
  <2>1. m \in Nat /\ l \in Nat /\ Len(inline_magic) = 3
    <3> HIDE DEF text
    <3> QED BY <1>3, <1>6, FoundFirst, Names, LenProperties
  <2>2. m + 3 + 1 \in Nat \ {0} /\ l \in Int /\ l <= l
    <3> HIDE DEF m, l
    <3> QED BY <2>1
  <2>3. SubSeq(text, m + 3 + 1, l) \in Seq(Symbol)
    <3> HIDE DEF m, text
    <3> QED BY <1>6, <2>2, PartOf
  <2> HIDE DEF m, text, l
  <2> QED BY <2>1, <2>3 DEF m, l
<1> HIDE DEF text, rest
<1>8. d.bits \in Carried /\ d.output \in Seq(Seq(Bit)) /\ d.failflag \in BOOLEAN
  <2>1. d \in Decoder
    BY <1>7, Nothing, DecodedTypes
  <2> HIDE DEF d
  <2>2. d.bits \in Carried /\ d.output \in Seq(Seq(Bit))
    BY <2>1 DEF Decoder
  <2>3. d.failflag \in BOOLEAN
    BY <2>1 DEF Decoder
  <2> QED BY <2>2, <2>3, Zenon
<1> HIDE DEF d
<1>9. Types'
  <2>1. Flags'
    <3>1. Gpng_ptr' \in BOOLEAN /\ file_end' \in BOOLEAN
      BY <1>5, Processed, Zenon
    <3>2. processing_png' \in BOOLEAN
      BY <1>3, Zenon
    <3> QED BY <3>1, <3>2, Zenon DEF Flags
  <2>2. Texts' /\ Image'
    <3>1. fed' \in Seq(Seq(Bit))
      BY <1>5, <1>8, Nothing, Zenon
    <3> QED BY <1>1, <1>3, <1>7, <1>8, <3>1, Nothing DEF Texts, Image
  <2>3. Asking'
    <3>1. font' \in Fonts
      BY <1>2, <1>3, FontTypes
    <3>2. heard \o run \in Seq(Symbol)
      BY <1>1, <1>2, ConcatProperties DEF Texts
    <3>3. asked' \in Fonts
      BY <1>2, <1>3, <3>2, OneIsLast DEF Asking
    <3> QED BY <1>2, <1>3, <3>1, <3>3, QuirkTypes DEF Asking
  <2> QED BY <2>1, <2>2, <2>3 DEF Types
<1>10. Held'
  BY <1>3, Nothing DEF Held
<1>11. NameIsSeen'
  BY <1>3, Nothing DEF NameIsSeen, AllNames
<1>12. Fonted'
  <2> SUFFICES ASSUME quirks' = {} PROVE font' = asked'
    BY <1>3, Nothing DEF Fonted
  <2>1. Unseen(run) = {} /\ quirks = {}
    BY <1>3
  <2>2. font = asked /\ (Named(heard) # {} => asked = LastNamed(heard)) /\ EndOf(buffer, heard)
    BY <2>1, ThatIsLatest DEF IInv, Fonted, Held
  <2> QED BY <1>1, <1>2, <1>3, <2>1, <2>2, FontFollows DEF text
<1> QED BY <1>9, <1>10, <1>11, <1>12 DEF IInv
LEMMA DecodeTypes ==
  ASSUME IInv, NEW n \in 1 .. Min({MaxRun, Len(script)}), processing_png,
         Decode(SubSeq(script, 1, n)), script' = SubSeq(script, n + 1, Len(script))
  PROVE  IInv'
<1> DEFINE run == SubSeq(script, 1, n)
           d == base64_decode(base64_bits, run)
<1>1. run \in Seq(Symbol) /\ script' \in Seq(Symbol)
  BY OneRun DEF IInv, Types
<1> HIDE DEF run
<1>2. Flags /\ Texts /\ Image /\ Asking
  BY DEF IInv, Types
<1>3. /\ base64_bits' = d.bits /\ processing_png' = ~file_end'
      /\ fed' = (IF Gpng_ptr THEN fed \o d.output ELSE fed) /\ image' = image \o run
      /\ buffer' = buffer /\ font' = font /\ heard' = heard /\ asked' = asked /\ quirks' = quirks
  BY Zenon DEF Decode, run
<1>4. PICK after \in inlinepng_process_data(Gpng_ptr, d.output) :
        Gpng_ptr' = after.live /\ file_end' = (after.ended \/ d.failflag)
  BY Zenon DEF Decode, run
<1>5. d.bits \in Carried /\ d.output \in Seq(Seq(Bit))
  <2>1. d \in Decoder
    BY <1>1, <1>2, DecodedTypes DEF Image
  <2> HIDE DEF d
  <2> QED BY <2>1 DEF Decoder
<1> HIDE DEF d
<1>6. Types'
  <2>1. Flags'
    <3>1. Gpng_ptr' \in BOOLEAN
      BY <1>2, <1>4, Processed, Zenon DEF Flags
    <3>2. file_end' \in BOOLEAN /\ processing_png' \in BOOLEAN
      BY <1>3, <1>4, Zenon
    <3> QED BY <3>1, <3>2, Zenon DEF Flags
  <2>2. Texts' /\ Image'
    BY <1>1, <1>2, <1>3, <1>5, ConcatProperties DEF Texts, Image
  <2>3. Asking'
    BY <1>2, <1>3 DEF Asking
  <2> QED BY <2>1, <2>2, <2>3 DEF Types
<1>7. Held' /\ NameIsSeen' /\ Fonted'
  BY <1>3, Nothing DEF IInv, Held, NameIsSeen, Fonted, AllNames
<1> QED BY <1>6, <1>7 DEF IInv

LEMMA SwallowTypes ==
  ASSUME IInv, NEW n \in 1 .. Min({MaxRun, Len(script)}), processing_png,
         Swallow(SubSeq(script, 1, n)), script' = SubSeq(script, n + 1, Len(script))
  PROVE  IInv'
<1>1. SubSeq(script, 1, n) \in Seq(Symbol) /\ script' \in Seq(Symbol)
  BY OneRun DEF IInv, Types
<1>2. /\ processing_png' = FALSE /\ quirks' = quirks \cup {"swallowed"}
      /\ heard' = heard \o SubSeq(script, 1, n) /\ image' = <<>> /\ fed' = <<>>
      /\ file_end' = file_end /\ Gpng_ptr' = Gpng_ptr /\ buffer' = buffer
      /\ base64_bits' = base64_bits /\ font' = font /\ asked' = asked
  BY DEF Swallow
<1>3. Types'
  <2>1. Flags'
    BY <1>2, Zenon DEF IInv, Types, Flags
  <2>2. Texts' /\ Image'
    BY <1>1, <1>2, Nothing, ConcatProperties DEF IInv, Types, Texts, Image
  <2>3. Asking'
    BY <1>2 DEF IInv, Types, Asking
  <2> QED BY <2>1, <2>2, <2>3 DEF Types
<1>4. Held' /\ NameIsSeen' /\ Fonted'
  BY <1>2 DEF Held, NameIsSeen, Fonted
<1> QED BY <1>3, <1>4 DEF IInv

LEMMA ClearTypes == ASSUME IInv, inline_data_clear PROVE IInv'
<1>1. /\ buffer' = <<>> /\ heard' = <<>>
      /\ processing_png' = processing_png /\ file_end' = file_end /\ Gpng_ptr' = Gpng_ptr
      /\ fed' = fed /\ base64_bits' = base64_bits /\ font' = font /\ script' = script
      /\ asked' = asked /\ image' = image /\ quirks' = quirks
  BY DEF inline_data_clear, reader
<1>2. Types'
  <2>1. Flags'
    BY <1>1, Zenon DEF IInv, Types, Flags
  <2>2. Texts' /\ Image' /\ Asking'
    BY <1>1, Nothing DEF IInv, Types, Texts, Image, Asking
  <2> QED BY <2>1, <2>2 DEF Types
<1>3. Held' /\ NameIsSeen' /\ Fonted'
  BY <1>1, Nothing DEF IInv, Held, NameIsSeen, Fonted, AllNames
<1> QED BY <1>2, <1>3 DEF IInv

LEMMA SameTypes == ASSUME IInv, UNCHANGED vars PROVE IInv'
<1>1. /\ buffer' = buffer /\ heard' = heard
      /\ processing_png' = processing_png /\ file_end' = file_end /\ Gpng_ptr' = Gpng_ptr
      /\ fed' = fed /\ base64_bits' = base64_bits /\ font' = font /\ script' = script
      /\ asked' = asked /\ image' = image /\ quirks' = quirks
  BY DEF vars, reader, ghosts
<1>2. Types' /\ Held' /\ NameIsSeen' /\ Fonted'
  BY <1>1, Zenon DEF IInv, Types, Flags, Texts, Image, Asking, Held, NameIsSeen, Fonted
<1> QED BY <1>2 DEF IInv

LEMMA StepTypes == ASSUME IInv, [Next]_vars PROVE IInv'
<1>1. ASSUME NEW n \in 1 .. Min({MaxRun, Len(script)}),
             inline_data_receive(SubSeq(script, 1, n)),
             script' = SubSeq(script, n + 1, Len(script))
      PROVE  IInv'
  BY <1>1, SearchTypes, BeginTypes, DecodeTypes, SwallowTypes, Zenon DEF inline_data_receive
<1>2. CASE inline_data_clear
  BY <1>2, ClearTypes
<1>3. CASE UNCHANGED vars
  BY <1>3, SameTypes
<1> QED BY <1>1, <1>2, <1>3, Zenon DEF Next

(* The variables keep their types, and the buffer its size (buffer_push,   *)
(* base64_decode, inline_data_receive).                                    *)
THEOREM InlineDataTypes == Spec => []TypeOK
<1>1. IInv => TypeOK
  <2> SUFFICES ASSUME IInv PROVE TypeOK
    OBVIOUS
  <2>1. processing_png \in BOOLEAN /\ file_end \in BOOLEAN /\ Gpng_ptr \in BOOLEAN
    BY Zenon DEF IInv, Types, Flags
  <2>2. Range(buffer) \subseteq Symbol /\ Len(buffer) <= BufferSize
    <3>1. buffer \in Seq(Symbol) /\ Len(buffer) <= BufferSize
      BY DEF IInv, Types, Texts
    <3>2. DOMAIN buffer = 1 .. Len(buffer) /\ \A i \in 1 .. Len(buffer) : buffer[i] \in Symbol
      BY <3>1, LenProperties, ElementOfSeq
    <3> QED BY <3>1, <3>2 DEF Range
  <2>3. Len(base64_bits) \in {0, 2, 4, 6}
    BY DEF IInv, Types, Image, Carried
  <2>4. /\ font \in {"normal", "double"} /\ asked \in {"normal", "double"}
        /\ quirks \subseteq {"first", "both", "shifted", "swallowed"}
    BY DEF IInv, Types, Asking, Fonts
  <2> QED BY <2>1, <2>2, <2>3, <2>4, Zenon DEF TypeOK
<1> QED BY <1>1, InitTypes, StepTypes, PTL DEF Spec

(* The name of an image is seen however the runs cut it, for every size of *)
(* the buffer that holds a name and a run (buffer_push, buffer_search).    *)
THEOREM EveryNameIsSeen == Spec => []NameIsSeen
<1>1. IInv => NameIsSeen
  BY DEF IInv
<1> QED BY <1>1, InitTypes, StepTypes, PTL DEF Spec

(* The font is the one that was named last (inline_data_receive), as long  *)
(* as nothing that loses it has been met.                                  *)
THEOREM LastNamedIsUsed == Spec => []FontAsNamed
<1>1. IInv => FontAsNamed
  BY DEF IInv, Fonted, FontAsNamed
<1> QED BY <1>1, InitTypes, StepTypes, PTL DEF Spec
-----------------------------------------------------------------------------
(* The decoding.  The letters of a text, one at a time.                    *)

Ends(text) == {i \in 1 .. Len(text) : text[i] \notin base64alphabet \cup {" "}}
Ended(text) == Ends(text) # {}
UpToEnd(text) == IF Ends(text) = {} THEN Len(text) ELSE Min(Ends(text)) - 1
Keeping(q, text, n) ==
  /\ q \in [0 .. n -> Seq(base64alphabet)] /\ q[0] = <<>>
  /\ \A k \in 1 .. n : q[k] = IF text[k] = " " THEN q[k - 1] ELSE Append(q[k - 1], text[k])

LEMMA UpToAnEnd ==
  ASSUME NEW text \in Seq(Symbol)
  PROVE  /\ UpToEnd(text) \in Nat /\ UpToEnd(text) <= Len(text)
         /\ \A k \in 1 .. UpToEnd(text) : text[k] \in base64alphabet \/ text[k] = " "
         /\ Ended(text) => UpToEnd(text) + 1 \in Ends(text)
<1> DEFINE l == Len(text)
<1>1. l \in Nat
  BY LenProperties
<1>2. Ends(text) = {i \in 1 .. l : text[i] \notin base64alphabet \cup {" "}}
  BY DEF Ends
<1>3. UpToEnd(text) = IF Ends(text) = {} THEN l ELSE Min(Ends(text)) - 1
  BY DEF UpToEnd
<1> HIDE DEF l
<1>4. CASE Ends(text) = {}
  <2>1. \A k \in 1 .. l : text[k] \in base64alphabet \/ text[k] = " "
    BY <1>2, <1>4
  <2>2. UpToEnd(text) = l
    BY <1>3, <1>4, Zenon
  <2>3. l <= l
    BY <1>1
  <2> QED BY <1>1, <1>4, <2>1, <2>2, <2>3 DEF Ended, l
<1>5. CASE Ends(text) # {}
  <2> DEFINE m == Min(Ends(text))
  <2>0. \A i \in Ends(text) : i \in 1 .. l
    BY <1>2
  <2>1. Ends(text) \in SUBSET Nat
    BY <1>1, <2>0
  <2>2. \E i \in Ends(text) : \A j \in Ends(text) : i <= j
    BY <1>5, <2>1, LeastExists
  <2>3. m \in Ends(text) /\ \A j \in Ends(text) : m <= j
    BY <2>2 DEF Min
  <2> HIDE DEF m
  <2>4. UpToEnd(text) = m - 1
    BY <1>3, <1>5 DEF m
  <2>5. m \in 1 .. l
    BY <1>2, <2>3
  <2>6. ASSUME NEW k \in 1 .. m - 1 PROVE text[k] \in base64alphabet \/ text[k] = " "
    <3>1. k \in 1 .. l /\ ~(m <= k)
      BY <1>1, <2>5
    <3>2. k \notin Ends(text)
      BY <2>3, <3>1
    <3> QED BY <1>2, <3>1, <3>2
  <2>7. m - 1 \in Nat /\ m - 1 <= l /\ (m - 1) + 1 = m
    BY <1>1, <2>5
  <2> QED BY <2>3, <2>4, <2>6, <2>7 DEF l
<1> QED BY <1>4, <1>5

LEMMA LettersKept ==
  ASSUME NEW text \in Seq(Symbol)
  PROVE  \E q : Keeping(q, text, UpToEnd(text)) /\ q[UpToEnd(text)] = Letters(text)
<1> DEFINE N == UpToEnd(text)
           Reads(r) == r = [n \in 0 .. N |-> IF n = 0 THEN <<>>
                              ELSE IF text[n] = " " THEN r[n - 1] ELSE Append(r[n - 1], text[n])]
           d == CHOOSE r : Reads(r)
           A == Seq(base64alphabet)
           f == [x \in (1 .. N) \X A |-> IF text[x[1]] = " " THEN x[2] ELSE Append(x[2], text[x[1]])]
           a == <<>>
<1>1. N \in Nat /\ \A k \in 1 .. N : text[k] \in base64alphabet \/ text[k] = " "
  BY UpToAnEnd
<1>0. N \in Nat /\ 0 \in 0 .. N /\ \A k \in 1 .. N : k - 1 \in 0 .. N /\ k \in 0 .. N /\ k # 0
  <2>1. N \in Nat
    BY <1>1
  <2> HIDE DEF N
  <2> QED BY <2>1
<1>2. Letters(text) = d[N]
  BY Zenon DEF Letters, UpToEnd, Ends
<1> HIDE DEF N
<1>3. f \in [(1 .. N) \X A -> A]
  <2> SUFFICES ASSUME NEW k \in 1 .. N, NEW s \in A, text[k] # " " PROVE Append(s, text[k]) \in A
    OBVIOUS
  <2>1. text[k] \in base64alphabet
    BY <1>1
  <2> QED BY <2>1, AppendProperties
<1>4. a \in A
  BY EmptySeq
<1>5. PICK q : Recursive(q, N, A, a, f)
  <2> HIDE DEF f, a, A
  <2> QED BY <1>1, <1>3, <1>4, Recursion
<1>6. q \in [0 .. N -> A] /\ q[0] = a /\ \A k \in 1 .. N : q[k] = f[<<k, q[k - 1]>>]
  BY <1>5 DEF Recursive
<1>7. ASSUME NEW k \in 1 .. N
      PROVE  q[k] = IF text[k] = " " THEN q[k - 1] ELSE Append(q[k - 1], text[k])
  <2>1. k - 1 \in 0 .. N
    BY <1>0
  <2>2. q[k - 1] \in A
    BY <1>6, <2>1
  <2>3. <<k, q[k - 1]>> \in (1 .. N) \X A
    BY <2>2
  <2>4. f[<<k, q[k - 1]>>] = IF text[k] = " " THEN q[k - 1] ELSE Append(q[k - 1], text[k])
    <3> HIDE DEF A
    <3> QED BY <2>3
  <2> HIDE DEF f
  <2> QED BY <1>6, <2>4
<1> HIDE DEF f
<1>8. Reads(q)
  <2>1. q = [n \in 0 .. N |-> q[n]]
    BY <1>6
  <2>2. \A n \in 0 .. N : n # 0 => n \in 1 .. N
    BY <1>0
  <2>3. \A n \in 0 .. N : q[n] = IF n = 0 THEN <<>> ELSE IF text[n] = " " THEN q[n - 1]
                                 ELSE Append(q[n - 1], text[n])
    BY <1>6, <1>7, <2>2
  <2> QED BY <2>1, <2>3
<1>9. Reads(d)
  <2> HIDE DEF Reads
  <2> QED BY <1>8
<1> HIDE DEF d
<1>10. /\ d[0] = <<>>
       /\ \A k \in 1 .. N : d[k] = IF text[k] = " " THEN d[k - 1] ELSE Append(d[k - 1], text[k])
  BY <1>0, <1>9
<1> HIDE DEF Reads
<1>11. \A k \in 1 .. N : d[k - 1] = q[k - 1] => d[k] = q[k]
  BY <1>7, <1>10
<1>12. \A k \in 0 .. N : d[k] = q[k]
  <2>1. d[0] = q[0]
    BY <1>6, <1>10
  <2>2. Alike(d, q, N)
    BY <1>11, <2>1, Zenon DEF Alike
  <2>3. N \in Nat
    BY <1>0
  <2> QED BY <2>2, <2>3, OneRecursion
<1>13. Keeping(q, text, N)
  <2>1. q \in [0 .. N -> Seq(base64alphabet)] /\ q[0] = <<>>
    BY <1>6
  <2> QED BY <1>7, <2>1, Zenon DEF Keeping
<1>14. q[N] = Letters(text)
  <2>1. N \in 0 .. N
    BY <1>0
  <2> QED BY <1>2, <1>12, <2>1
<1> QED BY <1>13, <1>14 DEF N

LEMMA KeptTheSame ==
  ASSUME NEW t, NEW u, NEW n \in Nat, NEW m \in Nat, n <= m, NEW q, NEW p,
         Keeping(q, t, n), Keeping(p, u, m), \A k \in 1 .. n : t[k] = u[k]
  PROVE  p[n] = q[n]
<1>0. \A k \in 1 .. n : k \in 1 .. m
  OBVIOUS
<1>1. q[0] = p[0]
  BY DEF Keeping
<1>2. \A k \in 1 .. n : q[k - 1] = p[k - 1] => q[k] = p[k]
  BY <1>0 DEF Keeping
<1>3. \A k \in 0 .. n : q[k] = p[k]
  <2>1. Alike(q, p, n)
    BY <1>1, <1>2, Zenon DEF Alike
  <2> QED BY <2>1, OneRecursion
<1> QED BY <1>3

LEMMA LettersTypes ==
  ASSUME NEW text \in Seq(Symbol)
  PROVE  Letters(text) \in Seq(base64alphabet)
<1>1. PICK q : Keeping(q, text, UpToEnd(text)) /\ q[UpToEnd(text)] = Letters(text)
  BY LettersKept
<1>2. UpToEnd(text) \in 0 .. UpToEnd(text)
  <2>1. UpToEnd(text) \in Nat
    BY UpToAnEnd
  <2> QED BY <2>1
<1> QED BY <1>1, <1>2 DEF Keeping

LEMMA NoLetters == Letters(<<>>) = <<>> /\ ~Ended(<<>>)
<1>1. <<>> \in Seq(Symbol) /\ Len(<<>>) = 0
  BY EmptySeq
<1>2. ~Ended(<<>>) /\ UpToEnd(<<>>) = 0
  BY <1>1 DEF Ended, Ends, UpToEnd
<1>3. PICK q : Keeping(q, <<>>, 0) /\ q[0] = Letters(<<>>)
  BY <1>1, <1>2, LettersKept
<1> QED BY <1>2, <1>3 DEF Keeping

(* The text goes on by a symbol.                                           *)
LEMMA OneSymbol ==
  ASSUME NEW t \in Seq(Symbol), NEW s \in Symbol, ~Ended(t)
  PROVE  LET u == Append(t, s)
         IN  /\ s = " " => ~Ended(u) /\ Letters(u) = Letters(t)
             /\ s \in base64alphabet => ~Ended(u) /\ Letters(u) = Append(Letters(t), s)
             /\ s # " " /\ s \notin base64alphabet => Ended(u) /\ Letters(u) = Letters(t)
<1> DEFINE u == Append(t, s)
           n == Len(t)
<1>1. /\ u \in Seq(Symbol) /\ n \in Nat /\ Len(u) = n + 1
      /\ \A i \in 1 .. n : u[i] = t[i]
      /\ u[n + 1] = s
  BY AppendProperties, LenProperties
<1> HIDE DEF u
<1>2. Ends(t) = {} /\ UpToEnd(t) = n
  BY DEF Ended, UpToEnd
<1> HIDE DEF n
<1>3. PICK q : Keeping(q, t, n) /\ q[n] = Letters(t)
  BY <1>2, LettersKept
<1>4. PICK p : Keeping(p, u, UpToEnd(u)) /\ p[UpToEnd(u)] = Letters(u)
  BY <1>1, LettersKept
<1>5. \A i \in 1 .. n : t[i] \in base64alphabet \cup {" "}
  BY <1>2 DEF Ends, n
<1>6. Ends(u) = {i \in 1 .. n + 1 : u[i] \notin base64alphabet \cup {" "}}
  BY <1>1 DEF Ends
<1>7. \A i \in 1 .. n + 1 : i \in 1 .. n \/ i = n + 1
  BY <1>1
<1>8. CASE s \in base64alphabet \cup {" "}
  <2>1. Ends(u) = {}
    BY <1>1, <1>5, <1>6, <1>7, <1>8
  <2>2. UpToEnd(u) = n + 1 /\ ~Ended(u)
    BY <1>1, <2>1 DEF UpToEnd, Ended
  <2>3. n + 1 \in Nat /\ n <= n + 1 /\ n + 1 \in 1 .. n + 1 /\ (n + 1) - 1 = n
    BY <1>1
  <2>4. p[n] = q[n]
    <3>1. \A k \in 1 .. n : t[k] = u[k]
      BY <1>1
    <3> QED BY <1>1, <1>3, <1>4, <2>2, <2>3, <3>1, KeptTheSame
  <2>5. p[n + 1] = IF u[n + 1] = " " THEN p[n] ELSE Append(p[n], u[n + 1])
    BY <1>4, <2>2, <2>3 DEF Keeping
  <2>6. Letters(u) = IF s = " " THEN Letters(t) ELSE Append(Letters(t), s)
    BY <1>1, <1>3, <1>4, <2>2, <2>4, <2>5
  <2>7. " " \notin base64alphabet
    BY DEF base64alphabet
  <2> QED BY <1>8, <2>2, <2>6, <2>7 DEF u
<1>9. CASE s \notin base64alphabet \cup {" "}
  <2>1. Ends(u) = {n + 1}
    <3>1. n + 1 \in 1 .. n + 1
      BY <1>1
    <3> QED BY <1>1, <1>5, <1>6, <1>7, <1>9, <3>1
  <2>2. UpToEnd(u) + 1 \in {n + 1} /\ Ended(u) /\ UpToEnd(u) \in Nat
    <3>1. Ended(u)
      BY <2>1 DEF Ended
    <3>2. UpToEnd(u) \in Nat
      BY <1>1, UpToAnEnd
    <3> QED BY <1>1, <2>1, <3>1, <3>2, UpToAnEnd
  <2>3. UpToEnd(u) = n
    BY <1>1, <2>2
  <2>4. p[n] = q[n]
    <3>1. \A k \in 1 .. n : t[k] = u[k]
      BY <1>1
    <3>2. n <= n
      BY <1>1
    <3> QED BY <1>1, <1>3, <1>4, <2>3, <3>1, <3>2, KeptTheSame
  <2> QED BY <1>3, <1>4, <1>9, <2>2, <2>3, <2>4 DEF u
<1> QED BY <1>8, <1>9

(* Behind its end a text has no letters.                                   *)
LEMMA NoMoreLetters ==
  ASSUME NEW t \in Seq(Symbol), NEW v \in Seq(Symbol), Ended(t)
  PROVE  Ended(t \o v) /\ Letters(t \o v) = Letters(t)
<1> DEFINE u == t \o v
           n == Len(t)
           e == UpToEnd(t)
           g == UpToEnd(u)
<1>1. /\ u \in Seq(Symbol) /\ n \in Nat /\ Len(v) \in Nat /\ Len(u) = n + Len(v)
      /\ \A i \in 1 .. n : u[i] = t[i]
  <2>1. u \in Seq(Symbol) /\ Len(u) = n + Len(v) /\ n \in Nat /\ Len(v) \in Nat
        /\ \A i \in 1 .. n + Len(v) : u[i] = IF i <= n THEN t[i] ELSE v[i - n]
    BY ConcatProperties, LenProperties
  <2> HIDE DEF u, n
  <2> QED BY <2>1
<1> HIDE DEF u
<1>2. e \in Nat /\ e + 1 \in Ends(t) /\ \A k \in 1 .. e : t[k] \in base64alphabet \/ t[k] = " "
  BY UpToAnEnd
<1>15. Ends(t) = {i \in 1 .. n : t[i] \notin base64alphabet \cup {" "}}
  BY DEF Ends
<1>16. Ends(u) = {i \in 1 .. n + Len(v) : u[i] \notin base64alphabet \cup {" "}}
  BY <1>1 DEF Ends
<1>17. \A i \in 1 .. n : i \in 1 .. n + Len(v)
  <2> DEFINE r == Len(v)
  <2>1. r \in Nat /\ n \in Nat
    BY <1>1
  <2> HIDE DEF r, n
  <2>2. \A i \in 1 .. n : i \in 1 .. n + r
    BY <2>1
  <2> QED BY <2>2 DEF r
<1> HIDE DEF n
<1>3. e + 1 \in Ends(u)
  BY <1>1, <1>2, <1>15, <1>16, <1>17
<1>4. Ended(u)
  BY <1>3 DEF Ended
<1>5. g \in Nat /\ g + 1 \in Ends(u) /\ \A k \in 1 .. g : u[k] \in base64alphabet \/ u[k] = " "
  BY <1>1, <1>4, UpToAnEnd
<1> HIDE DEF e, g
<1>6. e + 1 \in 1 .. n
  BY <1>2, <1>15
<1>7. e \in Nat /\ g \in Nat
  BY <1>2, <1>5
<1>8. u[e + 1] \notin base64alphabet \cup {" "} /\ u[g + 1] \notin base64alphabet \cup {" "}
  BY <1>3, <1>5, <1>16
<1>9. ~(e < g)
  <2> SUFFICES ASSUME e < g PROVE FALSE
    OBVIOUS
  <2>1. e + 1 \in 1 .. g
    BY <1>7
  <2> QED BY <1>5, <1>8, <2>1
<1>10. ~(g < e)
  <2> SUFFICES ASSUME g < e PROVE FALSE
    OBVIOUS
  <2>1. g + 1 \in 1 .. e /\ g + 1 \in 1 .. n
    BY <1>1, <1>6, <1>7
  <2>2. t[g + 1] = u[g + 1]
    BY <1>1, <2>1
  <2> QED BY <1>2, <1>8, <2>1, <2>2
<1>11. g = e
  BY <1>7, <1>9, <1>10
<1>12. PICK q : Keeping(q, t, e) /\ q[e] = Letters(t)
  BY LettersKept DEF e
<1>13. PICK p : Keeping(p, u, e) /\ p[e] = Letters(u)
  BY <1>1, <1>11, LettersKept DEF g
<1>14. p[e] = q[e]
  <2>1. \A k \in 1 .. e : t[k] = u[k]
    <3>1. \A k \in 1 .. e : k \in 1 .. n
      BY <1>1, <1>6, <1>7
    <3> QED BY <1>1, <3>1
  <2>2. e \in Nat /\ e <= e
    BY <1>7
  <2>3. Keeping(q, t, e) /\ Keeping(p, u, e)
    BY <1>12, <1>13
  <2> QED BY <2>1, <2>2, <2>3, KeptTheSame
<1> QED BY <1>4, <1>12, <1>13, <1>14 DEF u
-----------------------------------------------------------------------------
(* The bits of letters in a row, in bytes and what is left over.           *)

BitAt(letters, at) == <<letters[(at \div 6) + 1], (at % 6) + 1>>
Bytes(n) == (6 * n) \div 8
Spare(n) == (6 * n) % 8
Leftover(letters) ==
  [i \in 1 .. Spare(Len(letters)) |-> BitAt(letters, 8 * Bytes(Len(letters)) + i - 1)]
Byte(letters, k) == [i \in 1 .. 8 |-> BitAt(letters, 8 * (k - 1) + i - 1)]

LEMMA BytesAndSpare ==
  ASSUME NEW n \in Nat
  PROVE  /\ Bytes(n) \in Nat /\ Spare(n) \in 0 .. 7 /\ 6 * n = 8 * Bytes(n) + Spare(n)
         /\ Bytes(n + 1) = IF Spare(n) + 6 < 8 THEN Bytes(n) ELSE Bytes(n) + 1
         /\ Spare(n + 1) = IF Spare(n) + 6 < 8 THEN Spare(n) + 6 ELSE Spare(n) + 6 - 8
<1>1. Bytes(n) \in Nat /\ Spare(n) \in 0 .. 7 /\ 6 * n = 8 * Bytes(n) + Spare(n)
  BY DEF Bytes, Spare
<1>2. Bytes(n + 1) \in Nat /\ Spare(n + 1) \in 0 .. 7 /\ 6 * (n + 1) = 8 * Bytes(n + 1) + Spare(n + 1)
  BY DEF Bytes, Spare
<1>3. 6 * (n + 1) = 6 * n + 6
  OBVIOUS
<1>4. 8 * Bytes(n + 1) + Spare(n + 1) = 8 * Bytes(n) + Spare(n) + 6
  BY <1>1, <1>2, <1>3
<1> QED BY <1>1, <1>2, <1>4

LEMMA WhichBit ==
  ASSUME NEW at \in Nat
  PROVE  at \div 6 \in Nat /\ at % 6 \in 0 .. 5 /\ at = 6 * (at \div 6) + (at % 6)
<1>1. at % 6 \in 0 .. 5
  OBVIOUS
<1>2. at \div 6 \in Nat
  OBVIOUS
<1>3. at = 6 * (at \div 6) + (at % 6)
  OBVIOUS
<1> QED BY <1>1, <1>2, <1>3

LEMMA BitTypes ==
  ASSUME NEW letters \in Seq(base64alphabet), NEW at \in Nat, at < 6 * Len(letters)
  PROVE  BitAt(letters, at) \in Bit
<1> DEFINE n == Len(letters)
           i == at \div 6
           j == at % 6
<1>1. n \in Nat
  BY LenProperties
<1>2. i \in Nat /\ j \in 0 .. 5 /\ at = 6 * i + j
  BY WhichBit
<1>3. at < 6 * n
  OBVIOUS
<1> HIDE DEF n, i, j
<1>4. i + 1 \in 1 .. n /\ j + 1 \in 1 .. 6
  BY <1>1, <1>2, <1>3
<1>5. letters[i + 1] \in base64alphabet
  BY <1>4, ElementOfSeq DEF n
<1>6. <<letters[i + 1], j + 1>> \in Bit
  BY <1>4, <1>5 DEF Bit
<1> QED BY <1>6 DEF BitAt, i, j

(* The bits of the letters before do not change with a letter more, and    *)
(* the letter brings its own.                                              *)
LEMMA OldBit ==
  ASSUME NEW letters \in Seq(base64alphabet), NEW s \in base64alphabet,
         NEW at \in Nat, at < 6 * Len(letters)
  PROVE  BitAt(Append(letters, s), at) = BitAt(letters, at)
<1> DEFINE n == Len(letters)
           i == at \div 6
           j == at % 6
           more == Append(letters, s)
<1>1. n \in Nat /\ \A k \in 1 .. n : more[k] = letters[k]
  BY LenProperties, AppendProperties
<1>2. i \in Nat /\ j \in 0 .. 5 /\ at = 6 * i + j
  BY WhichBit
<1>3. at < 6 * n
  OBVIOUS
<1> HIDE DEF n, i, j, more
<1>4. i + 1 \in 1 .. n
  BY <1>1, <1>2, <1>3
<1>5. more[i + 1] = letters[i + 1]
  BY <1>1, <1>4
<1>6. <<more[i + 1], j + 1>> = <<letters[i + 1], j + 1>>
  BY <1>5
<1> QED BY <1>6 DEF BitAt, i, j, more

LEMMA NewBit ==
  ASSUME NEW letters \in Seq(base64alphabet), NEW s \in base64alphabet, NEW k \in 1 .. 6
  PROVE  BitAt(Append(letters, s), 6 * Len(letters) + k - 1) = Bits(s)[k]
<1> DEFINE n == Len(letters)
           at == 6 * n + k - 1
           i == at \div 6
           j == at % 6
           more == Append(letters, s)
<1>1. n \in Nat /\ more[n + 1] = s
  BY LenProperties, AppendProperties
<1> HIDE DEF n, more
<1>2. at \in Nat
  BY <1>1
<1>3. at = 6 * n + k - 1
  OBVIOUS
<1> HIDE DEF at
<1>4. i \in Nat /\ j \in 0 .. 5 /\ at = 6 * i + j
  BY <1>2, WhichBit
<1> HIDE DEF i, j
<1>5. i = n /\ j = k - 1
  BY <1>1, <1>3, <1>4
<1>6. j + 1 = k
  BY <1>5
<1>7. BitAt(more, at) = <<more[i + 1], j + 1>>
  BY DEF BitAt, i, j
<1>8. Bits(s)[k] = <<s, k>>
  BY DEF Bits
<1>9. BitAt(more, at) = Bits(s)[k]
  BY <1>1, <1>5, <1>6, <1>7, <1>8
<1> QED BY <1>9 DEF at, n, more

LEMMA Base64Types ==
  ASSUME NEW letters \in Seq(base64alphabet)
  PROVE  /\ Base64(letters) \in Seq(Seq(Bit)) /\ Len(Base64(letters)) = Bytes(Len(letters))
         /\ \A k \in 1 .. Bytes(Len(letters)) : Base64(letters)[k] = Byte(letters, k)
         /\ Leftover(letters) \in Seq(Bit) /\ Len(Leftover(letters)) = Spare(Len(letters))
<1> DEFINE n == Len(letters)
           c == Bytes(n)
           m == Spare(n)
           sent == Base64(letters)
<1>1. n \in Nat
  BY LenProperties
<1>2. c \in Nat /\ m \in 0 .. 7 /\ 6 * n = 8 * c + m
  BY <1>1, BytesAndSpare
<1>3. sent = [k \in 1 .. c |-> Byte(letters, k)]
  BY DEF Base64, Byte, Bytes, BitAt
<1>4. Leftover(letters) = [i \in 1 .. m |-> BitAt(letters, 8 * c + i - 1)]
  BY DEF Leftover
<1> HIDE DEF n, c, m, sent
<1>5. \A at \in Nat : at < 6 * n => BitAt(letters, at) \in Bit
  BY BitTypes DEF n
<1>6. ASSUME NEW k \in 1 .. c PROVE Byte(letters, k) \in Seq(Bit)
  <2>1. \A i \in 1 .. 8 : 8 * (k - 1) + i - 1 \in Nat /\ 8 * (k - 1) + i - 1 < 6 * n
    BY <1>1, <1>2
  <2>2. \A i \in 1 .. 8 : BitAt(letters, 8 * (k - 1) + i - 1) \in Bit
    BY <1>5, <2>1
  <2>3. Byte(letters, k) \in [1 .. 8 -> Bit]
    BY <2>2 DEF Byte
  <2>4. 8 \in Nat
    OBVIOUS
  <2> QED BY <2>3, <2>4, SeqDef
<1>7. sent \in Seq(Seq(Bit))
  <2>1. sent \in [1 .. c -> Seq(Bit)]
    BY <1>3, <1>6
  <2> QED BY <1>2, <2>1, SeqDef
<1>8. Len(sent) = c
  <2>1. DOMAIN sent = 1 .. c
    BY <1>3
  <2> QED BY <1>2, <1>7, <2>1, LenProperties
<1>9. Leftover(letters) \in Seq(Bit)
  <2>1. \A i \in 1 .. m : 8 * c + i - 1 \in Nat /\ 8 * c + i - 1 < 6 * n
    BY <1>1, <1>2
  <2>2. \A i \in 1 .. m : BitAt(letters, 8 * c + i - 1) \in Bit
    BY <1>5, <2>1
  <2>3. Leftover(letters) \in [1 .. m -> Bit]
    BY <1>4, <2>2
  <2>4. m \in Nat
    BY <1>2
  <2> QED BY <2>3, <2>4, SeqDef
<1>10. Len(Leftover(letters)) = m
  <2>1. DOMAIN Leftover(letters) = 1 .. m /\ m \in Nat
    BY <1>2, <1>4
  <2> QED BY <1>9, <2>1, LenProperties
<1>11. \A k \in 1 .. c : sent[k] = Byte(letters, k)
  BY <1>3
<1> QED BY <1>7, <1>8, <1>9, <1>10, <1>11 DEF n, c, m, sent

(* The bits left over and those of a letter more are the next bits.        *)
LEMMA NextBits ==
  ASSUME NEW letters \in Seq(base64alphabet), NEW s \in base64alphabet
  PROVE  LET bits == Leftover(letters) \o Bits(s)
             n == Len(letters)
         IN  /\ bits \in Seq(Bit) /\ Len(bits) = Spare(n) + 6
             /\ \A i \in 1 .. Spare(n) + 6 :
                  bits[i] = BitAt(Append(letters, s), 8 * Bytes(n) + i - 1)
<1> DEFINE n == Len(letters)
           c == Bytes(n)
           m == Spare(n)
           left == Leftover(letters)
           bits == left \o Bits(s)
           more == Append(letters, s)
<1>1. n \in Nat
  BY LenProperties
<1>2. c \in Nat /\ m \in 0 .. 7 /\ 6 * n = 8 * c + m
  BY <1>1, BytesAndSpare
<1>3. left \in Seq(Bit) /\ Len(left) = m
  BY Base64Types
<1>4. \A i \in 1 .. m : left[i] = BitAt(letters, 8 * c + i - 1)
  BY DEF Leftover
<1>5. Bits(s) \in Seq(Bit) /\ Len(Bits(s)) = 6
  BY SixMore
<1> HIDE DEF left
<1>6. /\ bits \in Seq(Bit) /\ Len(bits) = Len(left) + Len(Bits(s))
      /\ \A i \in 1 .. Len(left) + Len(Bits(s)) :
           bits[i] = IF i <= Len(left) THEN left[i] ELSE Bits(s)[i - Len(left)]
  BY <1>3, <1>5, ConcatProperties
<1> HIDE DEF bits
<1>7. /\ Len(bits) = m + 6
      /\ \A i \in 1 .. m + 6 : bits[i] = IF i <= m THEN left[i] ELSE Bits(s)[i - m]
  BY <1>3, <1>5, <1>6
<1>8. \A at \in Nat : at < 6 * n => BitAt(more, at) = BitAt(letters, at)
  BY OldBit
<1>9. \A k \in 1 .. 6 : BitAt(more, 6 * n + k - 1) = Bits(s)[k]
  BY NewBit
<1> HIDE DEF n, c, m, more
<1>10. ASSUME NEW i \in 1 .. m + 6 PROVE bits[i] = BitAt(more, 8 * c + i - 1)
  <2>1. CASE i <= m
    <3>1. i \in 1 .. m /\ 8 * c + i - 1 \in Nat /\ 8 * c + i - 1 < 6 * n
      BY <1>1, <1>2, <2>1
    <3> QED BY <1>4, <1>7, <1>8, <2>1, <3>1
  <2>2. CASE ~(i <= m)
    <3>1. i - m \in 1 .. 6 /\ 6 * n + (i - m) - 1 = 8 * c + i - 1
      BY <1>1, <1>2, <2>2
    <3>2. bits[i] = Bits(s)[i - m]
      BY <1>7, <2>2
    <3>3. BitAt(more, 6 * n + (i - m) - 1) = Bits(s)[i - m]
      BY <1>9, <3>1
    <3> QED BY <3>1, <3>2, <3>3
  <2> QED BY <2>1, <2>2
<1> QED BY <1>6, <1>7, <1>10 DEF n, c, m, bits, left, more
(* A letter more: a byte when there are eight bits.                        *)
LEMMA LetterDecoded ==
  ASSUME NEW letters \in Seq(base64alphabet), NEW s \in base64alphabet
  PROVE  LET bits == Leftover(letters) \o Bits(s)
             more == Append(letters, s)
         IN  IF Len(bits) < 8
             THEN Base64(more) = Base64(letters) /\ Leftover(more) = bits
             ELSE /\ Base64(more) = Append(Base64(letters), SubSeq(bits, 1, 8))
                  /\ Leftover(more) = SubSeq(bits, 9, Len(bits))
<1> DEFINE n == Len(letters)
           c == Bytes(n)
           m == Spare(n)
           bits == Leftover(letters) \o Bits(s)
           more == Append(letters, s)
           old == Base64(letters)
           new == Base64(more)
           left == Leftover(more)
<1>1. n \in Nat /\ more \in Seq(base64alphabet) /\ Len(more) = n + 1
  BY LenProperties, AppendProperties
<1>2. /\ c \in Nat /\ m \in 0 .. 7 /\ 6 * n = 8 * c + m
      /\ Bytes(n + 1) = IF m + 6 < 8 THEN c ELSE c + 1
      /\ Spare(n + 1) = IF m + 6 < 8 THEN m + 6 ELSE m + 6 - 8
  BY <1>1, BytesAndSpare
<1>3. /\ bits \in Seq(Bit) /\ Len(bits) = m + 6
      /\ \A i \in 1 .. m + 6 : bits[i] = BitAt(more, 8 * c + i - 1)
  BY NextBits
<1>4. /\ old \in Seq(Seq(Bit)) /\ Len(old) = c
      /\ \A k \in 1 .. c : old[k] = Byte(letters, k)
  BY Base64Types
<1>5. /\ new \in Seq(Seq(Bit)) /\ Len(new) = Bytes(n + 1)
      /\ \A k \in 1 .. Bytes(n + 1) : new[k] = Byte(more, k)
      /\ left \in Seq(Bit) /\ Len(left) = Spare(n + 1)
  <2> HIDE DEF more
  <2> QED BY <1>1, Base64Types
<1>6. left = [i \in 1 .. Spare(n + 1) |-> BitAt(more, 8 * Bytes(n + 1) + i - 1)]
  <2> HIDE DEF more
  <2> QED BY <1>1 DEF Leftover
<1>7. \A at \in Nat : at < 6 * n => BitAt(more, at) = BitAt(letters, at)
  BY OldBit
<1> HIDE DEF n, c, m, bits, more, old, new, left
<1>8. ASSUME NEW k \in 1 .. c PROVE Byte(more, k) = Byte(letters, k)
  <2>1. \A i \in 1 .. 8 : 8 * (k - 1) + i - 1 \in Nat /\ 8 * (k - 1) + i - 1 < 6 * n
    BY <1>1, <1>2
  <2>2. \A i \in 1 .. 8 : BitAt(more, 8 * (k - 1) + i - 1) = BitAt(letters, 8 * (k - 1) + i - 1)
    BY <1>7, <2>1
  <2> QED BY <2>2 DEF Byte
<1>9. CASE m + 6 < 8
  <2>1. new = old
    <3>1. Len(new) = Len(old) /\ \A k \in 1 .. Len(old) : new[k] = old[k]
      BY <1>2, <1>4, <1>5, <1>8, <1>9
    <3> QED BY <1>4, <1>5, <3>1, SeqEqual
  <2>2. left = bits
    <3>1. Spare(n + 1) = m + 6 /\ Bytes(n + 1) = c
      BY <1>2, <1>9
    <3>2. \A i \in 1 .. m + 6 : left[i] = bits[i]
      BY <1>3, <1>6, <3>1
    <3>3. Len(left) = Len(bits) /\ \A i \in 1 .. Len(left) : left[i] = bits[i]
      BY <1>3, <1>5, <3>1, <3>2
    <3> QED BY <1>3, <1>5, <3>3, SeqEqual
  <2>3. IF Len(bits) < 8 THEN new = old /\ left = bits
        ELSE new = Append(old, SubSeq(bits, 1, 8)) /\ left = SubSeq(bits, 9, Len(bits))
    BY <1>3, <1>9, <2>1, <2>2
  <2> QED BY <2>3 DEF new, old, left, bits, more
<1>10. CASE ~(m + 6 < 8)
  <2> DEFINE first == SubSeq(bits, 1, 8)
             rest == SubSeq(bits, 9, m + 6)
  <2>1. Spare(n + 1) = m - 2 /\ Bytes(n + 1) = c + 1 /\ m - 2 \in Nat
    BY <1>2, <1>10
  <2>2. first \in Seq(Bit) /\ Len(first) = 8 /\ \A i \in 1 .. 8 : first[i] = bits[i]
    <3>1. \A i \in 1 .. 8 : i \in 1 .. m + 6
      BY <1>2, <1>10
    <3>2. \A i \in 1 .. 8 : bits[i] \in Bit
      BY <1>3, <3>1, ElementOfSeq
    <3>3. /\ first \in Seq(Bit) /\ Len(first) = (IF 1 <= 8 THEN 8 - 1 + 1 ELSE 0)
          /\ \A i \in 1 .. 8 - 1 + 1 : first[i] = bits[1 + i - 1]
      BY <3>2, SubSeqProperties
    <3> HIDE DEF first
    <3>4. \A i \in 1 .. 8 : 1 + i - 1 = i
      OBVIOUS
    <3> QED BY <3>3, <3>4
  <2>3. rest \in Seq(Bit) /\ Len(rest) = m - 2 /\ \A i \in 1 .. m - 2 : rest[i] = bits[8 + i]
    <3>1. \A i \in 9 .. m + 6 : i \in 1 .. m + 6
      BY <1>2
    <3>2. \A i \in 9 .. m + 6 : bits[i] \in Bit
      BY <1>3, <3>1, ElementOfSeq
    <3>3. 9 \in Int /\ m + 6 \in Int
      BY <1>2
    <3>4. /\ rest \in Seq(Bit) /\ Len(rest) = (IF 9 <= m + 6 THEN (m + 6) - 9 + 1 ELSE 0)
          /\ \A i \in 1 .. (m + 6) - 9 + 1 : rest[i] = bits[9 + i - 1]
      BY <3>2, <3>3, SubSeqProperties
    <3> HIDE DEF rest
    <3>5. (m + 6) - 9 + 1 = m - 2 /\ (~(9 <= m + 6) => m - 2 = 0)
          /\ \A i \in 1 .. m - 2 : 9 + i - 1 = 8 + i
      BY <1>2, <1>10
    <3> QED BY <3>4, <3>5
  <2> HIDE DEF first, rest
  <2>4. first = Byte(more, c + 1)
    <3> DEFINE b == Byte(more, c + 1)
    <3>1. \A i \in 1 .. 8 : i \in 1 .. m + 6 /\ 8 * ((c + 1) - 1) + i - 1 = 8 * c + i - 1
      BY <1>2, <1>10
    <3>2. \A i \in 1 .. 8 : first[i] = BitAt(more, 8 * ((c + 1) - 1) + i - 1)
      BY <1>3, <2>2, <3>1
    <3>3. b = [i \in 1 .. 8 |-> BitAt(more, 8 * ((c + 1) - 1) + i - 1)]
      BY DEF Byte
    <3> HIDE DEF b
    <3>4. first = [i \in 1 .. 8 |-> first[i]]
      <4>1. DOMAIN first = 1 .. 8 /\ first \in [1 .. 8 -> Bit]
        BY <2>2, LenProperties
      <4> QED BY <4>1
    <3>5. first = b
      BY <3>2, <3>3, <3>4
    <3> QED BY <3>5 DEF b
  <2>5. new = Append(old, first)
    <3> DEFINE longer == Append(old, first)
    <3>1. /\ longer \in Seq(Seq(Bit)) /\ Len(longer) = c + 1
          /\ \A k \in 1 .. c : longer[k] = old[k]
          /\ longer[c + 1] = first
      BY <1>4, <2>2, AppendProperties
    <3> HIDE DEF longer
    <3>2. Len(new) = c + 1 /\ \A k \in 1 .. c + 1 : new[k] = Byte(more, k)
      BY <1>5, <2>1
    <3>3. \A k \in 1 .. c + 1 : k \in 1 .. c \/ k = c + 1
      BY <1>2
    <3>4. \A k \in 1 .. c + 1 : new[k] = longer[k]
      BY <1>4, <1>8, <2>4, <3>1, <3>2, <3>3
    <3>5. new = longer
      BY <1>5, <3>1, <3>2, <3>4, SeqEqual
    <3> QED BY <3>5 DEF longer
  <2>6. left = rest
    <3>1. \A i \in 1 .. m - 2 : 8 + i \in 1 .. m + 6 /\ 8 * (c + 1) + i - 1 = 8 * c + (8 + i) - 1
      BY <1>2
    <3>2. \A i \in 1 .. m - 2 : left[i] = BitAt(more, 8 * (c + 1) + i - 1)
      BY <1>6, <2>1
    <3>3. \A i \in 1 .. m - 2 : rest[i] = BitAt(more, 8 * c + (8 + i) - 1)
      BY <1>3, <2>3, <3>1
    <3>4. \A i \in 1 .. m - 2 : left[i] = rest[i]
      BY <3>1, <3>2, <3>3
    <3>5. Len(left) = m - 2
      BY <1>5, <2>1
    <3> QED BY <1>5, <2>3, <3>4, <3>5, SeqEqual
  <2>7. IF Len(bits) < 8 THEN new = old /\ left = bits
        ELSE new = Append(old, SubSeq(bits, 1, 8)) /\ left = SubSeq(bits, 9, Len(bits))
    BY <1>3, <1>10, <2>5, <2>6 DEF first, rest
  <2> QED BY <2>7 DEF new, old, left, bits, more
<1> QED BY <1>9, <1>10
LEMMA NoBits == Base64(<<>>) = <<>> /\ Leftover(<<>>) = <<>>
<1>1. <<>> \in Seq(base64alphabet) /\ Len(<<>>) = 0
  BY EmptySeq
<1>2. Bytes(0) = 0 /\ Spare(0) = 0
  BY DEF Bytes, Spare
<1>3. /\ Base64(<<>>) \in Seq(Seq(Bit)) /\ Len(Base64(<<>>)) = 0
      /\ Leftover(<<>>) \in Seq(Bit) /\ Len(Leftover(<<>>)) = 0
  BY <1>1, <1>2, Base64Types
<1>4. \A S : \A q \in Seq(S) : Len(q) = 0 => q = <<>>
  BY EmptySeq
<1> QED BY <1>3, <1>4

-----------------------------------------------------------------------------
(* What has been decoded of a text, from what had been decoded before: the *)
(* bytes of the letters of the text, with the bits that are left over.     *)
Decoded(d, before, text) ==
  /\ d.stopped <=> Ended(text)
  /\ ~d.stopped => d.bits = Leftover(Letters(text))
  /\ before \o d.output = Base64(Letters(text))

LEMMA SymbolFollows ==
  ASSUME NEW d \in Decoder, NEW text \in Seq(Symbol), NEW symbol \in Symbol,
         NEW before \in Seq(Seq(Bit)), Decoded(d, before, text)
  PROVE  Decoded(DecodeSymbol(d, symbol), before, Append(text, symbol))
<1> DEFINE more == Append(text, symbol)
           e == DecodeSymbol(d, symbol)
           letters == Letters(text)
<1>1. more \in Seq(Symbol) /\ letters \in Seq(base64alphabet) /\ d.output \in Seq(Seq(Bit))
  BY AppendProperties, LettersTypes DEF Decoder
<1>2. CASE d.stopped
  <2>1. e = d /\ Ended(text)
    BY <1>2 DEF DecodeSymbol, Decoded
  <2>2. <<symbol>> \in Seq(Symbol) /\ more = text \o <<symbol>>
    BY AppendIsConcat
  <2>3. Ended(more) /\ Letters(more) = Letters(text)
    BY <2>1, <2>2, NoMoreLetters
  <2> HIDE DEF more, e
  <2>4. Decoded(e, before, more)
    BY <1>2, <2>1, <2>3 DEF Decoded
  <2> QED BY <2>4 DEF more, e
<1>3. CASE ~d.stopped /\ symbol = " "
  <2>1. e = d /\ ~Ended(text)
    BY <1>3 DEF DecodeSymbol, Decoded
  <2>2. ~Ended(more) /\ Letters(more) = Letters(text)
    BY <1>3, <2>1, OneSymbol
  <2> HIDE DEF more, e
  <2>3. Decoded(e, before, more)
    BY <1>3, <2>1, <2>2 DEF Decoded
  <2> QED BY <2>3 DEF more, e
<1>4. CASE ~d.stopped /\ symbol # " " /\ symbol \notin base64alphabet
  <2>1. e = [d EXCEPT !.stopped = TRUE, !.failflag = (symbol # "="), !.bits = <<>>]
    BY <1>4 DEF DecodeSymbol
  <2>2. e.stopped = TRUE /\ e.output = d.output
    BY <2>1 DEF Decoder
  <2>3. Ended(more) /\ Letters(more) = Letters(text)
    BY <1>4, OneSymbol DEF Decoded
  <2> HIDE DEF more, e
  <2>4. Decoded(e, before, more)
    BY <2>2, <2>3 DEF Decoded
  <2> QED BY <2>4 DEF more, e
<1>5. CASE ~d.stopped /\ symbol # " " /\ symbol \in base64alphabet
  <2> DEFINE bits == d.bits \o Bits(symbol)
  <2>1. ~Ended(text) /\ d.bits = Leftover(letters)
    BY <1>5 DEF Decoded
  <2>2. ~Ended(more) /\ Letters(more) = Append(letters, symbol)
    BY <1>5, <2>1, OneSymbol
  <2>3. e = IF Len(bits) < 8 THEN [d EXCEPT !.bits = bits]
            ELSE [d EXCEPT !.output = Append(@, SubSeq(bits, 1, 8)),
                           !.bits = SubSeq(bits, 9, Len(bits))]
    BY <1>5, Zenon DEF DecodeSymbol
  <2>4. IF Len(bits) < 8
        THEN Base64(Letters(more)) = Base64(letters) /\ Leftover(Letters(more)) = bits
        ELSE /\ Base64(Letters(more)) = Append(Base64(letters), SubSeq(bits, 1, 8))
             /\ Leftover(Letters(more)) = SubSeq(bits, 9, Len(bits))
    <3> HIDE DEF letters, more
    <3> QED BY <1>1, <1>5, <2>1, <2>2, LetterDecoded
  <2>5. before \o d.output = Base64(letters)
    BY DEF Decoded
  <2>6. bits \in Seq(Bit) /\ Len(bits) = Spare(Len(letters)) + 6
    <3> HIDE DEF letters
    <3> QED BY <1>1, <1>5, <2>1, NextBits
  <2>7. e.stopped = d.stopped
    <3> HIDE DEF bits
    <3> QED BY <2>3 DEF Decoder
  <2>8. CASE Len(bits) < 8
    <3>1. e = [d EXCEPT !.bits = bits]
      BY <2>3, <2>8
    <3> HIDE DEF bits, e
    <3>2. e.bits = bits /\ e.output = d.output
      BY <3>1 DEF Decoder
    <3> HIDE DEF more, letters
    <3>3. Decoded(e, before, more)
      BY <1>5, <2>2, <2>4, <2>5, <2>7, <2>8, <3>2 DEF Decoded
    <3> QED BY <3>3 DEF more, e
  <2>9. CASE ~(Len(bits) < 8)
    <3>1. e = [d EXCEPT !.output = Append(@, SubSeq(bits, 1, 8)),
                        !.bits = SubSeq(bits, 9, Len(bits))]
      BY <2>3, <2>9
    <3> DEFINE eight == SubSeq(bits, 1, 8)
               rest == SubSeq(bits, 9, Len(bits))
    <3>0. eight \in Seq(Bit)
      <4> DEFINE l == Len(bits)
      <4>1. l \in Nat /\ ~(l < 8)
        <5> HIDE DEF bits
        <5> QED BY <2>6, <2>9, LenProperties
      <4> HIDE DEF l
      <4>2. 8 \in Int /\ 8 <= l /\ 1 \in Nat \ {0}
        BY <4>1
      <4> HIDE DEF bits
      <4> QED BY <2>6, <4>2, PartOf DEF l
    <3>2. e = [d EXCEPT !.output = Append(@, eight), !.bits = rest]
      BY <3>1
    <3> HIDE DEF bits, e, eight, rest
    <3>3. e.bits = rest /\ e.output = Append(d.output, eight)
      BY <3>2 DEF Decoder
    <3>4. before \o Append(d.output, eight) = Append(before \o d.output, eight)
      <4> DEFINE out == d.output
      <4> HIDE DEF out
      <4>1. out \in Seq(Seq(Bit))
        BY <1>1 DEF out
      <4>2. before \o Append(out, eight) = Append(before \o out, eight)
        BY <3>0, <4>1, JoinedToMore, SMTT(40)
      <4> QED BY <4>2 DEF out
    <3>5. Base64(Letters(more)) = Append(Base64(letters), eight) /\ Leftover(Letters(more)) = rest
      BY <2>4, <2>9 DEF eight, rest
    <3> HIDE DEF more, letters
    <3>6. Decoded(e, before, more)
      BY <1>5, <2>2, <2>5, <2>7, <3>3, <3>4, <3>5 DEF Decoded
    <3> QED BY <3>6 DEF more, e
  <2> QED BY <2>8, <2>9
<1> QED BY <1>2, <1>3, <1>4, <1>5

LEMMA RunFollows ==
  ASSUME NEW text \in Seq(Symbol), NEW run \in Seq(Symbol), ~Ended(text),
         NEW bits \in Carried, bits = Leftover(Letters(text))
  PROVE  Decoded(base64_decode(bits, run), Base64(Letters(text)), text \o run)
<1> DEFINE N == Len(run)
           before == Base64(Letters(text))
           Upto(k) == text \o SubSeq(run, 1, k)
<1>1. N \in Nat /\ \A k \in 1 .. N : run[k] \in Symbol
  BY LenProperties, ElementOfSeq
<1>2. PICK r : Decoding(r, bits, run)
  BY RunDecoded
<1>3. /\ r \in [0 .. N -> Decoder] /\ r[0] = Undecoded(bits) /\ r[N] = base64_decode(bits, run)
      /\ \A k \in 1 .. N : r[k] = DecodeSymbol(r[k - 1], run[k])
  BY <1>2 DEF Decoding
<1>4. before \in Seq(Seq(Bit))
  BY LettersTypes, Base64Types
<1>5. \A k \in 0 .. N : Upto(k) \in Seq(Symbol)
  <2> SUFFICES ASSUME NEW k \in 0 .. N PROVE Upto(k) \in Seq(Symbol)
    OBVIOUS
  <2>1. 1 \in Nat \ {0} /\ k \in Int /\ k <= N
    <3> HIDE DEF N
    <3> QED BY <1>1
  <2>2. SubSeq(run, 1, k) \in Seq(Symbol)
    BY <2>1, PartOf
  <2> QED BY <2>2, ConcatProperties
<1>6. Upto(0) = text
  <2>1. SubSeq(run, 1, 0) = <<>>
    <3>1. \A i \in 1 .. 0 : run[i] \in Symbol
      OBVIOUS
    <3>2. SubSeq(run, 1, 0) \in Seq(Symbol) /\ Len(SubSeq(run, 1, 0)) = IF 1 <= 0 THEN 0 - 1 + 1 ELSE 0
      BY <3>1, SubSeqProperties
    <3>3. Len(SubSeq(run, 1, 0)) = 0
      BY <3>2
    <3> DEFINE none == SubSeq(run, 1, 0)
    <3> HIDE DEF none
    <3>4. none = <<>>
      BY <3>2, <3>3, EmptySeq DEF none
    <3> QED BY <3>4 DEF none
  <2> QED BY <2>1, ConcatEmptySeq
<1>7. ASSUME NEW k \in 0 .. N - 1 PROVE Upto(k + 1) = Append(Upto(k), run[k + 1])
  <2>1. k + 1 \in 1 .. N /\ 1 \in 1 .. k + 1 /\ (k + 1) - 1 = k
    <3> HIDE DEF N
    <3> QED BY <1>1
  <2>2. text \o SubSeq(run, 1, k + 1) = Append(text \o SubSeq(run, 1, (k + 1) - 1), run[k + 1])
    BY <2>1, OneMore
  <2> QED BY <2>1, <2>2
<1>8. Upto(N) = text \o run
  <2>1. SubSeq(run, 1, N) = run
    BY SubSeqFull
  <2> QED BY <2>1
<1> HIDE DEF N, before, Upto
<1> DEFINE T == {k \in 0 .. N : Decoded(r[k], before, Upto(k))}
<1>9. 0 \in T
  <2>1. /\ Undecoded(bits).stopped = FALSE /\ Undecoded(bits).bits = bits
        /\ Undecoded(bits).output = <<>>
    BY DEF Undecoded
  <2>2. before \o <<>> = before
    BY <1>4, ConcatEmptySeq
  <2>3. Decoded(r[0], before, Upto(0))
    BY <1>3, <1>6, <2>1, <2>2 DEF Decoded, before
  <2> QED BY <1>1, <2>3
<1>10. ASSUME NEW k \in 0 .. N - 1, k \in T PROVE k + 1 \in T
  <2>1. k \in 0 .. N /\ k + 1 \in 1 .. N /\ k + 1 \in 0 .. N /\ (k + 1) - 1 = k
    BY <1>1
  <2>2. Decoded(r[k], before, Upto(k)) /\ r[k] \in Decoder /\ Upto(k) \in Seq(Symbol)
        /\ run[k + 1] \in Symbol
    BY <1>1, <1>3, <1>5, <1>10, <2>1
  <2>3. Decoded(DecodeSymbol(r[k], run[k + 1]), before, Append(Upto(k), run[k + 1]))
    BY <1>4, <2>2, SymbolFollows
  <2>4. r[k + 1] = DecodeSymbol(r[k], run[k + 1])
    BY <1>3, <2>1
  <2> QED BY <1>7, <2>1, <2>3, <2>4
<1> HIDE DEF T
<1>11. \A k \in 0 .. N : k \in T
  BY <1>1, <1>9, <1>10, UpTo
<1>12. Decoded(r[N], before, Upto(N))
  BY <1>1, <1>11 DEF T
<1> QED BY <1>3, <1>8, <1>12 DEF before
-----------------------------------------------------------------------------
(* What libpng was fed, against the text of the image.  While it reads,    *)
(* that is all there is of the letters, and the bits left over are         *)
(* carried; behind the end of the letters it may have been fed more, and a *)
(* reader that is gone has been fed less.                                  *)

Agrees(fedto, sent) == \A k \in 1 .. Len(fedto) : k <= Len(sent) => fedto[k] = sent[k]

Sent ==
  LET sent == Base64(Letters(image))
  IN  /\ Agrees(fed, sent)
      /\ ~Ended(image) => Len(fed) <= Len(sent)
      /\ processing_png /\ Gpng_ptr =>
           /\ Len(sent) <= Len(fed)
           /\ ~Ended(image) => base64_bits = Leftover(Letters(image))

LEMMA ReadersLast ==
  ASSUME NEW data, NEW after \in inlinepng_process_data(FALSE, data)
  PROVE  ~after.live
<1>1. after = [live |-> FALSE, ended |-> FALSE] \/ after = [live |-> FALSE, ended |-> TRUE]
  BY DEF inlinepng_process_data
<1>2. after.live = FALSE
  BY <1>1
<1> QED BY <1>2, Zenon

LEMMA SentTypes ==
  ASSUME NEW text \in Seq(Symbol)
  PROVE  Base64(Letters(text)) \in Seq(Seq(Bit)) /\ Len(Base64(Letters(text))) \in Nat
<1>1. Base64(Letters(text)) \in Seq(Seq(Bit))
  BY LettersTypes, Base64Types
<1> QED BY <1>1, LenProperties

LEMMA NothingSent == ASSUME image = <<>>, fed = <<>>, ~(processing_png /\ Gpng_ptr) PROVE Sent
<1>1. Base64(Letters(image)) = <<>> /\ Len(<<>>) = 0
  BY NoLetters, NoBits, EmptySeq
<1> QED BY <1>1 DEF Sent, Agrees

(* A sequence agrees with itself, and goes on agreeing when either grows.  *)
LEMMA SelfAgrees ==
  ASSUME NEW S, NEW s \in Seq(S)
  PROVE  Agrees(s, s) /\ Len(s) <= Len(s)
<1>1. Len(s) \in Nat
  BY LenProperties
<1> QED BY <1>1 DEF Agrees

LEMMA AgreesMore ==
  ASSUME NEW S, NEW f \in Seq(S), NEW s \in Seq(S), NEW o \in Seq(S), Agrees(f, s)
  PROVE  /\ Len(f) <= Len(s) => Agrees(f, s \o o) /\ Len(f) <= Len(s \o o)
         /\ Len(s) <= Len(f) => Agrees(f \o o, s) /\ Len(s) <= Len(f \o o)
<1> DEFINE a == Len(f)
           b == Len(s)
           c == Len(o)
           so == s \o o
           fo == f \o o
<1>1. /\ a \in Nat /\ b \in Nat /\ c \in Nat /\ Len(so) = b + c /\ Len(fo) = a + c
      /\ \A i \in 1 .. b + c : so[i] = IF i <= b THEN s[i] ELSE o[i - b]
      /\ \A i \in 1 .. a + c : fo[i] = IF i <= a THEN f[i] ELSE o[i - a]
  BY ConcatProperties, LenProperties
<1>2. \A k \in 1 .. a : k <= b => f[k] = s[k]
  BY DEF Agrees
<1> HIDE DEF a, b, c, so, fo
<1>3. ASSUME a <= b PROVE Agrees(f, so) /\ a <= Len(so)
  <2>1. \A k \in 1 .. a : k \in 1 .. b + c /\ k <= b
    BY <1>1, <1>3
  <2>2. \A k \in 1 .. a : f[k] = so[k]
    BY <1>1, <1>2, <2>1
  <2>3. a <= Len(so)
    BY <1>1, <1>3
  <2> QED BY <2>2, <2>3 DEF Agrees, a
<1>4. ASSUME b <= a PROVE Agrees(fo, s) /\ b <= Len(fo)
  <2>1. \A k \in 1 .. a + c : k <= b => k \in 1 .. a /\ k <= a
    BY <1>1, <1>4
  <2>2. \A k \in 1 .. a + c : k <= b => fo[k] = s[k]
    BY <1>1, <1>2, <2>1
  <2>3. b <= Len(fo) /\ Len(fo) = a + c
    BY <1>1, <1>4
  <2> QED BY <2>2, <2>3 DEF Agrees, b
<1> QED BY <1>3, <1>4 DEF a, b, so, fo

LEMMA BeginSent ==
  ASSUME IInv, NEW n \in 1 .. Min({MaxRun, Len(script)}), ~processing_png,
         Begin(SubSeq(script, 1, n))
  PROVE  Sent'
<1> DEFINE run == SubSeq(script, 1, n)
           text == buffer_push(run)
           rest == SubSeq(text, Min(Found(inline_magic, text)) + Len(inline_magic) + 1, Len(text))
           d == base64_decode(<<>>, rest)
<1>1. run \in Seq(Symbol) /\ Texts
  BY OneRun DEF IInv, Types
<1> HIDE DEF run
<1>2. /\ Found(inline_magic, text) # {}
      /\ base64_bits' = d.bits /\ processing_png' = ~d.failflag /\ image' = rest
  BY Zenon DEF Begin, run
<1>3. PICK created \in BOOLEAN : \E after \in inlinepng_process_data(created, d.output) :
        Gpng_ptr' = after.live /\ fed' = IF created THEN d.output ELSE <<>>
  BY Zenon DEF Begin, run
<1>4. PICK after \in inlinepng_process_data(created, d.output) :
        Gpng_ptr' = after.live /\ fed' = IF created THEN d.output ELSE <<>>
  BY <1>3, Zenon
<1>5. text \in Seq(Symbol)
  BY <1>1, Pushed
<1>6. rest \in Seq(Symbol)
  <2> DEFINE m == Min(Found(inline_magic, text))
             l == Len(text)
  <2>1. m \in Nat /\ l \in Nat /\ Len(inline_magic) = 3
    <3> HIDE DEF text
    <3> QED BY <1>2, <1>5, FoundFirst, Names, LenProperties
  <2>2. m + 3 + 1 \in Nat \ {0} /\ l \in Int /\ l <= l
    <3> HIDE DEF m, l
    <3> QED BY <2>1
  <2>3. SubSeq(text, m + 3 + 1, l) \in Seq(Symbol)
    <3> HIDE DEF m, text
    <3> QED BY <1>5, <2>2, PartOf
  <2> HIDE DEF m, text, l
  <2> QED BY <2>1, <2>3 DEF m, l
<1> HIDE DEF text, rest
<1>7. Decoded(d, <<>>, rest)
  <2>1. <<>> \in Seq(Symbol) /\ <<>> \in Carried /\ ~Ended(<<>>)
        /\ Letters(<<>>) = <<>> /\ Base64(<<>>) = <<>> /\ Leftover(<<>>) = <<>>
    BY Nothing, NoLetters, NoBits
  <2>2. Decoded(base64_decode(<<>>, rest), Base64(Letters(<<>>)), <<>> \o rest)
    BY <1>6, <2>1, RunFollows
  <2>3. <<>> \o rest = rest
    BY <1>6, ConcatEmptySeq
  <2> QED BY <2>1, <2>2, <2>3
<1>8. d \in Decoder
  BY <1>6, Nothing, DecodedTypes
<1> HIDE DEF d
<1> DEFINE sent == Base64(Letters(rest))
<1>9. sent = d.output /\ d.output \in Seq(Seq(Bit)) /\ Len(sent) \in Nat
  <2>1. d.output \in Seq(Seq(Bit))
    BY <1>8 DEF Decoder
  <2>2. <<>> \o d.output = d.output
    BY <2>1, ConcatEmptySeq
  <2> QED BY <1>6, <1>7, <2>1, <2>2, SentTypes DEF Decoded
<1>10. ~Ended(rest) => d.bits = Leftover(Letters(rest))
  BY <1>7 DEF Decoded
<1> HIDE DEF sent
<1>11. CASE created
  <2>1. fed' = sent
    BY <1>4, <1>9, <1>11
  <2>2. Agrees(sent, sent) /\ Len(sent) <= Len(sent)
    BY <1>9, SelfAgrees
  <2> QED BY <1>2, <1>10, <2>1, <2>2 DEF Sent, sent
<1>12. CASE ~created
  <2>1. fed' = <<>> /\ Len(<<>>) = 0
    BY <1>4, <1>12, EmptySeq
  <2>2. ~Gpng_ptr'
    <3>1. created = FALSE
      BY <1>12, Zenon
    <3>2. after \in inlinepng_process_data(FALSE, d.output)
      BY <3>1, Zenon
    <3>3. ~after.live
      BY <3>2, ReadersLast, Zenon
    <3> QED BY <1>4, <3>3, Zenon
  <2>3. Agrees(<<>>, sent)
    BY <2>1 DEF Agrees
  <2>4. 0 <= Len(sent)
    BY <1>9
  <2> QED BY <1>2, <2>1, <2>2, <2>3, <2>4 DEF Sent, sent
<1> QED BY <1>11, <1>12

LEMMA DecodeSent ==
  ASSUME IInv, Sent, NEW n \in 1 .. Min({MaxRun, Len(script)}), processing_png,
         Decode(SubSeq(script, 1, n))
  PROVE  Sent'
<1> DEFINE run == SubSeq(script, 1, n)
           d == base64_decode(base64_bits, run)
           sent == Base64(Letters(image))
           then == Base64(Letters(image \o run))
<1>1. run \in Seq(Symbol) /\ image \in Seq(Symbol) /\ fed \in Seq(Seq(Bit)) /\ base64_bits \in Carried
  BY OneRun DEF IInv, Types, Texts, Image
<1> HIDE DEF run
<1>2. /\ base64_bits' = d.bits /\ fed' = (IF Gpng_ptr THEN fed \o d.output ELSE fed)
      /\ image' = image \o run
  BY Zenon DEF Decode, run
<1>3. Gpng_ptr' => Gpng_ptr
  <2>1. PICK after \in inlinepng_process_data(Gpng_ptr, d.output) : Gpng_ptr' = after.live
    BY Zenon DEF Decode, run
  <2>2. Gpng_ptr = TRUE \/ Gpng_ptr = FALSE
    BY Zenon DEF IInv, Types, Flags
  <2>3. CASE Gpng_ptr = FALSE
    <3>1. after \in inlinepng_process_data(FALSE, d.output)
      BY <2>3, Zenon
    <3>2. ~after.live
      BY <3>1, ReadersLast, Zenon
    <3> QED BY <2>1, <3>2, Zenon
  <2> QED BY <2>2, <2>3, Zenon
<1>4. d.output \in Seq(Seq(Bit))
  <2>1. d \in Decoder
    BY <1>1, DecodedTypes
  <2> HIDE DEF d
  <2> QED BY <2>1 DEF Decoder
<1>5. sent \in Seq(Seq(Bit)) /\ Len(sent) \in Nat /\ Len(fed) \in Nat
  BY <1>1, SentTypes, LenProperties
<1>6. /\ Agrees(fed, sent) /\ (~Ended(image) => Len(fed) <= Len(sent))
      /\ Gpng_ptr => Len(sent) <= Len(fed)
                     /\ (~Ended(image) => base64_bits = Leftover(Letters(image)))
  BY DEF Sent
<1>7. image \o run \in Seq(Symbol)
  BY <1>1, ConcatProperties
<1>8. CASE Ended(image)
  <2>1. Ended(image \o run) /\ then = sent
    BY <1>1, <1>8, NoMoreLetters
  <2> HIDE DEF d, sent, then
  <2>2. CASE Gpng_ptr
    <3>1. fed' = fed \o d.output
      BY <1>2, <2>2
    <3>2. Agrees(fed \o d.output, sent) /\ Len(sent) <= Len(fed \o d.output)
      BY <1>1, <1>4, <1>5, <1>6, <2>2, AgreesMore
    <3> QED BY <1>2, <2>1, <3>1, <3>2 DEF Sent, then
  <2>3. CASE ~Gpng_ptr
    <3>1. fed' = fed /\ ~Gpng_ptr'
      BY <1>2, <1>3, <2>3
    <3> QED BY <1>2, <1>6, <2>1, <3>1 DEF Sent, then
  <2> QED BY <2>2, <2>3
<1>9. CASE ~Ended(image) /\ Gpng_ptr
  <2>1. base64_bits = Leftover(Letters(image))
    BY <1>6, <1>9
  <2>2. Decoded(d, sent, image \o run)
    BY <1>1, <1>9, <2>1, RunFollows
  <2> HIDE DEF d, sent
  <2>3. fed = sent
    <3>1. Len(fed) = Len(sent)
      BY <1>5, <1>6, <1>9
    <3>2. \A k \in 1 .. Len(fed) : fed[k] = sent[k]
      <4>1. \A k \in 1 .. Len(fed) : k <= Len(fed)
        OBVIOUS
      <4> QED BY <1>6, <3>1, <4>1 DEF Agrees
    <3> QED BY <1>1, <1>5, <3>1, <3>2, SeqEqual
  <2>4. then = sent \o d.output /\ (~Ended(image \o run) => d.bits = Leftover(Letters(image \o run)))
    BY <2>2 DEF Decoded
  <2> HIDE DEF then
  <2>5. fed' = then /\ then \in Seq(Seq(Bit))
    BY <1>2, <1>4, <1>5, <1>9, <2>3, <2>4, ConcatProperties
  <2>6. Agrees(then, then) /\ Len(then) <= Len(then)
    BY <2>5, SelfAgrees
  <2> QED BY <1>2, <2>4, <2>5, <2>6 DEF Sent, then
<1>10. CASE ~Ended(image) /\ ~Gpng_ptr
  <2> DEFINE e == base64_decode(Leftover(Letters(image)), run)
  <2>1. Leftover(Letters(image)) \in Carried
    <3> DEFINE l == Len(Letters(image))
               m == Spare(l)
    <3>1. Letters(image) \in Seq(base64alphabet) /\ l \in Nat
      BY <1>1, LettersTypes, LenProperties
    <3>2. m \in 0 .. 7 /\ 6 * l = 8 * Bytes(l) + m /\ Bytes(l) \in Nat
      <4> HIDE DEF l
      <4> QED BY <3>1, BytesAndSpare
    <3>3. Leftover(Letters(image)) \in Seq(Bit) /\ Len(Leftover(Letters(image))) = m
      BY <3>1, Base64Types
    <3> HIDE DEF l, m
    <3>4. m \in {0, 2, 4, 6}
      BY <3>1, <3>2
    <3> QED BY <3>3, <3>4 DEF Carried
  <2>2. Decoded(e, sent, image \o run) /\ e \in Decoder
    BY <1>1, <1>10, <2>1, RunFollows, DecodedTypes
  <2> HIDE DEF e, sent, d
  <2>3. then = sent \o e.output /\ e.output \in Seq(Seq(Bit))
    BY <2>2 DEF Decoded, Decoder
  <2> HIDE DEF then
  <2>4. fed' = fed /\ ~Gpng_ptr'
    BY <1>2, <1>3, <1>10
  <2>5. Agrees(fed, then) /\ Len(fed) <= Len(then)
    BY <1>1, <1>5, <1>6, <1>10, <2>3, AgreesMore
  <2> QED BY <1>2, <2>4, <2>5 DEF Sent, then
<1> QED BY <1>8, <1>9, <1>10

LEMMA StepSent == ASSUME IInv, Sent, [Next]_vars PROVE Sent'
<1>1. ASSUME NEW n \in 1 .. Min({MaxRun, Len(script)}),
             inline_data_receive(SubSeq(script, 1, n))
      PROVE  Sent'
  <2>1. CASE ~processing_png /\ Search(SubSeq(script, 1, n))
    <3>1. image' = <<>> /\ fed' = <<>> /\ processing_png' = processing_png
      BY <2>1 DEF Search
    <3> QED BY <2>1, <3>1, NoLetters, NoBits, EmptySeq DEF Sent, Agrees
  <2>2. CASE processing_png /\ Swallow(SubSeq(script, 1, n))
    <3>1. image' = <<>> /\ fed' = <<>> /\ processing_png' = FALSE
      BY <2>2 DEF Swallow
    <3> QED BY <3>1, NoLetters, NoBits, EmptySeq DEF Sent, Agrees
  <2> QED BY <1>1, <2>1, <2>2, BeginSent, DecodeSent, Zenon DEF inline_data_receive
<1>2. CASE inline_data_clear
  <2>1. image' = image /\ fed' = fed /\ processing_png' = processing_png /\ Gpng_ptr' = Gpng_ptr
        /\ base64_bits' = base64_bits
    BY <1>2 DEF inline_data_clear, reader
  <2> QED BY <2>1 DEF Sent
<1>3. CASE UNCHANGED vars
  <2>1. image' = image /\ fed' = fed /\ processing_png' = processing_png /\ Gpng_ptr' = Gpng_ptr
        /\ base64_bits' = base64_bits
    BY <1>3 DEF vars, reader, ghosts
  <2> QED BY <2>1 DEF Sent
<1> QED BY <1>1, <1>2, <1>3, Zenon DEF Next

(* What libpng gets is the decoding of the text behind the name, however   *)
(* it was cut into runs, and all of it while libpng reads (base64_decode,  *)
(* inline_data_receive, inlinepng_process_data).                           *)
THEOREM ImageIsWhatWasSent == Spec => []DecodedAsSent
<1>1. Init => Sent
  BY NothingSent DEF Init
<1>2. ASSUME IInv, Sent PROVE DecodedAsSent
  <2> DEFINE sent == Base64(Letters(image))
             a == Len(fed)
             b == Len(sent)
             m == Min({a, b})
             part == SubSeq(fed, 1, m)
  <2>1. fed \in Seq(Seq(Bit)) /\ sent \in Seq(Seq(Bit)) /\ a \in Nat /\ b \in Nat
    BY <1>2, SentTypes, LenProperties DEF IInv, Types, Texts, Image
  <2>2. Agrees(fed, sent) /\ (processing_png /\ Gpng_ptr => b <= a)
    BY <1>2 DEF Sent
  <2>3. \A k \in 1 .. a : k <= b => fed[k] = sent[k]
    BY <2>2 DEF Agrees
  <2> HIDE DEF sent, a, b
  <2>4. m \in Nat /\ m <= a /\ m <= b
    <3>1. \E x \in {a, b} : \A y \in {a, b} : x <= y
      BY <2>1
    <3>2. m \in {a, b} /\ \A y \in {a, b} : m <= y
      BY <3>1 DEF Min
    <3> QED BY <2>1, <3>2
  <2> HIDE DEF m
  <2>5. ASSUME NEW s \in Seq(Seq(Bit)), NEW k \in Nat, k <= Len(s)
        PROVE  /\ SubSeq(s, 1, k) \in Seq(Seq(Bit)) /\ Len(SubSeq(s, 1, k)) = k
               /\ \A i \in 1 .. k : SubSeq(s, 1, k)[i] = s[i]
    <3>1. \A i \in 1 .. k : s[i] \in Seq(Bit)
      <4> DEFINE l == Len(s)
      <4>1. l \in Nat /\ k <= l
        BY <2>5, LenProperties
      <4> HIDE DEF l
      <4>2. \A i \in 1 .. k : i \in 1 .. l
        BY <4>1
      <4> QED BY <4>2, ElementOfSeq DEF l
    <3> DEFINE p == SubSeq(s, 1, k)
    <3>2. /\ p \in Seq(Seq(Bit)) /\ Len(p) = (IF 1 <= k THEN k - 1 + 1 ELSE 0)
          /\ \A i \in 1 .. k - 1 + 1 : p[i] = s[1 + i - 1]
      BY <3>1, SubSeqProperties
    <3> HIDE DEF p
    <3>3. k - 1 + 1 = k /\ (~(1 <= k) => k = 0) /\ \A i \in 1 .. k : 1 + i - 1 = i
      OBVIOUS
    <3>4. Len(p) = k /\ \A i \in 1 .. k : p[i] = s[i]
      BY <3>2, <3>3
    <3> QED BY <3>2, <3>4 DEF p
  <2>6. part \in Seq(Seq(Bit)) /\ Len(part) = m /\ \A i \in 1 .. m : part[i] = fed[i]
    BY <2>1, <2>4, <2>5 DEF a
  <2> HIDE DEF part
  <2>7. IsPrefix(part, sent)
    <3> DEFINE p == SubSeq(part, 1, m)
               q == SubSeq(sent, 1, m)
    <3>1. m <= m
      BY <2>4
    <3>2. p \in Seq(Seq(Bit)) /\ Len(p) = m /\ \A i \in 1 .. m : p[i] = part[i]
      BY <2>4, <2>5, <2>6, <3>1
    <3>3. q \in Seq(Seq(Bit)) /\ Len(q) = m /\ \A i \in 1 .. m : q[i] = sent[i]
      BY <2>1, <2>4, <2>5 DEF b
    <3> HIDE DEF p, q
    <3>4. \A i \in 1 .. m : i \in 1 .. a /\ i <= b
      BY <2>1, <2>4
    <3>5. p = q
      BY <2>3, <2>6, <3>2, <3>3, <3>4, SeqEqual
    <3> QED BY <2>4, <2>6, <3>5 DEF IsPrefix, p, q, b
  <2>8. ASSUME b <= a PROVE IsPrefix(sent, fed)
    <3> DEFINE p == SubSeq(sent, 1, b)
               q == SubSeq(fed, 1, b)
    <3>1. b <= b
      BY <2>1
    <3>2. p \in Seq(Seq(Bit)) /\ Len(p) = b /\ \A i \in 1 .. b : p[i] = sent[i]
      BY <2>1, <2>5, <3>1 DEF b
    <3>3. q \in Seq(Seq(Bit)) /\ Len(q) = b /\ \A i \in 1 .. b : q[i] = fed[i]
      BY <2>1, <2>5, <2>8 DEF a
    <3> HIDE DEF p, q
    <3>4. \A i \in 1 .. b : i \in 1 .. a /\ i <= b
      BY <2>1, <2>8
    <3>5. p = q
      BY <2>3, <3>2, <3>3, <3>4, SeqEqual
    <3> QED BY <2>8, <3>5 DEF IsPrefix, p, q, a, b
  <2> QED BY <2>2, <2>7, <2>8 DEF DecodedAsSent, sent, part, m, a, b
<1> QED BY <1>1, <1>2, InitTypes, StepTypes, StepSent, PTL DEF Spec
=============================================================================
