-------------------------- MODULE SelectionProofs --------------------------
(***************************************************************************)
(* The scrollback's safety for every ring size, terminal size and history, *)
(* and that of selecting and copying, which only read the rows: under the  *)
(* mouse, too, the scrollback is what is shown of it here, for every size  *)
(* of the cells.                                                           *)
(*                                                                         *)
(* RingHoldsHistory is not inductive by itself: a push must also know that *)
(* an unallocated ring has no history and that an allocated one has        *)
(* scroll_buffer_end >= 1 (RingInv), and the shift that ends a scroll must *)
(* know what the loop pushed so far (LoopInv).                             *)
(***************************************************************************)
EXTENDS Selection, Foundations

-----------------------------------------------------------------------------
(* The scrollback: Scrollback's specification.                             *)

(* An unallocated ring is empty and nothing was ever pushed; an allocated  *)
(* one ends after slot 0, either holds the whole history or is full, and   *)
(* its slots are the newest lines of the history.                          *)
RingInv ==
  /\ scroll_buffer_size = 0 =>
       /\ history = <<>>
       /\ scroll_buffer_end = 0
       /\ \A i \in Slots : scroll_buffer[i] = NoLine /\ scroll_buffer_lens[i] = 0
  /\ scroll_buffer_size # 0 =>
       /\ scroll_buffer_end >= 1
       /\ \/ Len(history) = scroll_buffer_end
          \/ Len(history) >= Size /\ Len(history) > scroll_buffer_end
  /\ RingHoldsHistory

(* The rows a prescroll loop has passed are the newest lines of the        *)
(* history.                                                                *)
LoopInv ==
  /\ prescroll.row <= Len(history)
  /\ \A r \in 0 .. prescroll.row - 1 :
       history[Len(history) - prescroll.row + r + 1] =
         [line |-> screen[r], len |-> cols]

IInv == TypeOK /\ RingInv /\ LoopInv

USE ScrollbackAssumption

-----------------------------------------------------------------------------

(* The initial state has an empty ring, no loop and no history.            *)
LEMMA InitIInv == Init => IInv
  BY DEF Init, IInv, TypeOK, RingInv, LoopInv, RingHoldsHistory, Slots, Entry,
         Idle, NoScroll

(* A push of a well-typed row keeps the types of the ring and its end      *)
(* after slot 0.                                                           *)
LEMMA PushType ==
  ASSUME TypeOK, NEW line \in Lines, NEW len \in Widths,
         scroll_buffer_push(line, len)
  PROVE  /\ scroll_buffer' \in [Slots -> Lines \cup {NoLine}]
         /\ scroll_buffer_lens' \in [Slots -> Widths \cup {0}]
         /\ scroll_buffer_size' = Size
         /\ scroll_buffer_end' \in 1 .. Size
  BY DEF TypeOK, scroll_buffer_push, Slots

(* A push turns line number k into line number k + 1, and the pushed row   *)
(* becomes line number 0.                                                  *)
LEMMA PushHistory ==
  ASSUME TypeOK, RingInv, NEW line \in Lines, NEW len \in Widths,
         scroll_buffer_push(line, len),
         history' = Append(history, [line |-> line, len |-> len])
  PROVE  RingInv'
<1> DEFINE slot == IF scroll_buffer_size = 0
                      \/ scroll_buffer_end >= scroll_buffer_size
                   THEN 0 ELSE scroll_buffer_end
           e == [line |-> line, len |-> len]
<1>1. /\ scroll_buffer_size' = Size /\ scroll_buffer_end' = slot + 1
      /\ slot \in Slots
      /\ scroll_buffer' = [scroll_buffer EXCEPT ![slot] = line]
      /\ scroll_buffer_lens' = [scroll_buffer_lens EXCEPT ![slot] = len]
  BY DEF scroll_buffer_push, TypeOK, Slots
<1>2. /\ history \in Seq(Entry) /\ e \in Entry
      /\ Len(history') = Len(history) + 1
      /\ history'[Len(history) + 1] = e
      /\ \A i \in 1 .. Len(history) : history'[i] = history[i]
  BY DEF TypeOK, Entry
<1>3. ASSUME NEW k \in 0 .. Size - 1
      PROVE  scroll_buffer_get(k)' =
               IF k < Len(history') THEN history'[Len(history') - k]
                                    ELSE [line |-> NoLine, len |-> 0]
  <2>1. CASE k = 0
    <3>1. GetIndex(k)' = slot
      BY <1>1, <2>1 DEF GetIndex, Slots
    <3>2. scroll_buffer_get(k)' = e
      BY <1>1, <3>1 DEF scroll_buffer_get, TypeOK
    <3> QED BY <3>2, <2>1, <1>2
  <2>2. CASE k # 0
    <3> DEFINE j == k - 1
    <3>1. j \in 0 .. Size - 2 /\ k = j + 1
      BY <2>2
    <3>2. GetIndex(k)' \in Slots /\ GetIndex(k)' # slot
      <4> HIDE DEF slot
      <4> QED BY <1>1, <3>1 DEF GetIndex, Slots
    <3>3. scroll_buffer_get(k)' = [line |-> scroll_buffer[GetIndex(k)'],
                                   len |-> scroll_buffer_lens[GetIndex(k)']]
      BY <1>1, <3>2 DEF scroll_buffer_get, TypeOK
    <3>4. CASE scroll_buffer_size = 0
      <4>1. scroll_buffer_get(k)' = [line |-> NoLine, len |-> 0]
        BY <3>2, <3>3, <3>4 DEF RingInv
      <4>2. Len(history) = 0
        BY <3>4 DEF RingInv
      <4> QED BY <4>1, <4>2, <1>2, <2>2
    <3>5. CASE scroll_buffer_size # 0
      <4>1. scroll_buffer_size = Size /\ scroll_buffer_end \in 1 .. Size
        BY <3>5 DEF TypeOK, RingInv
      <4>2. GetIndex(k)' = GetIndex(j)
        BY <4>1, <1>1, <3>1 DEF GetIndex, Slots
      <4>3. scroll_buffer_get(k)' = scroll_buffer_get(j)
        BY <4>2, <3>3 DEF scroll_buffer_get
      <4>4. scroll_buffer_get(j) =
               IF j < Len(history) THEN history[Len(history) - j]
                                   ELSE [line |-> NoLine, len |-> 0]
        BY <3>5, <3>1 DEF RingInv, RingHoldsHistory
      <4>5. j < Len(history) => Len(history) - j \in 1 .. Len(history)
        BY <3>1, <1>2
      <4> HIDE DEF e
      <4> QED BY <4>3, <4>4, <4>5, <1>2, <3>1
    <3> QED BY <3>4, <3>5
  <2> QED BY <2>1, <2>2
<1>4. RingHoldsHistory'
  BY <1>3 DEF RingHoldsHistory
<1>5. \/ Len(history') = scroll_buffer_end'
      \/ Len(history') >= Size /\ Len(history') > scroll_buffer_end'
  <2>1. Len(history) \in Nat
    BY <1>2
  <2>2. scroll_buffer_size = 0 => Len(history) = 0
    BY DEF RingInv
  <2> QED BY <1>1, <1>2, <2>1, <2>2 DEF RingInv, TypeOK
<1> QED BY <1>1, <1>4, <1>5 DEF RingInv, Slots

-----------------------------------------------------------------------------

(* One iteration of the loop: the ring takes the row, the loop advances.   *)
LEMMA PushRowIInv == IInv /\ PushRow => IInv'
<1> SUFFICES ASSUME IInv, PushRow PROVE IInv'
  OBVIOUS
<1> USE DEF IInv
<1> DEFINE line == screen[prescroll.row]
           e == [line |-> line, len |-> cols]
<1>1. ~Idle /\ prescroll.row \in 0 .. rows - 1
  BY SMTT(40) DEF PushRow, TypeOK, Idle
<1>2. line \in Lines /\ cols \in Widths /\ e \in Entry
  BY <1>1 DEF TypeOK, Entry
<1>3. /\ scroll_buffer_push(line, cols)
      /\ history' = Append(history, e)
      /\ prescroll' = [prescroll EXCEPT !.row = @ + 1]
      /\ UNCHANGED <<scroll_offset, rows, cols, screen>>
  BY DEF PushRow
<1>4. RingInv'
  BY <1>2, <1>3, PushHistory
<1>5. /\ scroll_buffer' \in [Slots -> Lines \cup {NoLine}]
      /\ scroll_buffer_lens' \in [Slots -> Widths \cup {0}]
      /\ scroll_buffer_size' = Size
      /\ scroll_buffer_end' \in 1 .. Size
  BY <1>2, <1>3, PushType
<1>6. /\ history \in Seq(Entry) /\ history' \in Seq(Entry)
      /\ Len(history') = Len(history) + 1
      /\ history'[Len(history) + 1] = e
      /\ \A i \in 1 .. Len(history) : history'[i] = history[i]
  BY <1>2, <1>3 DEF TypeOK
<1>7. /\ prescroll' \in [row : Nat, end_row : Nat, bottom : Nat]
      /\ prescroll'.row = prescroll.row + 1
      /\ prescroll'.end_row = prescroll.end_row
      /\ prescroll'.bottom = prescroll.bottom
      /\ prescroll.row \in Nat
  <2>1. prescroll \in [row : Nat, end_row : Nat, bottom : Nat]
    BY DEF TypeOK
  <2>2. prescroll' = [prescroll EXCEPT !.row = @ + 1]
    BY <1>3
  <2> HIDE DEF IInv
  <2> QED BY <2>1, <2>2
<1>8. TypeOK'
  <2>1. /\ prescroll'.row <= prescroll'.end_row
        /\ prescroll'.end_row < prescroll'.bottom
        /\ prescroll'.bottom <= rows
    BY <1>1, <1>7, SMTT(40) DEF TypeOK, PushRow
  <2>2. scroll_buffer_end' \in 0 .. Size /\ scroll_buffer_size' \in {0, Size}
    BY <1>5
  <2>3. /\ scroll_offset' \in 0 .. MaxOffset /\ rows' \in Heights
        /\ cols' \in Widths /\ screen' \in [0 .. rows' - 1 -> Lines]
    BY <1>3 DEF TypeOK
  <2> HIDE DEF IInv
  <2> QED BY <1>3, <1>5, <1>6, <1>7, <2>1, <2>2, <2>3 DEF TypeOK
<1>9. LoopInv'
  <2>1. prescroll.row <= Len(history)
    BY DEF LoopInv
  <2>2. ASSUME NEW r \in 0 .. prescroll.row
        PROVE  history'[Len(history) - prescroll.row + r + 1] =
                 [line |-> screen[r], len |-> cols]
    <3>1. CASE r = prescroll.row
      <4>1. Len(history) - prescroll.row + r + 1 = Len(history) + 1
        BY <3>1, <1>6, <1>7, SMTT(40)
      <4> QED BY <4>1, <3>1, <1>6
    <3>2. CASE r # prescroll.row
      <4>1. r \in 0 .. prescroll.row - 1
        BY <3>2, <1>7
      <4>2. Len(history) - prescroll.row + r + 1 \in 1 .. Len(history)
        BY <4>1, <2>1, <1>6, <1>7, SMTT(40)
      <4>3. history[Len(history) - prescroll.row + r + 1] = [line |-> screen[r], len |-> cols]
        BY <4>1 DEF LoopInv
      <4> QED BY <4>2, <4>3, <1>6, Zenon
    <3> QED BY <3>1, <3>2
  <2> HIDE DEF e
  <2>3. ASSUME NEW r \in 0 .. prescroll'.row - 1
        PROVE  history'[Len(history') - prescroll'.row + r + 1] =
                 [line |-> screen'[r], len |-> cols']
    <3>1. r \in 0 .. prescroll.row
      BY <1>7
    <3>2. Len(history') - prescroll'.row + r + 1
            = Len(history) - prescroll.row + r + 1
      <4>1. Len(history) \in Nat /\ Len(history') = Len(history) + 1
        BY <1>6
      <4>2. /\ prescroll.row \in Nat /\ r \in Nat
            /\ prescroll'.row = prescroll.row + 1
        BY <3>1, <1>7
      <4> HIDE DEF IInv
      <4> QED BY <4>1, <4>2, SMTT(40)
    <3>3. screen' = screen /\ cols' = cols
      BY <1>3
    <3>4. history'[Len(history) - prescroll.row + r + 1] =
            [line |-> screen[r], len |-> cols]
      BY <3>1, <2>2
    <3> QED BY <3>2, <3>3, <3>4
  <2> QED BY <2>1, <2>3, <1>6, <1>7 DEF LoopInv
<1> QED BY <1>4, <1>8, <1>9

(* The end of a scroll and every other action leave the ring alone.        *)
LEMMA OtherIInv == IInv /\ [Next]_vars /\ ~PushRow => IInv'
<1> SUFFICES ASSUME IInv, [Next]_vars, ~PushRow PROVE IInv'
  OBVIOUS
<1> USE DEF IInv
<1>1. UNCHANGED ring
  BY DEF Next, vars, ShiftRows, Scroll, PutText, Resize, WheelUp, WheelDown,
         KeyDown
<1>2. RingInv'
  BY <1>1 DEF ring, RingInv, RingHoldsHistory, scroll_buffer_get, GetIndex
<1>3. TypeOK' /\ LoopInv'
  <2> USE DEF ring, TypeOK, Idle
  <2>1. CASE ShiftRows
    <3>1. /\ UNCHANGED <<ring, scroll_offset, rows, cols>>
          /\ prescroll' = NoScroll
          /\ screen' = Shifted(0, prescroll.bottom, prescroll.end_row)
      BY <2>1 DEF ShiftRows
    <3>2. screen' \in [0 .. rows - 1 -> Lines]
      BY <3>1 DEF Shifted
    <3> QED BY <3>1, <3>2 DEF LoopInv, NoScroll
  <2>2. ASSUME NEW top \in 0 .. rows - 1, NEW bottom \in top + 1 .. rows,
               NEW n \in top - bottom .. bottom - top, Scroll(top, bottom, n)
        PROVE  TypeOK' /\ LoopInv'
    <3>1. /\ UNCHANGED <<ring, scroll_offset, rows, cols>>
          /\ prescroll.row = 0 /\ Idle
      BY <2>2 DEF Scroll
    <3>2. CASE /\ n > 0 /\ n < bottom
               /\ prescroll' = [row |-> 0, end_row |-> n, bottom |-> bottom]
               /\ UNCHANGED screen
      BY <3>1, <3>2 DEF LoopInv
    <3>3. CASE screen' = Shifted(top, bottom, n) /\ UNCHANGED prescroll
      <4>1. screen' \in [0 .. rows - 1 -> Lines]
        BY <3>1, <3>3 DEF Shifted
      <4> QED BY <3>1, <3>3, <4>1 DEF LoopInv
    <3> QED BY <2>2, <3>2, <3>3 DEF Scroll
  <2>3. ASSUME NEW r \in 0 .. rows - 1, NEW line \in Lines, PutText(r, line)
        PROVE  TypeOK' /\ LoopInv'
    BY <2>3 DEF PutText, LoopInv
  <2>4. ASSUME NEW new_rows \in Heights, NEW new_cols \in Widths,
               Resize(new_rows, new_cols)
        PROVE  TypeOK' /\ LoopInv'
    BY <2>4 DEF Resize, LoopInv
  <2>5. CASE WheelUp
    BY <2>5 DEF WheelUp, LoopInv
  <2>6. CASE WheelDown
    BY <2>6 DEF WheelDown, LoopInv
  <2>7. CASE KeyDown
    BY <2>7 DEF KeyDown, LoopInv
  <2>8. CASE UNCHANGED vars
    BY <2>8 DEF vars, LoopInv
  <2> QED BY <2>1, <2>2, <2>3, <2>4, <2>5, <2>6, <2>7, <2>8 DEF Next
<1> QED BY <1>2, <1>3

(* The inductive invariant holds in every reachable state.                 *)
THEOREM Invariance == Spec => []IInv
<1>1. IInv /\ [Next]_vars => IInv'
  BY PushRowIInv, OtherIInv
<1> QED BY InitIInv, <1>1, PTL DEF Spec

(* Type correctness of the scrollback, ring indices included.              *)
THEOREM TypeCorrect == Spec => []TypeOK
<1>1. IInv => TypeOK
  BY DEF IInv
<1> QED BY Invariance, <1>1, PTL

(* grab_row never makes scroll_buffer_get index outside the ring, whatever *)
(* the scroll offset and the number of lines pushed.                       *)
THEOREM ReadsInBounds == Spec => []GetInBounds
<1>1. IInv => GetInBounds
  BY DEF IInv, TypeOK, RingInv, GetInBounds, GetIndex, Slots
<1> QED BY Invariance, <1>1, PTL

(* The ring holds exactly the newest lines that left the screen.           *)
THEOREM RingIsHistory == Spec => []RingHoldsHistory
<1>1. IInv => RingHoldsHistory
  BY DEF IInv, RingInv
<1> QED BY Invariance, <1>1, PTL

(* A scroll saves every row it overwrites at the top of the screen.        *)
THEOREM ScrollSaves == Spec => ScrollSavesRows
<1>1. ASSUME IInv, [Next]_vars, ~Idle, Idle'
      PROVE  \A r \in 0 .. prescroll.end_row - 1 :
               history[Len(history) - prescroll.end_row + r + 1] =
                 [line |-> screen[r], len |-> cols]
  <2>1. prescroll.row = prescroll.end_row
    BY <1>1 DEF Next, vars, PushRow, ShiftRows, Scroll, PutText, Resize,
                WheelUp, WheelDown, KeyDown, Idle, IInv, TypeOK
  <2> QED BY <1>1, <2>1 DEF IInv, LoopInv
<1> QED BY Invariance, <1>1, PTL DEF Spec, ScrollSavesRows

-----------------------------------------------------------------------------
(* The ring implements the log of LineLog.                                 *)

(* How many lines the ring holds: all of them, or the Size newest.         *)
Kept == IF Len(history) < Size THEN Len(history) ELSE Size

LogSeq == [i \in 1 .. Stored |-> scroll_buffer_get(Stored - i)]

(* Read through scroll_buffer_get, the ring is the end of the history.     *)
LogIsHistory ==
  /\ history \in Seq(Entry)
  /\ LogSeq \in Seq(Entry)
  /\ Len(LogSeq) = Kept
  /\ \A i \in 1 .. Kept : LogSeq[i] = history[Len(history) - Kept + i]

(* The inductive invariant gives the shape of the log.                     *)
LEMMA LogShape == IInv => LogIsHistory
<1> SUFFICES ASSUME IInv PROVE LogIsHistory
  OBVIOUS
<1> USE DEF IInv
<1>1. history \in Seq(Entry) /\ Len(history) \in Nat
  BY DEF TypeOK
<1>2. Kept \in 0 .. Size /\ Kept <= Len(history)
  BY <1>1 DEF Kept
<1>3. Stored = Kept
  <2>1. CASE scroll_buffer_size = 0
    BY <2>1 DEF Stored, Kept, RingInv
  <2>2. CASE scroll_buffer_size # 0
    <3>1. scroll_buffer_size = Size /\ scroll_buffer_end \in 1 .. Size
      BY <2>2 DEF TypeOK, RingInv
    <3>2. \/ Len(history) = scroll_buffer_end
          \/ Len(history) >= Size /\ Len(history) > scroll_buffer_end
      BY <2>2 DEF RingInv
    <3> DEFINE k == IF scroll_buffer_end = Size THEN 0 ELSE scroll_buffer_end
    <3>3. k \in 0 .. Size - 1 /\ GetIndex(k) = Size - 1
      BY <3>1 DEF GetIndex
    <3> DEFINE get == scroll_buffer_get(k)
    <3>4. get = IF k < Len(history) THEN history[Len(history) - k]
                                    ELSE [line |-> NoLine, len |-> 0]
      BY <3>3, <2>2 DEF RingInv, RingHoldsHistory
    <3>5. get.line = scroll_buffer[Size - 1]
      BY <3>3 DEF scroll_buffer_get
    <3>6. scroll_buffer[Size - 1] = NoLine <=> k >= Len(history)
      <4> HIDE DEF get
      <4>1. k < Len(history) => Len(history) - k \in 1 .. Len(history)
        BY <1>1, <3>3
      <4>2. k < Len(history) => history[Len(history) - k] \in Entry
        BY <1>1, <4>1
      <4> QED BY <3>3, <3>4, <3>5, <4>2, <1>1 DEF Entry
    <3> QED BY <2>2, <3>1, <3>2, <3>6, <1>1 DEF Stored, Kept
  <2> QED BY <2>1, <2>2
<1>4. ASSUME NEW i \in 1 .. Kept
      PROVE  /\ scroll_buffer_get(Kept - i) = history[Len(history) - Kept + i]
             /\ history[Len(history) - Kept + i] \in Entry
  <2>1. Kept - i \in 0 .. Size - 1 /\ Kept - i < Len(history)
    BY <1>1, <1>2
  <2>2. scroll_buffer_size # 0
    BY <1>1, <1>2, <1>4 DEF RingInv
  <2>3. scroll_buffer_get(Kept - i) = history[Len(history) - (Kept - i)]
    BY <2>1, <2>2 DEF RingInv, RingHoldsHistory
  <2>4. /\ Len(history) - (Kept - i) = Len(history) - Kept + i
        /\ Len(history) - Kept + i \in 1 .. Len(history)
    BY <1>1, <1>2
  <2> QED BY <2>3, <2>4, <1>1
<1>5. LogSeq = [i \in 1 .. Kept |-> scroll_buffer_get(Kept - i)]
  BY <1>3 DEF LogSeq
<1>6. Kept \in Nat /\ \A i \in 1 .. Kept : scroll_buffer_get(Kept - i) \in Entry
  BY <1>2, <1>4
<1>7. LogSeq \in Seq(Entry) /\ Len(LogSeq) = Kept
  <2> HIDE DEF IInv
  <2> QED BY <1>5, <1>6
<1> QED BY <1>1, <1>4, <1>5, <1>7 DEF LogIsHistory

(* Two facts of arithmetic: a position other than the last is before it,   *)
(* and the last k of n + 1 positions, the last one left out, are among the *)
(* first n.                                                                *)
LEMMA BeforeLast ==
  \A n \in Nat : \A k, i : k \in 1 .. n /\ i \in 1 .. k /\ i # k => i \in 1 .. k - 1
  OBVIOUS

LEMMA ShiftBack ==
  \A n \in Nat : \A m, k, i :
    m = n + 1 /\ k \in 1 .. n + 1 /\ i \in 1 .. k - 1 => m - k + i \in 1 .. n
  OBVIOUS

(* One push of a history is one Record of the log.                         *)
LEMMA PushRecords ==
  ASSUME LogIsHistory, LogIsHistory', NEW e \in Entry,
         history' = Append(history, e)
  PROVE  LogSeq' = Append(IF Len(LogSeq) < Size THEN LogSeq ELSE Tail(LogSeq), e)
<1> DEFINE base == IF Len(LogSeq) < Size THEN LogSeq ELSE Tail(LogSeq)
           d == Len(history) - Kept
<1>1. /\ history \in Seq(Entry) /\ Len(history) \in Nat
      /\ Len(history') = Len(history) + 1
      /\ history'[Len(history) + 1] = e
      /\ \A i \in 1 .. Len(history) : history'[i] = history[i]
  BY DEF LogIsHistory
<1>2. /\ LogSeq \in Seq(Entry) /\ Len(LogSeq) = Kept
      /\ \A i \in 1 .. Kept : LogSeq[i] = history[d + i]
      /\ Kept \in 0 .. Size /\ Kept <= Len(history)
      /\ d \in Nat
  <2>1. Kept \in 0 .. Size /\ Kept <= Len(history)
    BY <1>1 DEF Kept
  <2> QED BY <1>1, <2>1 DEF LogIsHistory
<1>3. /\ LogSeq' \in Seq(Entry) /\ Len(LogSeq') = Kept'
      /\ \A i \in 1 .. Kept' : LogSeq'[i] = history'[Len(history') - Kept' + i]
  BY DEF LogIsHistory
<1>4. /\ base \in Seq(Entry)
      /\ Len(base) + 1 = Kept'
      /\ \A i \in 1 .. Kept' - 1 : base[i] = history[Len(history') - Kept' + i]
  <2>1. CASE Len(history) < Size
    <3>1. Kept = Len(history) /\ Kept' = Len(history) + 1 /\ base = LogSeq
      BY <2>1, <1>1, <1>2 DEF Kept
    <3> QED BY <3>1, <1>1, <1>2
  <2>2. CASE Len(history) >= Size
    <3>1. Kept = Size /\ Kept' = Size /\ base = Tail(LogSeq)
      BY <2>2, <1>1, <1>2 DEF Kept
    <3>2. LogSeq # <<>>
      BY <3>1, <1>2
    <3>3. /\ base \in Seq(Entry) /\ Len(base) = Size - 1
          /\ \A i \in 1 .. Size - 1 : base[i] = LogSeq[i + 1]
      BY <3>1, <3>2, <1>2, HeadTailProperties
    <3>4. ASSUME NEW i \in 1 .. Size - 1
          PROVE  base[i] = history[Len(history') - Kept' + i]
      <4> HIDE DEF base
      <4>1. base[i] = history[d + (i + 1)]
        BY <3>1, <3>3, <1>2
      <4>2. d + (i + 1) = Len(history') - Kept' + i
        <5>1. /\ Len(history) \in Nat /\ Len(history') = Len(history) + 1
              /\ Kept = Size /\ Kept' = Size
          BY <3>1, <1>1
        <5> QED BY <5>1
      <4> QED BY <4>1, <4>2
    <3> HIDE DEF base
    <3> QED BY <3>1, <3>3, <3>4
  <2>3. Len(history) < Size \/ Len(history) >= Size
    BY <1>1
  <2> HIDE DEF base
  <2> QED BY <2>1, <2>2, <2>3
<1> DEFINE new == Append(base, e)
<1>5. /\ new \in Seq(Entry) /\ Len(new) = Kept'
      /\ new[Kept'] = e
      /\ \A i \in 1 .. Kept' - 1 : new[i] = base[i]
  <2> HIDE DEF base
  <2> QED BY <1>4, AppendProperties
<1>6. ASSUME NEW i \in 1 .. Kept' PROVE LogSeq'[i] = new[i]
  <2> HIDE DEF base, new
  <2>0. Kept' \in 1 .. Len(history) + 1 /\ Len(history) + 1 \in Nat
    BY <1>1 DEF Kept
  <2>1. LogSeq'[i] = history'[Len(history') - Kept' + i]
    BY <1>3
  <2>2. CASE i = Kept'
    <3>1. Len(history') - Kept' + i = Len(history) + 1
      BY <2>0, <2>2, <1>1
    <3>2. LogSeq'[i] = e
      BY <3>1, <2>1, <1>1
    <3> QED BY <3>2, <2>2, <1>5
  <2>3. CASE i # Kept'
    <3>1. i \in 1 .. Kept' - 1
      BY <2>0, <2>3, BeforeLast
    <3>2. Len(history') - Kept' + i \in 1 .. Len(history)
      <4>1. Len(history) \in Nat /\ Len(history') = Len(history) + 1
        BY <1>1
      <4> QED BY <2>0, <3>1, <4>1, ShiftBack
    <3>3. LogSeq'[i] = history[Len(history') - Kept' + i]
      BY <3>2, <2>1, <1>1
    <3> QED BY <3>1, <3>3, <1>4, <1>5
  <2> QED BY <2>2, <2>3
<1> HIDE DEF base, new
<1>7. LogSeq' = new
  BY <1>3, <1>5, <1>6, SeqEqual
<1> QED BY <1>7 DEF base, new

(* hterm's ring is a bounded log of the lines that left the screen.        *)
THEOREM Refinement == Spec => ImplementsLog
<1>1. Init => Log!Init
  <2>1. Init => Stored = 0
    BY DEF Init, Stored
  <2> QED BY <2>1 DEF Log!Init
<1>2. IInv /\ LogIsHistory /\ LogIsHistory' /\ [Next]_vars
        => [Log!Next]_LogSeq
  <2> SUFFICES ASSUME IInv, LogIsHistory, LogIsHistory', [Next]_vars
               PROVE  [Log!Next]_LogSeq
    OBVIOUS
  <2>1. CASE PushRow
    <3> DEFINE e == [line |-> screen[prescroll.row], len |-> cols]
    <3>1. e \in Entry
      BY <2>1, SMTT(40) DEF PushRow, IInv, TypeOK, Idle, Entry
    <3>2. history' = Append(history, e)
      BY <2>1 DEF PushRow
    <3>3. LogSeq' = Append(IF Len(LogSeq) < Size THEN LogSeq ELSE Tail(LogSeq), e)
      BY <3>1, <3>2, PushRecords
    <3> QED BY <3>1, <3>3 DEF Log!Next, Log!Record, LogSeq
  <2>2. CASE ~PushRow
    <3>1. UNCHANGED ring
      BY <2>2 DEF Next, vars, ShiftRows, Scroll, PutText, Resize, WheelUp,
                  WheelDown, KeyDown
    <3> QED BY <3>1 DEF ring, LogSeq, Stored, scroll_buffer_get, GetIndex
  <2> QED BY <2>1, <2>2
<1>3. IInv /\ LogIsHistory /\ LogIsHistory' /\ [Next]_vars =>
        [Log!Next]_([i \in 1 .. Stored |-> scroll_buffer_get(Stored - i)])
  BY <1>2 DEF LogSeq
<1> QED
  BY <1>1, <1>3, Invariance, LogShape, PTL DEF Spec, ImplementsLog, Log!Spec

-----------------------------------------------------------------------------
(* Selecting: a refinement of Scrollback, step by step.                    *)

(* A press and a release, be it of a drag or of a click, change nothing    *)
(* that the scrollback knows (process_mouse_event, get_text_region).       *)
LEMMA MouseReads ==
  ASSUME [SelNext]_svars
  PROVE  [Next]_vars
<1>1. CASE Elsewhere
  BY <1>1 DEF Elsewhere
<1>2. CASE \E x \in Xs, y \in Ys : Press(x, y)
  BY <1>2 DEF Press
<1>3. ASSUME NEW x \in Xs, NEW y \in Ys, NEW space_behind \in BOOLEAN,
             Release(x, y, space_behind)
      PROVE  UNCHANGED vars
  BY <1>3 DEF Release
<1>4. ASSUME NEW x \in Xs, NEW y \in Ys, NEW space_behind \in BOOLEAN,
             NEW again \in BOOLEAN, Click(x, y, again, space_behind)
      PROVE  UNCHANGED vars
  BY <1>4 DEF Click
<1>5. CASE UNCHANGED svars
  BY <1>5 DEF svars
<1> QED BY <1>1, <1>2, <1>3, <1>4, <1>5 DEF SelNext

(* Selection implements Scrollback.                                        *)
THEOREM SelectionIsScrollback == SelSpec => Spec
<1>1. SelInit => Init
  BY DEF SelInit
<1>2. [SelNext]_svars => [Next]_vars
  BY MouseReads
<1> QED BY <1>1, <1>2, PTL DEF SelSpec, Spec

(* Whatever is selected and copied in between, the ring is read in bounds  *)
(* and holds the newest lines (scroll_buffer_push, scroll_buffer_get).     *)
THEOREM SelectionKeepsRing == SelSpec => [](GetInBounds /\ RingHoldsHistory)
  BY SelectionIsScrollback, ReadsInBounds, RingIsHistory, PTL

(* ... and a scroll saves what it overwrites, into a bounded log           *)
(* (screen_prescroll, scroll_buffer_push).                                 *)
THEOREM SelectionKeepsLog == SelSpec => ScrollSavesRows /\ ImplementsLog
  BY SelectionIsScrollback, ScrollSaves, Refinement, PTL

-----------------------------------------------------------------------------
(* A press remembers a place on the screen, which is there as long as the  *)
(* rows have not moved, and the offset the view had.                       *)
PressIsPlace ==
  /\ press \subseteq [x : Xs, y : Ys, so : 0 .. MaxOffset, moved : BOOLEAN]
  /\ \A p \in press : ~p.moved => OnScreen(p.x, p.y)

LEMMA PlaceStep ==
  ASSUME TypeOK, PressIsPlace, [SelNext]_svars
  PROVE  PressIsPlace'
<1>1. CASE Elsewhere
  <2> DEFINE Moved(p) == \/ p.moved \/ screen' # screen \/ prescroll' # prescroll
                         \/ rows' # rows \/ cols' # cols
  <2>1. press' = {[p EXCEPT !.moved = Moved(p)] : p \in press}
    BY <1>1 DEF Elsewhere
  <2>2. ASSUME NEW p \in press, NEW q, q = [p EXCEPT !.moved = Moved(p)]
        PROVE  /\ q \in [x : Xs, y : Ys, so : 0 .. MaxOffset, moved : BOOLEAN]
               /\ ~q.moved => OnScreen(q.x, q.y)'
    <3>1. p \in [x : Xs, y : Ys, so : 0 .. MaxOffset, moved : BOOLEAN]
      BY DEF PressIsPlace
    <3>2. q.x = p.x /\ q.y = p.y /\ q.so = p.so /\ q.moved = Moved(p)
      BY <2>2, <3>1
    <3>3. Moved(p) \in BOOLEAN
      BY <3>1
    <3>4. q \in [x : Xs, y : Ys, so : 0 .. MaxOffset, moved : BOOLEAN]
      <4> HIDE DEF Moved
      <4> QED BY <2>2, <3>1, <3>3
    <3>5. ASSUME ~q.moved PROVE OnScreen(q.x, q.y)'
      <4>1. ~p.moved /\ rows' = rows /\ cols' = cols
        BY <3>2, <3>5
      <4>2. OnScreen(p.x, p.y)
        BY <4>1 DEF PressIsPlace
      <4>3. Floor(q.x, CellWidth) < cols' /\ Floor(q.y, CellHeight) < rows'
        BY <3>2, <4>1, <4>2 DEF OnScreen
      <4> QED BY <4>3 DEF OnScreen, Floor
    <3> QED BY <3>4, <3>5
  <2> HIDE DEF Moved
  <2>3. \A q \in press' : \E p \in press : q = [p EXCEPT !.moved = Moved(p)]
    BY <2>1
  <2> QED BY <2>2, <2>3 DEF PressIsPlace, OnScreen
<1>2. ASSUME NEW x \in Xs, NEW y \in Ys, Press(x, y) PROVE PressIsPlace'
  <2>1. press' = {[x |-> x, y |-> y, so |-> scroll_offset, moved |-> FALSE]}
    BY <1>2 DEF Press
  <2>2. scroll_offset \in 0 .. MaxOffset
    BY DEF TypeOK
  <2>3. Floor(x, CellWidth) < cols /\ Floor(y, CellHeight) < rows
    BY <1>2 DEF Press, OnScreen
  <2>4. cols' = cols /\ rows' = rows
    BY <1>2 DEF Press, vars
  <2>5. Floor(x, CellWidth) < cols' /\ Floor(y, CellHeight) < rows'
    BY <2>3, <2>4
  <2> QED BY <2>1, <2>2, <2>5 DEF PressIsPlace, OnScreen, Floor
<1>3. ASSUME NEW x \in Xs, NEW y \in Ys, NEW space_behind \in BOOLEAN,
             Release(x, y, space_behind)
      PROVE  press' = {}
  BY <1>3 DEF Release
<1>4. ASSUME NEW x \in Xs, NEW y \in Ys, NEW space_behind \in BOOLEAN,
             NEW again \in BOOLEAN, Click(x, y, again, space_behind)
      PROVE  press' = {}
  BY <1>4 DEF Click
<1>5. ASSUME press' = {} PROVE PressIsPlace'
  BY <1>5 DEF PressIsPlace
<1>6. CASE UNCHANGED svars
  BY <1>6 DEF svars, vars, PressIsPlace, OnScreen
<1> QED BY <1>1, <1>2, <1>3, <1>4, <1>5, <1>6 DEF SelNext

LEMMA PlaceInvariance == SelSpec => [](TypeOK /\ PressIsPlace)
<1>1. SelInit => PressIsPlace
  BY DEF SelInit, PressIsPlace
<1>2. SelSpec => []TypeOK
  BY SelectionIsScrollback, TypeCorrect, PTL
<1>3. TypeOK /\ PressIsPlace /\ [SelNext]_svars => PressIsPlace'
  BY PlaceStep
<1> QED BY <1>1, <1>2, <1>3, PTL DEF SelSpec
-----------------------------------------------------------------------------
(* What is copied.  The text of a row, cell by cell.                       *)

Cutting(q, r, from, width, S) ==
  /\ q \in [0 .. width -> Seq(S)] /\ q[0] = <<>>
  /\ \A n \in 1 .. width : q[n] = Added(q[n - 1], Cell(r, from + n - 1))

LEMMA CutStep ==
  ASSUME NEW r, NEW from \in Int, NEW to \in Int, NEW S, \A x \in Int : Cell(r, x) \in S
  PROVE  \E q : /\ Cutting(q, r, from, High(0, to - from), S)
                /\ q[High(0, to - from)] = Cut(r, from, to)
<1> DEFINE N == High(0, to - from)
           A == Seq(S)
           f == [x \in (1 .. N) \X A |-> Added(x[2], Cell(r, from + x[1] - 1))]
           Reads(q) == q = [n \in 0 .. N |-> IF n = 0 THEN <<>>
                                             ELSE Added(q[n - 1], Cell(r, from + n - 1))]
           d == CHOOSE q : Reads(q)
<1>1. N \in Nat
  BY DEF High
<1>2. <<>> \in A
  BY EmptySeq
<1>3. f \in [(1 .. N) \X A -> A]
  <2>1. ASSUME NEW x \in (1 .. N) \X A PROVE Added(x[2], Cell(r, from + x[1] - 1)) \in A
    <3>1. x[1] \in 1 .. N /\ x[2] \in A /\ from + x[1] - 1 \in Int
      BY <1>1
    <3>2. Cell(r, from + x[1] - 1) \in S
      BY <3>1
    <3> QED BY <3>1, <3>2, AppendProperties DEF Added
  <2> HIDE DEF N, A
  <2> QED BY <2>1
<1>4. PICK q : Recursive(q, N, A, <<>>, f)
  <2> HIDE DEF N, A, f
  <2> QED BY <1>1, <1>2, <1>3, Recursion
<1>5. \A k \in 1 .. N : q[k] = Added(q[k - 1], Cell(r, from + k - 1))
  <2> SUFFICES ASSUME NEW k \in 1 .. N PROVE q[k] = Added(q[k - 1], Cell(r, from + k - 1))
    OBVIOUS
  <2> HIDE DEF N, A
  <2>1. q[k - 1] \in A
    BY <1>1, <1>4 DEF Recursive
  <2>2. <<k, q[k - 1]>> \in (1 .. N) \X A
    BY <2>1
  <2>3. f[<<k, q[k - 1]>>] = Added(q[k - 1], Cell(r, from + k - 1))
    BY <2>2
  <2> HIDE DEF f
  <2> QED BY <1>4, <2>3 DEF Recursive
<1>6. q \in [0 .. N -> A] /\ q[0] = <<>>
  <2> HIDE DEF N, A, f
  <2> QED BY <1>4 DEF Recursive
<1>7. Reads(d)
  <2>1. q = [n \in 0 .. N |-> q[n]]
    BY <1>6
  <2>2. \A n \in 0 .. N : q[n] = IF n = 0 THEN <<>> ELSE Added(q[n - 1], Cell(r, from + n - 1))
    <3> HIDE DEF N, A, f
    <3> QED BY <1>1, <1>5, <1>6
  <2>3. Reads(q)
    <3> HIDE DEF N, A, f
    <3> QED BY <2>1, <2>2
  <2> HIDE DEF Reads
  <2> QED BY <2>3
<1>8. Cut(r, from, to) = d[N]
  BY DEF Cut
<1> HIDE DEF d, f, A, N
<1>9. d[0] = <<>> /\ \A k \in 1 .. N : d[k] = Added(d[k - 1], Cell(r, from + k - 1))
  BY <1>1, <1>7
<1> HIDE DEF Reads
<1>10. \A k \in 1 .. N : d[k - 1] = q[k - 1] => d[k] = q[k]
  BY <1>5, <1>9
<1>11. \A k \in 0 .. N : d[k] = q[k]
  <2>1. d[0] = q[0]
    BY <1>6, <1>9
  <2>2. Alike(d, q, N)
    BY <1>10, <2>1, Zenon DEF Alike
  <2>3. N \in Nat
    BY <1>1
  <2> QED BY <2>2, <2>3, OneRecursion
<1>12. q[N] = Cut(r, from, to)
  BY <1>1, <1>8, <1>11
<1> QED BY <1>5, <1>6, <1>12 DEF Cutting, N, A

LEMMA CutText ==
  ASSUME NEW r, NEW from \in Int, NEW to \in Int, NEW S, \A x \in Int : Cell(r, x) \in S
  PROVE  Cut(r, from, to) \in Seq(S)
<1>1. High(0, to - from) \in Nat
  BY DEF High
<1>2. PICK q : /\ Cutting(q, r, from, High(0, to - from), S)
               /\ q[High(0, to - from)] = Cut(r, from, to)
  BY CutStep
<1> QED BY <1>1, <1>2 DEF Cutting

(* A row of the terminal's width is not clipped: behind it there is        *)
(* something that is no space.                                             *)
LEMMA NotClipped ==
  ASSUME NEW r, r.len = cols, cols \in Nat, NEW to \in Int, to <= cols
  PROVE  Clip(r, to, FALSE) = to
<1> DEFINE ink == {n \in 0 .. cols : /\ Cell(r, n) # Space
                                     /\ ~(FALSE /\ Cell(r, n) = Unread)}
           last == CHOOSE n \in ink : \A m \in ink : m <= n
<1>1. cols \in ink
  <2>1. cols \in 0 .. cols /\ cols \notin 0 .. r.len - 1
    OBVIOUS
  <2>2. Cell(r, cols) = Unread
    BY <2>1 DEF Cell
  <2> QED BY <2>1, <2>2 DEF Unread, Space
<1>2. ink \in SUBSET Nat /\ \A i \in ink : i <= cols
  OBVIOUS
<1> HIDE DEF ink
<1>3. last \in ink /\ \A m \in ink : m <= last
  <2>1. \E n \in ink : \A m \in ink : m <= n
    BY <1>1, <1>2, GreatestExists
  <2> QED BY <2>1
<1> HIDE DEF last
<1>4. last \in Nat /\ last <= cols /\ cols <= last
  BY <1>1, <1>2, <1>3
<1>5. ~(last < to)
  BY <1>4
<1> QED BY <1>5 DEF Clip, ink, last

(* The rows of a region, all of the terminal's width and all but the first *)
(* one there, and nothing marked up to the margin but in a single row.     *)
Covered(y1, y2) ==
  /\ y1 \in Int /\ y2 \in Int /\ y1 <= y2 /\ cols \in Nat
  /\ \A y \in y1 .. y2 : Row(y).line # NoLine => Row(y).len = cols
  /\ \A y \in y1 + 1 .. y2 : Row(y).line # NoLine

(* The characters there are.                                               *)
Ink == {Cell(Row(y), x) : y \in Int, x \in Int} \cup {Newline, Nul}

Columns(x1, y1, x2, y2) ==
  x1 \in Int /\ x2 \in Int /\ x2 <= cols /\ (y1 # y2 => x2 < cols)

(* What a row brings: its cells from x1 in the first row, up to x2 in the  *)
(* last one.                                                               *)
Part(x1, y1, x2, y2, y) ==
  IF Row(y).line = NoLine THEN <<>>
  ELSE Cut(Row(y), IF y = y1 THEN x1 ELSE 0, IF y = y2 THEN x2 ELSE cols)

LEMMA PartText ==
  ASSUME NEW x1, NEW y1, NEW x2, NEW y2, Covered(y1, y2), Columns(x1, y1, x2, y2),
         NEW y \in Int
  PROVE  Part(x1, y1, x2, y2, y) \in Seq(Ink)
<1> DEFINE from == IF y = y1 THEN x1 ELSE 0
           to == IF y = y2 THEN x2 ELSE cols
<1>1. from \in Int /\ to \in Int
  BY DEF Covered, Columns
<1>2. \A x \in Int : Cell(Row(y), x) \in Ink
  BY DEF Ink
<1>3. Cut(Row(y), from, to) \in Seq(Ink)
  <2> HIDE DEF from, to
  <2> QED BY <1>1, <1>2, CutText
<1>4. <<>> \in Seq(Ink)
  BY EmptySeq
<1> QED BY <1>3, <1>4 DEF Part

Eol(y, y2) == IF y = y2 THEN <<>> ELSE <<Newline>>

LEMMA EolText == ASSUME NEW y, NEW y2 PROVE Eol(y, y2) \in Seq(Ink) /\ <<Newline>> \in Seq(Ink)
<1>1. Newline \in Ink
  BY DEF Ink
<1>2. <<Newline>> \in Seq(Ink) /\ <<>> \in Seq(Ink)
  BY <1>1, EmptySeq
<1> QED BY <1>2 DEF Eol

(* get_text_region adds that and the end of the line.                      *)
Adds(text, x1, y1, x2, y2, y) ==
  LET added == AddRow([text |-> text, end_x |-> x2], y, x1, y1, y2, FALSE)
      more == (text \o Part(x1, y1, x2, y2, y)) \o Eol(y, y2)
  IN  added.text = more /\ (y # y2 => added = [text |-> more, end_x |-> x2])

LEMMA RowAdded ==
  ASSUME NEW x1, NEW y1, NEW x2, NEW y2, Covered(y1, y2), Columns(x1, y1, x2, y2),
         NEW y \in y1 .. y2, NEW text \in Seq(Ink), y = y1 => text = <<>>
  PROVE  Adds(text, x1, y1, x2, y2, y)
<1> DEFINE r == Row(y)
           t == [text |-> text, end_x |-> x2]
           from == IF y = y1 THEN x1 ELSE 0
           bound == IF y = y2 THEN x2 ELSE cols
           to == Clip(r, bound, FALSE)
           more == (text \o Part(x1, y1, x2, y2, y)) \o Eol(y, y2)
           added == AddRow(t, y, x1, y1, y2, FALSE)
<1>1. y \in Int /\ cols \in Nat /\ x1 \in Int /\ x2 \in Int /\ x2 <= cols
  BY DEF Covered, Columns
<1>2. ASSUME r.line = NoLine
      PROVE  added.text = more /\ (y # y2 => added = [text |-> more, end_x |-> x2])
  <2>1. y = y1
    <3>1. y \notin y1 + 1 .. y2
      BY <1>2 DEF Covered
    <3> QED BY <1>1, <3>1 DEF Covered
  <2>2. text = <<>>
    BY <2>1
  <2>3. Part(x1, y1, x2, y2, y) = <<>>
    BY <1>2 DEF Part
  <2>4. more = <<>> \o Eol(y, y2)
    <3>1. <<>> \in Seq(Ink)
      BY EmptySeq
    <3>2. <<>> \o <<>> = <<>>
      BY <3>1, ConcatEmptySeq
    <3> QED BY <2>2, <2>3, <3>2
  <2>5. added = [t EXCEPT !.text = (IF t.text = <<>> THEN t.text ELSE <<Nul>> \o Tail(t.text))
                                     \o Eol(y, y2)]
    BY <1>2 DEF AddRow, Eol
  <2>6. added = [text |-> <<>> \o Eol(y, y2), end_x |-> x2]
    BY <2>2, <2>5
  <2> HIDE DEF added, more
  <2>7. added.text = more /\ added = [text |-> more, end_x |-> x2]
    BY <2>4, <2>6
  <2> QED BY <2>7 DEF added, more
<1>3. ASSUME r.line # NoLine
      PROVE  added.text = more /\ (y # y2 => added = [text |-> more, end_x |-> x2])
  <2>1. r.len = cols
    BY <1>3 DEF Covered
  <2>2. to = bound
    <3>1. bound \in Int /\ bound <= cols
      BY <1>1
    <3> HIDE DEF bound, r
    <3> QED BY <1>1, <2>1, <3>1, NotClipped DEF to
  <2>3. Part(x1, y1, x2, y2, y) = Cut(r, from, bound)
    BY <1>3 DEF Part
  <2>4. added = [text |-> t.text \o Cut(r, from, to) \o Eol(y, y2),
                 end_x |-> IF to > from /\ t.end_x >= r.len THEN r.len - 1 ELSE t.end_x]
    BY <1>3 DEF AddRow, Eol
  <2>5. added = [text |-> more,
                 end_x |-> IF to > from /\ x2 >= cols THEN cols - 1 ELSE x2]
    BY <2>1, <2>2, <2>3, <2>4
  <2>6. y # y2 => ~(x2 >= cols)
    <3>1. y # y2 => y1 # y2
      BY <1>1 DEF Covered
    <3> QED BY <1>1, <3>1 DEF Columns
  <2> HIDE DEF added, more
  <2>7. added.text = more /\ (y # y2 => added = [text |-> more, end_x |-> x2])
    BY <2>5, <2>6
  <2> QED BY <2>7 DEF added, more
<1>4. added.text = more /\ (y # y2 => added = [text |-> more, end_x |-> x2])
  BY <1>2, <1>3
<1> QED BY <1>4 DEF Adds

(* What a reader would copy, row by row.                                   *)
Brought(x1, y1, x2, y2, y) ==
  (IF y = y1 THEN <<>> ELSE <<Newline>>) \o Part(x1, y1, x2, y2, y)

Reader(q, x1, y1, x2, y2) ==
  /\ q \in [0 .. y2 - y1 + 1 -> Seq(Ink)] /\ q[0] = <<>>
  /\ \A n \in 1 .. y2 - y1 + 1 : q[n] = q[n - 1] \o Brought(x1, y1, x2, y2, y1 + n - 1)

LEMMA ReadBetween ==
  ASSUME NEW x1, NEW y1, NEW x2, NEW y2, Covered(y1, y2), Columns(x1, y1, x2, y2)
  PROVE  \E q : /\ Reader(q, x1, y1, x2, y2)
                /\ q[y2 - y1 + 1] = Between([row |-> y1, col |-> x1], [row |-> y2, col |-> x2])
<1> DEFINE N == y2 - y1 + 1
           A == Seq(Ink)
           a == [row |-> y1, col |-> x1]
           b == [row |-> y2, col |-> x2]
           more(n) == Brought(x1, y1, x2, y2, y1 + n - 1)
           f == [x \in (1 .. N) \X A |-> x[2] \o more(x[1])]
           next(s, n) == s \o RowBetween(a, b, a.row + n - 1)
           Reads(s) == s = [n \in 0 .. N |-> IF n = 0 THEN <<>> ELSE next(s[n - 1], n)]
           d == CHOOSE q : Reads(q)
<1>1. N \in Nat /\ y1 \in Int /\ y2 \in Int /\ \A n \in 1 .. N : y1 + n - 1 \in y1 .. y2
  BY DEF Covered
<1>2. <<>> \in A
  BY EmptySeq
<1>3. \A n \in 1 .. N : more(n) \in A
  <2> SUFFICES ASSUME NEW n \in 1 .. N PROVE more(n) \in A
    OBVIOUS
  <2> DEFINE y == y1 + n - 1
  <2>1. y \in Int
    BY <1>1
  <2> HIDE DEF y
  <2>2. Part(x1, y1, x2, y2, y) \in A
    BY <2>1, PartText
  <2>3. (IF y = y1 THEN <<>> ELSE <<Newline>>) \in A
    BY <1>2, EolText
  <2>4. Brought(x1, y1, x2, y2, y) \in A
    BY <2>2, <2>3, ConcatProperties DEF Brought
  <2> QED BY <2>4 DEF y
<1>4. f \in [(1 .. N) \X A -> A]
  <2>1. ASSUME NEW x \in (1 .. N) \X A PROVE x[2] \o more(x[1]) \in A
    <3>1. x[1] \in 1 .. N /\ x[2] \in A
      OBVIOUS
    <3>2. more(x[1]) \in A
      BY <1>3, <3>1
    <3> HIDE DEF more
    <3> QED BY <3>1, <3>2, ConcatProperties
  <2> HIDE DEF N, A, more
  <2> QED BY <2>1
<1>5. PICK q : Recursive(q, N, A, <<>>, f)
  <2> HIDE DEF N, A, f
  <2> QED BY <1>1, <1>2, <1>4, Recursion
<1>6. q \in [0 .. N -> A] /\ q[0] = <<>>
  <2> HIDE DEF N, A, f
  <2> QED BY <1>5 DEF Recursive
<1>7. \A n \in 1 .. N : q[n] = q[n - 1] \o more(n)
  <2> SUFFICES ASSUME NEW n \in 1 .. N PROVE q[n] = q[n - 1] \o more(n)
    OBVIOUS
  <2> HIDE DEF N, A, more
  <2>1. <<n, q[n - 1]>> \in (1 .. N) \X A
    BY <1>1, <1>6
  <2>2. f[<<n, q[n - 1]>>] = q[n - 1] \o more(n)
    BY <2>1
  <2> HIDE DEF f
  <2> QED BY <1>5, <2>2 DEF Recursive
<1>8. ASSUME NEW n \in 1 .. N PROVE RowBetween(a, b, a.row + n - 1) = more(n)
  <2> DEFINE y == y1 + n - 1
             r == Row(y)
  <2>1. y \in y1 .. y2 /\ a.row = y1 /\ a.col = x1 /\ b.row = y2 /\ b.col = x2
    BY <1>1
  <2>2. r.line # NoLine => r.len = cols
    BY <2>1 DEF Covered
  <2> HIDE DEF y
  <2>3. RowBetween(a, b, y) = Brought(x1, y1, x2, y2, y)
    BY <2>1, <2>2 DEF RowBetween, Brought, Part
  <2> QED BY <2>1, <2>3 DEF y
<1>9. Reads(q)
  <2>1. q = [n \in 0 .. N |-> q[n]]
    BY <1>6
  <2>2. \A n \in 1 .. N : q[n] = next(q[n - 1], n)
    BY <1>7, <1>8
  <2> HIDE DEF N, A, f, more, next
  <2>3. \A n \in 0 .. N : q[n] = IF n = 0 THEN <<>> ELSE next(q[n - 1], n)
    BY <1>1, <1>6, <2>2
  <2> QED BY <2>1, <2>3
<1>10. Reads(d)
  <2> HIDE DEF Reads
  <2> QED BY <1>9
<1>11. Between(a, b) = d[N]
  <2>1. b.row - a.row + 1 = N
    OBVIOUS
  <2> QED BY <2>1 DEF Between
<1> HIDE DEF d, f, A, N
<1>12. d[0] = <<>> /\ \A n \in 1 .. N : d[n] = next(d[n - 1], n)
  <2> HIDE DEF next
  <2> QED BY <1>1, <1>10
<1> HIDE DEF Reads
<1>13. \A n \in 1 .. N : d[n - 1] = q[n - 1] => d[n] = q[n]
  <2>1. \A n \in 1 .. N : q[n] = next(q[n - 1], n)
    BY <1>7, <1>8
  <2> HIDE DEF next
  <2> QED BY <1>12, <2>1
<1>14. \A n \in 0 .. N : d[n] = q[n]
  <2>1. d[0] = q[0]
    BY <1>6, <1>12
  <2>2. Alike(d, q, N)
    BY <1>13, <2>1, Zenon DEF Alike
  <2>3. N \in Nat
    BY <1>1
  <2> QED BY <2>2, <2>3, OneRecursion
<1>15. q[N] = Between(a, b)
  <2> HIDE DEF a, b
  <2> QED BY <1>1, <1>11, <1>14
<1> QED BY <1>6, <1>7, <1>15 DEF Reader, N, A

LEMMA BroughtText ==
  ASSUME NEW x1, NEW y1, NEW x2, NEW y2, Covered(y1, y2), Columns(x1, y1, x2, y2),
         NEW y \in Int, y # y1, NEW text \in Seq(Ink)
  PROVE  (text \o <<Newline>>) \o Part(x1, y1, x2, y2, y) = text \o Brought(x1, y1, x2, y2, y)
<1>1. Part(x1, y1, x2, y2, y) \in Seq(Ink) /\ <<Newline>> \in Seq(Ink)
  BY PartText, EolText
<1>2. Brought(x1, y1, x2, y2, y) = <<Newline>> \o Part(x1, y1, x2, y2, y)
  BY DEF Brought
<1> DEFINE part == Part(x1, y1, x2, y2, y)
           nl == <<Newline>>
<1> HIDE DEF part, nl
<1>3. (text \o nl) \o part = text \o (nl \o part)
  BY <1>1, ConcatAssociative DEF part, nl
<1> QED BY <1>2, <1>3 DEF part, nl

(* The region's text is what a reader would copy: the end of each line     *)
(* stands behind it in one and in front of the next in the other.          *)
LEMMA RegionRead ==
  ASSUME NEW x1, NEW y1, NEW x2, NEW y2, Covered(y1, y2), Columns(x1, y1, x2, y2)
  PROVE  get_text_region(x1, y1, x2, y2, FALSE) =
           Between([row |-> y1, col |-> x1], [row |-> y2, col |-> x2])
<1> DEFINE N == y2 - y1 + 1
<1>1. N \in Nat \ {0} /\ y1 \in Int /\ y2 \in Int /\ \A n \in 1 .. N : y1 + n - 1 \in y1 .. y2
  BY DEF Covered
<1>2. PICK q : /\ Reader(q, x1, y1, x2, y2)
               /\ q[N] = Between([row |-> y1, col |-> x1], [row |-> y2, col |-> x2])
  BY ReadBetween
<1> DEFINE before(n) == [text |-> IF n = 0 THEN <<>> ELSE q[n] \o <<Newline>>, end_x |-> x2]
           add(t, n) == AddRow(t, y1 + n - 1, x1, y1, y2, FALSE)
           p == [n \in 0 .. N |-> IF n = N THEN add(before(N - 1), N) ELSE before(n)]
           Reads(s) == s = [n \in 0 .. N |-> IF n = 0 THEN [text |-> <<>>, end_x |-> x2]
                                             ELSE add(s[n - 1], n)]
           d == CHOOSE s : Reads(s)
<1>3. /\ \A n \in 0 .. N : q[n] \in Seq(Ink)
      /\ q[0] = <<>>
      /\ \A n \in 1 .. N : q[n] = q[n - 1] \o Brought(x1, y1, x2, y2, y1 + n - 1)
  BY <1>2 DEF Reader
<1>4. ASSUME NEW n \in 1 .. N
      PROVE  /\ add(before(n - 1), n).text = q[n] \o Eol(y1 + n - 1, y2)
             /\ n # N => add(before(n - 1), n) = before(n)
  <2> DEFINE y == y1 + n - 1
             text == before(n - 1).text
             part == Part(x1, y1, x2, y2, y)
  <2>1. y \in y1 .. y2 /\ y \in Int /\ n - 1 \in 0 .. N /\ (y = y2 <=> n = N) /\ (y = y1 <=> n = 1)
        /\ (n - 1 = 0 <=> n = 1)
    BY <1>1
  <2>2. text \in Seq(Ink) /\ (y = y1 => text = <<>>)
    <3>1. <<>> \in Seq(Ink)
      BY EmptySeq
    <3>2. q[n - 1] \o <<Newline>> \in Seq(Ink)
      BY <1>3, <2>1, EolText, ConcatProperties
    <3>3. text = IF n - 1 = 0 THEN <<>> ELSE q[n - 1] \o <<Newline>>
      OBVIOUS
    <3> HIDE DEF text
    <3> QED BY <2>1, <3>1, <3>2, <3>3
  <2>3. text \o part = q[n]
    <3>1. part \in Seq(Ink)
      BY <2>1, PartText
    <3>2. CASE n = 1
      <4>1. text = <<>> /\ q[n] = <<>> \o Brought(x1, y1, x2, y2, y)
        BY <1>3, <2>1, <2>2, <3>2
      <4>2. Brought(x1, y1, x2, y2, y) = <<>> \o part
        BY <2>1, <3>2 DEF Brought
      <4> HIDE DEF part, text, y
      <4>3. <<>> \o part = part
        BY <3>1, ConcatEmptySeq
      <4> QED BY <4>1, <4>2, <4>3
    <3>3. CASE n # 1
      <4>1. text = q[n - 1] \o <<Newline>>
        BY <2>1, <3>3
      <4>2. (q[n - 1] \o <<Newline>>) \o part = q[n - 1] \o Brought(x1, y1, x2, y2, y)
        <5>1. q[n - 1] \in Seq(Ink) /\ y \in Int /\ y # y1
          BY <1>3, <2>1, <3>3
        <5> HIDE DEF y
        <5> QED BY <5>1, BroughtText
      <4>3. q[n] = q[n - 1] \o Brought(x1, y1, x2, y2, y)
        BY <1>3
      <4> HIDE DEF part, text, y
      <4> QED BY <4>1, <4>2, <4>3
    <3> QED BY <3>2, <3>3
  <2>4. before(n - 1) = [text |-> text, end_x |-> x2]
    OBVIOUS
  <2> DEFINE added == AddRow([text |-> text, end_x |-> x2], y, x1, y1, y2, FALSE)
             more == (text \o part) \o Eol(y, y2)
  <2> HIDE DEF text, y
  <2>5. added.text = more /\ (y # y2 => added = [text |-> more, end_x |-> x2])
    <3>1. Covered(y1, y2) /\ Columns(x1, y1, x2, y2) /\ y \in y1 .. y2 /\ text \in Seq(Ink)
          /\ (y = y1 => text = <<>>)
      BY <2>1, <2>2
    <3>2. Adds(text, x1, y1, x2, y2, y)
      BY <3>1, RowAdded
    <3> QED BY <3>2 DEF Adds
  <2> HIDE DEF added, part
  <2>6. /\ added.text = q[n] \o Eol(y, y2)
        /\ n # N => added = [text |-> q[n] \o Eol(y, y2), end_x |-> x2] /\ Eol(y, y2) = <<Newline>>
    <3>1. n # N => Eol(y, y2) = <<Newline>>
      BY <2>1 DEF Eol
    <3>2. n # N => y # y2
      BY <2>1
    <3> QED BY <2>3, <2>5, <3>1, <3>2
  <2>7. before(n) = [text |-> q[n] \o <<Newline>>, end_x |-> x2]
    <3>1. n # 0
      BY <1>1
    <3> HIDE DEF N
    <3> QED BY <3>1, Zenon
  <2>8. before(n - 1) = [text |-> text, end_x |-> x2]
    BY <2>4
  <2>9. add(before(n - 1), n) = added
    BY <2>8 DEF added, y
  <2> HIDE DEF add, before
  <2> QED BY <2>6, <2>7, <2>9 DEF y
<1>5. /\ p[0] = [text |-> <<>>, end_x |-> x2] /\ p[N] = add(before(N - 1), N)
      /\ \A n \in 1 .. N : p[n - 1] = before(n - 1) /\ p[n] = add(before(n - 1), n)
  <2> HIDE DEF add, before
  <2>1. p[0] = before(0) /\ p[N] = add(before(N - 1), N)
    <3> HIDE DEF N
    <3> QED BY <1>1
  <2>2. before(0) = [text |-> <<>>, end_x |-> x2]
    BY DEF before
  <2>3. \A n \in 1 .. N : p[n - 1] = before(n - 1) /\ p[n] = add(before(n - 1), n)
    <3> SUFFICES ASSUME NEW n \in 1 .. N
                 PROVE p[n - 1] = before(n - 1) /\ p[n] = add(before(n - 1), n)
      OBVIOUS
    <3>1. n # N => add(before(n - 1), n) = before(n)
      BY <1>4
    <3>2. n - 1 \in 0 .. N /\ n \in 0 .. N /\ n - 1 # N
      BY <1>1
    <3> HIDE DEF N
    <3> QED BY <3>1, <3>2
  <2> HIDE DEF p
  <2> QED BY <2>1, <2>2, <2>3
<1>6. Reads(p)
  <2>1. p = [n \in 0 .. N |-> p[n]]
    OBVIOUS
  <2> HIDE DEF p, add, before, N
  <2>2. \A n \in 0 .. N : p[n] = IF n = 0 THEN [text |-> <<>>, end_x |-> x2] ELSE add(p[n - 1], n)
    BY <1>1, <1>5
  <2> QED BY <2>1, <2>2
<1>7. Reads(d)
  <2> HIDE DEF Reads
  <2> QED BY <1>6
<1>8. get_text_region(x1, y1, x2, y2, FALSE) = d[N].text
  BY DEF get_text_region
<1> HIDE DEF d, p, add, before, N
<1>9. d[0] = [text |-> <<>>, end_x |-> x2] /\ \A n \in 1 .. N : d[n] = add(d[n - 1], n)
  BY <1>1, <1>7
<1> HIDE DEF Reads
<1>10. \A n \in 1 .. N : d[n - 1] = p[n - 1] => d[n] = p[n]
  BY <1>5, <1>9
<1>11. \A n \in 0 .. N : d[n] = p[n]
  <2>1. d[0] = p[0]
    BY <1>5, <1>9
  <2>2. Alike(d, p, N)
    BY <1>10, <2>1, Zenon DEF Alike
  <2>3. N \in Nat
    BY <1>1
  <2> QED BY <2>2, <2>3, OneRecursion
<1>12. d[N].text = q[N] \o Eol(y1 + N - 1, y2)
  <2>1. d[N] = p[N]
    BY <1>1, <1>11
  <2>2. N \in 1 .. N
    BY <1>1
  <2> QED BY <1>4, <1>5, <2>1, <2>2
<1>13. Eol(y1 + N - 1, y2) = <<>>
  <2>1. y1 + N - 1 = y2
    BY <1>1 DEF N
  <2> QED BY <2>1 DEF Eol
<1>14. q[N] \o <<>> = q[N]
  BY <1>1, <1>3, ConcatEmptySeq
<1> QED BY <1>2, <1>8, <1>12, <1>13, <1>14

-----------------------------------------------------------------------------
(* The box and the carets.                                                 *)

LEMMA CellsApart ==
  ASSUME NEW size \in Nat \ {0}, NEW p \in Nat
  PROVE  /\ Floor(p, size) \in Nat
         /\ p % size # 0 => Ceil(p, size) = Floor(p, size) + 1
         /\ Ceil(p, size) \in Nat
BY DEF Floor, Ceil

Presses == [x : Nat, y : Nat, so : Nat, moved : BOOLEAN]

(* mouse_to_select_box rounds down and up where the carets are counted in  *)
(* cells: off the first pixel of a cell that is the same.                  *)
LEMMA BoxIsMarked ==
  ASSUME NEW p \in Presses, NEW ex \in Nat, NEW ey \in Nat, scroll_offset \in Nat,
         Ordinary(p, ex, ey)
  PROVE  LET box == mouse_to_select_box(p.x, p.y, p.so, ex, ey, scroll_offset)
             a == Marked(p, ex, ey)[1]
             b == Marked(p, ex, ey)[2]
         IN  /\ a = [row |-> Low(box.sty, box.ety), col |-> Low(box.stx, box.etx)]
             /\ b = [row |-> High(box.sty, box.ety), col |-> High(box.stx, box.etx)]
             /\ {a.row, a.col, b.row, b.col} \subseteq Int
             /\ a.row <= b.row
<1> DEFINE box == mouse_to_select_box(p.x, p.y, p.so, ex, ey, scroll_offset)
           a == Marked(p, ex, ey)[1]
           b == Marked(p, ex, ey)[2]
           srow == Floor(p.y, CellHeight) - p.so
           scol == Floor(p.x, CellWidth)
           down == IF p.y > ey THEN 0 ELSE 1
           erow == Floor(ey, CellHeight) - scroll_offset
           col == Floor(ex, CellWidth) + down
           further == IF erow # srow THEN 0
                      ELSE IF col < scol THEN -1 ELSE IF col > scol THEN 1 ELSE 0
           ecol == col + further
           start == [row |-> srow, col |-> scol]
           end == [row |-> erow, col |-> ecol]
<1>1. p.x \in Nat /\ p.y \in Nat /\ p.so \in Nat
  BY DEF Presses
<1>2. p.y # ey /\ ex % CellWidth # 0 /\ ey % CellHeight # 0 /\ a.col <= b.col
  BY DEF Ordinary
<1>3. srow \in Int /\ scol \in Int /\ erow \in Int /\ col \in Int
  <2>1. Floor(p.x, CellWidth) \in Nat /\ Floor(p.y, CellHeight) \in Nat
    BY <1>1, CellsApart, SelectionAssumption
  <2>2. Floor(ex, CellWidth) \in Nat /\ Floor(ey, CellHeight) \in Nat
    BY CellsApart, SelectionAssumption
  <2>3. down \in Int
    OBVIOUS
  <2> HIDE DEF down
  <2> QED BY <1>1, <2>1, <2>2, <2>3
<1>4. ecol \in Int
  <2> HIDE DEF col, scol, srow, erow
  <2> QED BY <1>3
<1>5. Ceil(ex, CellWidth) - (IF p.y > ey THEN 1 ELSE 0) = col
  <2>1. Ceil(ex, CellWidth) = Floor(ex, CellWidth) + 1 /\ Floor(ex, CellWidth) \in Nat
    BY <1>2, CellsApart, SelectionAssumption
  <2> QED BY <1>1, <2>1
<1>6. Ceil(ey, CellHeight) - scroll_offset - (IF p.y # ey THEN 1 ELSE 0) = erow
  <2>1. Ceil(ey, CellHeight) = Floor(ey, CellHeight) + 1 /\ Floor(ey, CellHeight) \in Nat
    BY <1>2, CellsApart, SelectionAssumption
  <2> QED BY <1>2, <2>1
<1>7. box = [stx |-> scol, sty |-> srow, etx |-> ecol, ety |-> erow]
  <2> DEFINE f == CASE srow = erow /\ col < scol -> -1
                    [] srow = erow /\ col > scol -> 1
                    [] OTHER -> 0
  <2>1. box = [stx |-> scol, sty |-> srow, etx |-> col + f, ety |-> erow]
    <3> HIDE DEF col, erow
    <3> QED BY <1>5, <1>6 DEF mouse_to_select_box
  <2>2. f = further
    <3> HIDE DEF col, scol, srow, erow
    <3> QED BY <1>3
  <2> QED BY <2>1, <2>2
<1>8. Marked(p, ex, ey) = IF Before(start, end) THEN <<start, end>> ELSE <<end, start>>
  BY DEF Marked
<1> HIDE DEF srow, scol, erow, ecol, box
<1>9. CASE Before(start, end)
  <2>1. a = start /\ b = end
    BY <1>8, <1>9
  <2>2. srow <= erow /\ scol <= ecol
    BY <1>2, <1>3, <1>4, <1>9, <2>1 DEF Before
  <2>3. Low(srow, erow) = srow /\ High(srow, erow) = erow
        /\ Low(scol, ecol) = scol /\ High(scol, ecol) = ecol
    BY <1>3, <1>4, <2>2 DEF Low, High
  <2> HIDE DEF a, b
  <2> QED BY <1>3, <1>4, <1>7, <2>1, <2>2, <2>3 DEF a, b, box
<1>10. CASE ~Before(start, end)
  <2>1. a = end /\ b = start
    BY <1>8, <1>10
  <2>2. erow <= srow /\ ecol <= scol
    BY <1>2, <1>3, <1>4, <1>10, <2>1 DEF Before
  <2>3. Low(srow, erow) = erow /\ High(srow, erow) = srow
        /\ Low(scol, ecol) = ecol /\ High(scol, ecol) = scol
    BY <1>3, <1>4, <2>2 DEF Low, High
  <2> HIDE DEF a, b
  <2> QED BY <1>3, <1>4, <1>7, <2>1, <2>2, <2>3 DEF a, b, box
<1> QED BY <1>9, <1>10

LEMMA RegionIsMarked ==
  ASSUME NEW p \in Presses, NEW ex \in Nat, NEW ey \in Nat, scroll_offset \in Nat, cols \in Nat,
         Ordinary(p, ex, ey)
  PROVE  Copy(mouse_to_select_box(p.x, p.y, p.so, ex, ey, scroll_offset), FALSE) =
           Between(Marked(p, ex, ey)[1], Marked(p, ex, ey)[2])
<1> DEFINE box == mouse_to_select_box(p.x, p.y, p.so, ex, ey, scroll_offset)
           a == Marked(p, ex, ey)[1]
           b == Marked(p, ex, ey)[2]
           y1 == Low(box.sty, box.ety)
           x1 == Low(box.stx, box.etx)
           y2 == High(box.sty, box.ety)
           x2 == High(box.stx, box.etx)
<1>1. /\ a = [row |-> y1, col |-> x1] /\ b = [row |-> y2, col |-> x2]
      /\ {a.row, a.col, b.row, b.col} \subseteq Int
      /\ a.row <= b.row
  BY BoxIsMarked
<1>2. a.row = y1 /\ a.col = x1 /\ b.row = y2 /\ b.col = x2
  <2> HIDE DEF a, b, y1, x1, y2, x2
  <2> QED BY <1>1
<1>3. /\ a.row # b.row => b.col < cols
      /\ b.col <= cols
      /\ \A y \in a.row .. b.row : Row(y).line # NoLine => Row(y).len = cols
      /\ \A y \in a.row + 1 .. b.row : Row(y).line # NoLine
  <2> DEFINE covered == [y \in a.row .. b.row |-> Row(y)]
  <2>1. /\ a.row # b.row => b.col < cols
        /\ b.col <= cols
        /\ \A y \in a.row .. b.row : covered[y].line # NoLine => covered[y].len = cols
        /\ \A y \in a.row + 1 .. b.row : covered[y].line # NoLine
    BY DEF Ordinary
  <2> HIDE DEF a, b
  <2>2. \A y \in a.row .. b.row : covered[y] = Row(y)
    OBVIOUS
  <2>3. \A y \in a.row + 1 .. b.row : y \in a.row .. b.row
    BY <1>1
  <2> HIDE DEF covered
  <2> QED BY <2>1, <2>2, <2>3
<1> HIDE DEF a, b, y1, x1, y2, x2, box
<1>4. Covered(y1, y2)
  BY <1>1, <1>2, <1>3 DEF Covered
<1>5. Columns(x1, y1, x2, y2)
  BY <1>1, <1>2, <1>3 DEF Columns
<1>6. get_text_region(x1, y1, x2, y2, FALSE) =
        Between([row |-> y1, col |-> x1], [row |-> y2, col |-> x2])
  BY <1>4, <1>5, RegionRead
<1>7. Copy(box, FALSE) = get_text_region(x1, y1, x2, y2, FALSE)
  BY DEF Copy, x1, y1, x2, y2
<1> QED BY <1>1, <1>6, <1>7 DEF a, b, box

-----------------------------------------------------------------------------
(* The word.  Without erased cells the text of a row is its cells.         *)

CellsOf(r) == {Cell(r, k) : k \in Int}
Unerased(r, from, to) == \A k \in from .. to - 1 : Cell(r, k) # Empty
Whole(text, r, from, to) ==
  /\ text \in Seq(CellsOf(r)) /\ Len(text) = to - from
  /\ \A i \in 1 .. to - from : text[i] = Cell(r, from + i - 1)

LEMMA CutWhole ==
  ASSUME NEW r, NEW from \in Int, NEW to \in Int, from <= to, Unerased(r, from, to)
  PROVE  Whole(Cut(r, from, to), r, from, to)
<1> DEFINE N == to - from
           S == CellsOf(r)
<1>1. N \in Nat /\ High(0, to - from) = N
  BY DEF High
<1>2. PICK q : Cutting(q, r, from, N, S) /\ q[N] = Cut(r, from, to)
  <2>1. \A x \in Int : Cell(r, x) \in S
    BY DEF CellsOf
  <2> HIDE DEF S
  <2> QED BY <1>1, <2>1, CutStep
<1> DEFINE Upto(n) == Len(q[n]) = n /\ \A i \in 1 .. n : q[n][i] = Cell(r, from + i - 1)
           T == {n \in 0 .. N : Upto(n)}
<1>3. \A n \in 0 .. N : q[n] \in Seq(S)
  BY <1>2 DEF Cutting
<1>4. 0 \in T
  <2>1. q[0] = <<>> /\ 0 \in 0 .. N
    BY <1>1, <1>2 DEF Cutting
  <2>2. Upto(0)
    BY <2>1, EmptySeq
  <2> QED BY <2>1, <2>2
<1>5. ASSUME NEW n \in 0 .. N - 1, n \in T PROVE n + 1 \in T
  <2> DEFINE ch == Cell(r, from + n)
  <2>1. n + 1 \in 1 .. N /\ (n + 1) - 1 = n /\ n + 1 \in 0 .. N /\ n \in 0 .. N
        /\ from + (n + 1) - 1 = from + n /\ from + n \in from .. to - 1 /\ from + n \in Int
    BY <1>1
  <2>2. q[n + 1] = Append(q[n], ch)
    <3>1. q[n + 1] = Added(q[n], ch)
      BY <1>2, <2>1 DEF Cutting
    <3>2. ch # Empty
      BY <2>1 DEF Unerased
    <3> QED BY <3>1, <3>2 DEF Added
  <2>3. q[n] \in Seq(S) /\ ch \in S /\ Upto(n)
    <3>1. ch \in S
      BY <2>1 DEF CellsOf
    <3> QED BY <1>3, <1>5, <2>1, <3>1
  <2> HIDE DEF ch, S
  <2>4. Len(q[n + 1]) = n + 1 /\ q[n + 1][n + 1] = ch /\ \A i \in 1 .. n : q[n + 1][i] = q[n][i]
    BY <2>2, <2>3, AppendProperties
  <2>5. \A i \in 1 .. n + 1 : i = n + 1 \/ i \in 1 .. n
    BY <2>1
  <2>6. Upto(n + 1)
    BY <2>1, <2>3, <2>4, <2>5 DEF ch
  <2> QED BY <2>1, <2>6
<1> HIDE DEF T
<1>6. \A n \in 0 .. N : n \in T
  BY <1>1, <1>4, <1>5, UpTo
<1>7. N \in T
  BY <1>1, <1>6
<1>8. Upto(N) /\ q[N] \in Seq(S)
  BY <1>1, <1>3, <1>7 DEF T
<1> QED BY <1>2, <1>8 DEF Whole

(* The text of a whole row, as a second click takes it.                    *)
LEMMA LineRead ==
  ASSUME NEW y \in Int, cols \in Nat, Row(y).line # NoLine, Row(y).len = cols
  PROVE  get_text_region(0, y, cols, y, FALSE) = Cut(Row(y), 0, cols)
<1> DEFINE a == [row |-> y, col |-> 0]
           b == [row |-> y, col |-> cols]
<1>1. \A z \in y .. y : z = y
  OBVIOUS
<1>2. y + 1 .. y = {} /\ y - y + 1 = 1 /\ y + 1 - 1 = y
  OBVIOUS
<1>3. Covered(y, y) /\ Columns(0, y, cols, y)
  BY <1>1, <1>2 DEF Covered, Columns
<1>4. get_text_region(0, y, cols, y, FALSE) = Between(a, b)
  BY <1>3, RegionRead
<1>5. PICK q : Reader(q, 0, y, cols, y) /\ q[1] = Between(a, b)
  BY <1>2, <1>3, ReadBetween
<1>6. Part(0, y, cols, y, y) = Cut(Row(y), 0, cols)
  BY DEF Part
<1>7. q[0] = <<>> /\ q[1] = q[0] \o Brought(0, y, cols, y, y)
  <2>1. 1 \in 1 .. y - y + 1 /\ 1 - 1 = 0
    BY <1>2
  <2> QED BY <1>2, <1>5, <2>1 DEF Reader
<1>8. Brought(0, y, cols, y, y) = <<>> \o Part(0, y, cols, y, y)
  BY DEF Brought
<1>9. Part(0, y, cols, y, y) \in Seq(Ink)
  BY <1>3, PartText
<1> DEFINE part == Part(0, y, cols, y, y)
<1> HIDE DEF part
<1>10. <<>> \o part = part
  BY <1>9, ConcatEmptySeq DEF part
<1>11. q[1] = part
  BY <1>7, <1>8, <1>10 DEF part
<1> QED BY <1>4, <1>5, <1>6, <1>11 DEF part

(* The cells of a row, and a place in it that has a word.                  *)
Worded(r, x) ==
  /\ cols \in Nat /\ r.len = cols /\ x \in 0 .. cols - 1
  /\ \A k \in 0 .. cols - 1 : Cell(r, k) # Empty /\ Cell(r, k) # Newline
  /\ Cell(r, x) # Space
  /\ \E k \in 0 .. x : Cell(r, k) = Space

Filled(r, a, b) == \A k \in a .. b : Cell(r, k) # Space

(* The bounds the code finds are those of the word: a space before it, and *)
(* the end of the row or a space behind it.                                *)
LEMMA Bounds ==
  ASSUME NEW r, NEW x, Worded(r, x), NEW text, text = Cut(r, 0, cols)
  PROVE  LET L == LeftBound(text, x)
             R == RightBound(text, x)
         IN  /\ L \in 1 .. x /\ R \in x .. cols - 1
             /\ Filled(r, L, R)
             /\ Cell(r, L - 1) = Space
             /\ R = cols - 1 \/ Cell(r, R + 1) = Space
             /\ Len(text) = cols /\ \A n \in 0 .. cols - 1 : text[n + 1] = Cell(r, n)
<1> DEFINE left == {n \in 0 .. Low(x, Len(text) - 1) : text[n + 1] \in {Space, Newline}}
           right == {n \in x .. Low(cols, Len(text)) - 1 : text[n + 1] \in {Space, Newline}}
           L == LeftBound(text, x)
           R == RightBound(text, x)
<1>1. cols \in Nat /\ x \in Nat /\ x <= cols - 1 /\ cols - 0 = cols
  BY DEF Worded
<1>2. Len(text) = cols /\ \A i \in 1 .. cols : text[i] = Cell(r, i - 1)
  <2>1. Unerased(r, 0, cols)
    BY DEF Worded, Unerased
  <2>2. Whole(Cut(r, 0, cols), r, 0, cols)
    <3>1. 0 \in Int /\ cols \in Int /\ 0 <= cols
      BY <1>1
    <3> QED BY <2>1, <3>1, CutWhole
  <2>3. /\ Len(text) = cols - 0
        /\ \A i \in 1 .. cols - 0 : text[i] = Cell(r, 0 + i - 1)
    BY <2>2 DEF Whole
  <2>4. \A i \in 1 .. cols : 0 + i - 1 = i - 1
    BY <1>1
  <2> QED BY <1>1, <2>3, <2>4
<1>3. \A n \in 0 .. cols - 1 : text[n + 1] = Cell(r, n)
  <2> SUFFICES ASSUME NEW n \in 0 .. cols - 1 PROVE text[n + 1] = Cell(r, n)
    OBVIOUS
  <2>1. n + 1 \in 1 .. cols /\ (n + 1) - 1 = n
    BY <1>1
  <2> QED BY <1>2, <2>1
<1>4. left = {n \in 0 .. x : Cell(r, n) = Space}
  <2>1. Low(x, Len(text) - 1) = x
    BY <1>1, <1>2 DEF Low
  <2>2. \A n \in 0 .. x : n \in 0 .. cols - 1
    BY <1>1
  <2>3. \A n \in 0 .. x : (text[n + 1] \in {Space, Newline}) <=> (Cell(r, n) = Space)
    BY <1>3, <2>2 DEF Worded
  <2> QED BY <2>1, <2>3
<1>5. right = {n \in x .. cols - 1 : Cell(r, n) = Space}
  <2>1. Low(cols, Len(text)) = cols
    BY <1>1, <1>2 DEF Low
  <2>2. \A n \in x .. cols - 1 : n \in 0 .. cols - 1
    BY <1>1
  <2>3. \A n \in x .. cols - 1 : (text[n + 1] \in {Space, Newline}) <=> (Cell(r, n) = Space)
    BY <1>3, <2>2 DEF Worded
  <2> QED BY <2>1, <2>3
<1>6. L \in 1 .. x /\ Cell(r, L - 1) = Space /\ \A k \in L .. x : Cell(r, k) # Space
  <2> DEFINE l == CHOOSE n \in left : \A k \in left : k <= n
  <2>1. left # {} /\ left \in SUBSET Nat /\ \A i \in left : i <= x
    BY <1>1, <1>4 DEF Worded
  <2>2. L = l + 1
    BY <2>1 DEF LeftBound
  <2> HIDE DEF left
  <2>3. l \in left /\ \A k \in left : k <= l
    <3>1. \E n \in left : \A k \in left : k <= n
      BY <1>1, <2>1, GreatestExists
    <3> QED BY <3>1
  <2> HIDE DEF l, L
  <2>4. l \in 0 .. x /\ Cell(r, l) = Space
    BY <1>4, <2>3
  <2>5. l # x
    BY <2>4 DEF Worded
  <2>6. L \in 1 .. x /\ L - 1 = l
    BY <1>1, <2>2, <2>4, <2>5
  <2>7. ASSUME NEW k \in L .. x, Cell(r, k) = Space PROVE FALSE
    <3>1. k \in 0 .. x /\ ~(k <= l)
      BY <1>1, <2>2, <2>4
    <3> QED BY <1>4, <2>3, <2>7, <3>1
  <2> QED BY <2>4, <2>6, <2>7
<1>7. R \in x .. cols - 1 /\ (R = cols - 1 \/ Cell(r, R + 1) = Space)
      /\ \A k \in x .. R : Cell(r, k) # Space
  <2>1. CASE right = {}
    <3>1. R = cols - 1
      BY <1>2, <2>1 DEF RightBound
    <3> HIDE DEF R, right
    <3> QED BY <1>1, <1>5, <2>1, <3>1
  <2>2. CASE right # {}
    <3> DEFINE n == CHOOSE m \in right : \A k \in right : m <= k
    <3>1. R = n - 1
      BY <2>2 DEF RightBound
    <3>2. right \in SUBSET Nat
      BY <1>1
    <3> HIDE DEF right
    <3>3. n \in right /\ \A k \in right : n <= k
      <4>1. \E m \in right : \A k \in right : m <= k
        BY <2>2, <3>2, LeastExists
      <4> QED BY <4>1
    <3> HIDE DEF n, R
    <3>4. n \in x .. cols - 1 /\ Cell(r, n) = Space
      BY <1>5, <3>3
    <3>5. n # x
      BY <3>4 DEF Worded
    <3>6. R \in x .. cols - 1 /\ R + 1 = n
      BY <1>1, <3>1, <3>4, <3>5
    <3>7. ASSUME NEW k \in x .. R, Cell(r, k) = Space PROVE FALSE
      <4>1. k \in x .. cols - 1 /\ ~(n <= k)
        BY <1>1, <3>4, <3>6
      <4> QED BY <1>5, <3>3, <3>7, <4>1
    <3> QED BY <3>4, <3>6, <3>7
  <2> QED BY <2>1, <2>2
<1> HIDE DEF L, R
<1>8. Filled(r, L, R)
  <2> SUFFICES ASSUME NEW k \in L .. R PROVE Cell(r, k) # Space
    BY DEF Filled
  <2>1. k \in L .. x \/ k \in x .. R
    BY <1>1, <1>6, <1>7
  <2> QED BY <1>6, <1>7, <2>1
<1> QED BY <1>2, <1>3, <1>6, <1>7, <1>8 DEF L, R

(* There is one such word around a place.                                  *)
LEMMA WordThere ==
  ASSUME NEW r, NEW x, Worded(r, x), NEW L \in 1 .. x, NEW R \in x .. cols - 1,
         Filled(r, L, R), Cell(r, L - 1) = Space, R = cols - 1 \/ Cell(r, R + 1) = Space
  PROVE  WordAt(r, x) = Cut(r, L, R + 1)
<1> DEFINE in(a, b) == \A k \in a .. b : Cell(r, k) \notin {Space, Empty}
           First(a) == in(a, x) /\ \A k \in 0 .. x : in(k, x) => a <= k
           Final(b) == in(x, b) /\ \A k \in x .. r.len - 1 : in(x, k) => k <= b
<1>1. cols \in Nat /\ x \in Nat /\ x <= cols - 1 /\ r.len = cols
  BY DEF Worded
<1>2. \A k \in L .. R : Cell(r, k) \notin {Space, Empty}
  <2>1. \A k \in L .. R : k \in 0 .. cols - 1
    BY <1>1
  <2> QED BY <2>1 DEF Filled, Worded
<1>3. First(L) /\ L \in 0 .. x
  <2>1. in(L, x)
    <3>1. \A k \in L .. x : k \in L .. R
      BY <1>1
    <3> QED BY <1>2, <3>1
  <2>2. ASSUME NEW k \in 0 .. x, in(k, x), ~(L <= k) PROVE FALSE
    <3>1. L - 1 \in k .. x
      BY <1>1, <2>2
    <3> QED BY <2>2, <3>1
  <2> HIDE DEF in
  <2> QED BY <1>1, <2>1, <2>2
<1>4. Final(R) /\ R \in x .. r.len - 1
  <2>1. in(x, R)
    <3>1. \A k \in x .. R : k \in L .. R
      BY <1>1
    <3> QED BY <1>2, <3>1
  <2>2. ASSUME NEW k \in x .. r.len - 1, in(x, k), ~(k <= R) PROVE FALSE
    <3>1. R # cols - 1 /\ R + 1 \in x .. k
      BY <1>1, <2>2
    <3> QED BY <2>2, <3>1
  <2> HIDE DEF in
  <2> QED BY <1>1, <2>1, <2>2
<1> HIDE DEF in
<1>5. (CHOOSE a \in 0 .. x : First(a)) = L
  <2> DEFINE a == CHOOSE a \in 0 .. x : First(a)
  <2>1. a \in 0 .. x /\ First(a)
    <3> HIDE DEF First
    <3> QED BY <1>3
  <2> HIDE DEF a
  <2>2. a <= L /\ L <= a
    BY <1>3, <2>1
  <2>3. a = L
    BY <1>1, <2>1, <2>2
  <2> QED BY <2>3 DEF a
<1>6. (CHOOSE b \in x .. r.len - 1 : Final(b)) = R
  <2> DEFINE b == CHOOSE b \in x .. r.len - 1 : Final(b)
  <2>1. b \in x .. r.len - 1 /\ Final(b)
    <3> HIDE DEF Final
    <3> QED BY <1>4
  <2> HIDE DEF b
  <2>2. b <= R /\ R <= b
    BY <1>4, <2>1
  <2>3. b = R
    BY <1>1, <2>1, <2>2
  <2> QED BY <2>3 DEF b
<1>7. WordAt(r, x) = Cut(r, CHOOSE a \in 0 .. x : First(a),
                            (CHOOSE b \in x .. r.len - 1 : Final(b)) + 1)
  BY DEF WordAt, in
<1> HIDE DEF First, Final
<1> QED BY <1>5, <1>6, <1>7

LEMMA WordIsWord ==
  ASSUME NEW r, NEW x, Worded(r, x)
  PROVE  WordText(Cut(r, 0, cols), x) = WordAt(r, x)
<1> DEFINE text == Cut(r, 0, cols)
           L == LeftBound(text, x)
           R == RightBound(text, x)
           N == High(0, R - L + 1)
           S == CellsOf(r)
<1>1. /\ L \in 1 .. x /\ R \in x .. cols - 1
      /\ Filled(r, L, R)
      /\ Cell(r, L - 1) = Space
      /\ R = cols - 1 \/ Cell(r, R + 1) = Space
      /\ Len(text) = cols /\ \A n \in 0 .. cols - 1 : text[n + 1] = Cell(r, n)
  BY Bounds
<1>2. cols \in Nat /\ x \in Nat /\ x <= cols - 1
  BY DEF Worded
<1>3. WordText(text, x) = [i \in 1 .. N |-> IF L + i - 1 \in 0 .. Len(text) - 1
                                            THEN text[(L + i - 1) + 1] ELSE Unread]
  BY DEF WordText
<1> HIDE DEF L, R, text
<1>4. N = (R + 1) - L /\ N \in Nat
  BY <1>1, <1>2 DEF High
<1> HIDE DEF N
<1>5. \A i \in 1 .. N : L + i - 1 \in 0 .. cols - 1 /\ L + i - 1 \in L .. R
  BY <1>1, <1>2, <1>4
<1>6. WordText(text, x) = [i \in 1 .. N |-> Cell(r, L + i - 1)]
  <2>1. \A i \in 1 .. N : (IF L + i - 1 \in 0 .. Len(text) - 1
                           THEN text[(L + i - 1) + 1] ELSE Unread) = Cell(r, L + i - 1)
    BY <1>1, <1>5
  <2> QED BY <1>3, <2>1
<1> DEFINE word == Cut(r, L, R + 1)
<1>7. WordAt(r, x) = word
  BY <1>1, WordThere
<1>8. word \in Seq(S) /\ Len(word) = N /\ \A i \in 1 .. N : word[i] = Cell(r, L + i - 1)
  <2>1. L \in Int /\ R + 1 \in Int /\ L <= R + 1 /\ (R + 1) - 1 = R
    BY <1>1, <1>2
  <2>2. Unerased(r, L, R + 1)
    <3>1. \A k \in L .. R : k \in 0 .. cols - 1
      BY <1>1, <1>2
    <3> QED BY <2>1, <3>1 DEF Worded, Unerased
  <2>3. Whole(word, r, L, R + 1)
    BY <2>1, <2>2, CutWhole
  <2> HIDE DEF word
  <2>4. /\ word \in Seq(S) /\ Len(word) = (R + 1) - L
        /\ \A i \in 1 .. (R + 1) - L : word[i] = Cell(r, L + i - 1)
    BY <2>3 DEF Whole
  <2> HIDE DEF S
  <2> QED BY <1>4, <2>4
<1> HIDE DEF word, S
<1>9. word = [i \in 1 .. N |-> word[i]]
  <2>1. word = [i \in 1 .. Len(word) |-> word[i]]
    BY <1>8
  <2> QED BY <1>8, <2>1
<1>10. word = [i \in 1 .. N |-> Cell(r, L + i - 1)]
  BY <1>8, <1>9
<1> QED BY <1>6, <1>7, <1>10 DEF text

-----------------------------------------------------------------------------
(* The steps.                                                              *)

LEMMA NoFeedInRow ==
  ASSUME TypeOK, GetInBounds, NEW y \in Int, y < rows, Row(y).line # NoLine, Row(y).len = cols
  PROVE  \A k \in 0 .. cols - 1 : Cell(Row(y), k) # Newline
<1>1. rows \in Nat /\ cols \in Widths /\ cols \in Nat
  BY ScrollbackAssumption DEF TypeOK
<1>2. Row(y) = grab_row(y)
  BY <1>1 DEF Row
<1>3. Row(y).line \in Lines
  <2>1. CASE y >= 0
    <3>1. y \in 0 .. rows - 1
      BY <1>1, <2>1
    <3>2. screen[y] \in Lines
      BY <3>1 DEF TypeOK
    <3> QED BY <1>2, <2>1, <3>2 DEF grab_row
  <2>2. CASE ~(y >= 0) /\ -y > scroll_buffer_size
    BY <1>2, <2>2 DEF grab_row
  <2>3. CASE ~(y >= 0) /\ ~(-y > scroll_buffer_size)
    <3>1. scroll_buffer_size = Size /\ -y \in 1 .. Size
      BY <2>3, ScrollbackAssumption DEF TypeOK
    <3>2. scroll_buffer_size # 0
      BY <3>1, ScrollbackAssumption
    <3>3. GetIndex(-y) \in Slots
      BY <3>1, <3>2 DEF GetInBounds
    <3>4. scroll_buffer[GetIndex(-y)] \in Lines \cup {NoLine}
      BY <3>3 DEF TypeOK
    <3>5. Row(y) = scroll_buffer_get(-y)
      BY <1>2, <2>3 DEF grab_row
    <3>6. Row(y).line = scroll_buffer[GetIndex(-y)]
      BY <3>5 DEF scroll_buffer_get
    <3> QED BY <3>4, <3>6
  <2> QED BY <2>1, <2>2, <2>3
<1>4. ASSUME NEW k \in 0 .. cols - 1 PROVE Cell(Row(y), k) # Newline
  <2>1. k + 1 \in 1 .. cols
    BY <1>1
  <2>2. Row(y).line[k + 1] # Newline
    BY <1>1, <1>3, <2>1, SelectionAssumption
  <2> QED BY <2>2 DEF Cell
<1> QED BY <1>4

Copied == MarkedIsCopied /\ WordIsCopied

(* What is put into the clipboard, if it is not lost in an overrun.        *)
LEMMA ClipboardHolds ==
  ASSUME NEW kind \in {"region", "word"}, NEW text, NEW part,
         NEW t \in Clipboard(kind, text, part), t.kind # "overrun"
  PROVE  t.kind = kind /\ t.text = part
<1>1. \/ Clipboard(kind, text, part) = {[kind |-> "overrun", text |-> <<>>]}
      \/ Clipboard(kind, text, part) = {}
      \/ Clipboard(kind, text, part) = {[kind |-> kind, text |-> part]}
  BY DEF Clipboard
<1> QED BY <1>1

LEMMA ReleaseCopies ==
  ASSUME TypeOK, PressIsPlace, NEW x \in Xs, NEW y \in Ys, NEW space_behind \in BOOLEAN,
         Release(x, y, space_behind)
  PROVE  Copied'
<1>1. PICK p \in press :
        LET text == Copy(mouse_to_select_box(p.x, p.y, p.so, x, y, scroll_offset), space_behind)
        IN  /\ copied' = Clipboard("region", text, text)
            /\ want' = IF Ordinary(p, x, y) /\ ~space_behind
                       THEN {Between(Marked(p, x, y)[1], Marked(p, x, y)[2])} ELSE {}
  BY DEF Release
<1> DEFINE text == Copy(mouse_to_select_box(p.x, p.y, p.so, x, y, scroll_offset), space_behind)
           marked == Between(Marked(p, x, y)[1], Marked(p, x, y)[2])
<1>2. \A t \in copied' : t.kind # "overrun" => t.kind = "region" /\ t.text = text
  <2> HIDE DEF text
  <2>1. copied' = Clipboard("region", text, text)
    BY <1>1 DEF text
  <2> QED BY <2>1, ClipboardHolds
<1>3. ASSUME NEW w \in want' PROVE text = w
  <2>1. Ordinary(p, x, y) /\ ~space_behind /\ w = marked
    BY <1>1, <1>3
  <2>2. space_behind = FALSE
    BY <2>1
  <2>3. p \in Presses /\ x \in Nat /\ y \in Nat
    <3>1. Xs \subseteq Nat /\ Ys \subseteq Nat /\ 0 .. MaxOffset \subseteq Nat
      BY SelectionAssumption, ScrollbackAssumption
    <3>2. p \in [x : Xs, y : Ys, so : 0 .. MaxOffset, moved : BOOLEAN]
      BY DEF PressIsPlace
    <3>3. p \in Presses
      BY <3>1, <3>2 DEF Presses
    <3> QED BY <3>1, <3>3
  <2>4. scroll_offset \in Nat /\ cols \in Nat
    BY ScrollbackAssumption DEF TypeOK
  <2>5. Copy(mouse_to_select_box(p.x, p.y, p.so, x, y, scroll_offset), FALSE) = marked
    BY <2>1, <2>3, <2>4, RegionIsMarked
  <2> QED BY <2>1, <2>2, <2>5
<1> HIDE DEF text
<1>4. MarkedIsCopied'
  BY <1>2, <1>3 DEF MarkedIsCopied
<1>5. WordIsCopied'
  BY <1>2 DEF WordIsCopied
<1> QED BY <1>4, <1>5 DEF Copied

(* The word of the row of the press, as the view shows it or showed it.    *)
LEMMA ClickCopies ==
  ASSUME TypeOK, GetInBounds, PressIsPlace, NEW x \in Xs, NEW y \in Ys,
         NEW again \in BOOLEAN, NEW space_behind \in BOOLEAN,
         Click(x, y, again, space_behind)
  PROVE  Copied'
<1>1. PICK p \in press :
        LET box == mouse_to_select_box(p.x, p.y, p.so, x, y, scroll_offset)
            text == get_text_region(0, box.sty, cols, box.sty, space_behind)
            r == Row(box.sty)
        IN  /\ copied' = IF again THEN Clipboard("word", text, WordText(text, box.stx)) ELSE {}
            /\ want' = IF again /\ ~p.moved /\ ~space_behind /\ HasWord(r, box.stx)
                       THEN {WordAt(r, box.stx)} ELSE {}
  BY DEF Click
<1> DEFINE box == mouse_to_select_box(p.x, p.y, p.so, x, y, scroll_offset)
           text == get_text_region(0, box.sty, cols, box.sty, space_behind)
           r == Row(box.sty)
<1>2. /\ copied' = IF again THEN Clipboard("word", text, WordText(text, box.stx)) ELSE {}
      /\ want' = IF again /\ ~p.moved /\ ~space_behind /\ HasWord(r, box.stx)
                 THEN {WordAt(r, box.stx)} ELSE {}
  BY <1>1
<1>3. box.sty = Floor(p.y, CellHeight) - p.so /\ box.stx = Floor(p.x, CellWidth)
  BY DEF mouse_to_select_box
<1> HIDE DEF box
<1>4. \A t \in copied' : t.kind # "overrun" => t.kind = "word" /\ t.text = WordText(text, box.stx)
  <2> DEFINE word == WordText(text, box.stx)
  <2> HIDE DEF word, text
  <2>1. copied' = {} \/ copied' = Clipboard("word", text, word)
    BY <1>2 DEF word
  <2>2. \A t \in copied' : t.kind # "overrun" => t.kind = "word" /\ t.text = word
    BY <2>1, ClipboardHolds
  <2> QED BY <2>2 DEF word
<1>5. ASSUME NEW w \in want' PROVE WordText(text, box.stx) = w
  <2>1. ~p.moved /\ ~space_behind /\ HasWord(r, box.stx) /\ w = WordAt(r, box.stx)
    BY <1>2, <1>5
  <2>2. space_behind = FALSE
    BY <2>1
  <2>3. scroll_offset \in Nat /\ cols \in Nat /\ rows \in Nat
    BY ScrollbackAssumption DEF TypeOK
  <2>4. p \in [x : Xs, y : Ys, so : 0 .. MaxOffset, moved : BOOLEAN]
    BY DEF PressIsPlace
  <2>5. p.x \in Nat /\ p.y \in Nat /\ p.so \in Nat
    <3>1. Xs \subseteq Nat /\ Ys \subseteq Nat /\ 0 .. MaxOffset \subseteq Nat
      BY SelectionAssumption, ScrollbackAssumption
    <3> QED BY <2>4, <3>1
  <2>6. Floor(p.y, CellHeight) \in Nat /\ Floor(p.x, CellWidth) \in Nat
    BY <2>5, CellsApart, SelectionAssumption
  <2>7. Floor(p.y, CellHeight) < rows /\ Floor(p.x, CellWidth) < cols
    BY <2>1 DEF PressIsPlace, OnScreen
  <2>8. box.sty \in Int /\ box.sty < rows /\ box.stx \in 0 .. cols - 1
    BY <1>3, <2>3, <2>5, <2>6, <2>7
  <2>9. /\ r.line # NoLine /\ r.len = cols
        /\ \A k \in 0 .. cols - 1 : Cell(r, k) # Empty
        /\ Cell(r, box.stx) # Space
        /\ \E k \in 0 .. box.stx : Cell(r, k) = Space
    BY <2>1 DEF HasWord
  <2>10. \A k \in 0 .. cols - 1 : Cell(r, k) # Newline
    BY <2>8, <2>9, NoFeedInRow
  <2>11. Worded(r, box.stx)
    BY <2>3, <2>8, <2>9, <2>10 DEF Worded
  <2>12. get_text_region(0, box.sty, cols, box.sty, FALSE) = Cut(r, 0, cols)
    BY <2>3, <2>8, <2>9, LineRead
  <2>13. WordText(Cut(r, 0, cols), box.stx) = WordAt(r, box.stx)
    BY <2>11, WordIsWord
  <2> QED BY <2>1, <2>2, <2>12, <2>13
<1> HIDE DEF text
<1>6. WordIsCopied'
  BY <1>4, <1>5 DEF WordIsCopied
<1>7. MarkedIsCopied'
  BY <1>4 DEF MarkedIsCopied
<1> QED BY <1>6, <1>7 DEF Copied

LEMMA CopyStep ==
  ASSUME TypeOK, GetInBounds, PressIsPlace, Copied, [SelNext]_svars
  PROVE  Copied'
<1>1. ASSUME copied' = {} PROVE Copied'
  BY <1>1 DEF Copied, MarkedIsCopied, WordIsCopied
<1>2. CASE Elsewhere
  BY <1>1, <1>2 DEF Elsewhere
<1>3. CASE \E x \in Xs, y \in Ys : Press(x, y)
  BY <1>1, <1>3 DEF Press
<1>4. ASSUME NEW x \in Xs, NEW y \in Ys, NEW space_behind \in BOOLEAN,
             Release(x, y, space_behind)
      PROVE  Copied'
  BY <1>4, ReleaseCopies
<1>5. ASSUME NEW x \in Xs, NEW y \in Ys, NEW space_behind \in BOOLEAN,
             NEW again \in BOOLEAN, Click(x, y, again, space_behind)
      PROVE  Copied'
  BY <1>5, ClickCopies
<1>6. CASE UNCHANGED svars
  BY <1>6 DEF svars, Copied, MarkedIsCopied, WordIsCopied
<1> QED BY <1>2, <1>3, <1>4, <1>5, <1>6 DEF SelNext

LEMMA CopyInvariance == SelSpec => []Copied
<1>1. SelInit => Copied
  BY DEF SelInit, Copied, MarkedIsCopied, WordIsCopied
<1>2. SelSpec => []GetInBounds
  BY SelectionKeepsRing, PTL
<1>3. TypeOK /\ GetInBounds /\ PressIsPlace /\ Copied /\ [SelNext]_svars => Copied'
  BY CopyStep
<1> QED BY <1>1, <1>2, <1>3, PlaceInvariance, PTL DEF SelSpec

(* A release more than a click away from its press, in pixels, copies the  *)
(* text between the two, for every size of the terminal, of the cells and  *)
(* of the scrollback, but for the drags that are not Ordinary and those    *)
(* that overrun the text buffer (mouse_to_select_box, get_text_region).    *)
THEOREM MarkedTextIsCopied == SelSpec => []MarkedIsCopied
<1>1. Copied => MarkedIsCopied
  BY DEF Copied
<1> QED BY <1>1, CopyInvariance, PTL

(* A second click copies the word under its press, where the code finds    *)
(* the bounds of it, or overruns the text buffer (process_mouse_event).    *)
THEOREM WordUnderMouseIsCopied == SelSpec => []WordIsCopied
<1>1. Copied => WordIsCopied
  BY DEF Copied
<1> QED BY <1>1, CopyInvariance, PTL
=============================================================================
