---------------------------- MODULE ScreenProofs ----------------------------
(***************************************************************************)
(* What holds of the two buffers and the pen for every set of heights and  *)
(* colours.                                                                *)
(***************************************************************************)
EXTENDS Screen, TLAPS

(* The ghost copy of the primary screen has the rows of the terminal too.  *)
Types == TypeOK /\ primary \in [0 .. rows - 1 -> BOOLEAN]

(* While an application is to bring the screen back, it is in the          *)
(* alternate buffer, the primary one is as it found it, and what it will   *)
(* restore is what it found.                                               *)
Visit ==
  \A a \in app : /\ buffer = 1
                 /\ a.primary = buffers[0]
                 /\ a.row = saved.row /\ a.pen = saved.pen

Inv == /\ Types /\ Visit
       /\ PrimaryKept /\ PensAgree /\ ColourFollowsBold /\ ModeTellsBuffer

USE ScreenAssumption

(* Sending both attributes makes the two copies equal.                     *)
LEMMA SendBoth ==
  ASSUME NEW p \in Pen, Send(p, {"bold", "fg"})
  PROVE  pen' = p /\ screen_pen' = p
  BY DEF Send, Pen

(* Sending one makes them equal when the other did not change.             *)
LEMMA SendOne ==
  ASSUME NEW p \in Pen, PensAgree, pen \in Pen,
         \/ Send(p, {"bold"}) /\ p.fg = pen.fg
         \/ Send(p, {"fg"}) /\ p.bold = pen.bold
  PROVE  pen' = p /\ screen_pen' = p
  BY DEF Send, Pen, PensAgree

LEMMA InitInv == Init => Inv
  <1> SUFFICES ASSUME Init PROVE Inv
    OBVIOUS
  <1>1. rows \in Nat \ {0} /\ Empty(rows) \in [0 .. rows - 1 -> BOOLEAN]
    BY DEF Init, Empty
  <1>2. ResetPen \in Pen /\ [bold |-> FALSE, fg |-> 0] \in Pen
    BY DEF ResetPen, Pen, Default
  <1>3. Types
    <2>1. buffers \in [{0, 1} -> [0 .. rows - 1 -> BOOLEAN]]
      BY <1>1 DEF Init
    <2>2. saved \in [row : Nat, pen : Pen]
      BY <1>2 DEF Init
    <2> QED BY <1>1, <1>2, <2>1, <2>2 DEF Init, Types, TypeOK
  <1>4. Visit /\ PrimaryKept /\ PensAgree /\ ColourFollowsBold
    BY DEF Init, Visit, PrimaryKept, PensAgree, ColourFollowsBold
  <1>5. ModeTellsBuffer
    <2>1. ~alt_screen /\ ~(buffer = 1)
      BY DEF Init
    <2> QED BY <2>1, Zenon DEF Init, ModeTellsBuffer
  <1> QED BY <1>3, <1>4, <1>5 DEF Inv

(* Replacing the rows of one buffer.                                       *)
LEMMA OneBuffer ==
  ASSUME NEW RowSets, NEW f \in [{0, 1} -> RowSets], NEW b \in {0, 1}, NEW R \in RowSets
  PROVE  /\ [f EXCEPT ![b] = R] \in [{0, 1} -> RowSets]
         /\ b = 1 => [f EXCEPT ![b] = R][0] = f[0]
  OBVIOUS

(* A change of the cells in use: the primary buffer only changes when it   *)
(* is the one in use.                                                      *)
LEMMA CellsStep == ASSUME Inv, putglyph \/ erase PROVE Inv'
  <1>1. /\ UNCHANGED <<rows, buffer, alt_screen, row, pens, saved, primary, app, deviations>>
        /\ buffers' \in [{0, 1} -> [0 .. rows - 1 -> BOOLEAN]]
        /\ buffer = 1 => buffers'[0] = buffers[0]
    <2>1. /\ buffers \in [{0, 1} -> [0 .. rows - 1 -> BOOLEAN]] /\ buffer \in {0, 1}
          /\ rows \in Nat /\ row \in Nat
      BY DEF Inv, Types, TypeOK
    <2>2. ASSUME NEW r, NEW val \in BOOLEAN, buffers' = [buffers EXCEPT ![buffer][r] = val]
          PROVE  /\ buffers' \in [{0, 1} -> [0 .. rows - 1 -> BOOLEAN]]
                 /\ buffer = 1 => buffers'[0] = buffers[0]
      <3> DEFINE RowSets == [0 .. rows - 1 -> BOOLEAN]
                 R == [buffers[buffer] EXCEPT ![r] = val]
      <3>1. R \in RowSets
        BY <2>1, <2>2, Zenon
      <3>2. buffers \in [{0, 1} -> RowSets] /\ buffers' = [buffers EXCEPT ![buffer] = R]
        BY <2>1, <2>2, Zenon
      <3> HIDE DEF RowSets, R
      <3>3. /\ buffers' \in [{0, 1} -> RowSets]
            /\ buffer = 1 => buffers'[0] = buffers[0]
        BY <2>1, <3>1, <3>2, OneBuffer
      <3> QED BY <3>3, Zenon DEF RowSets
    <2>3. CASE putglyph
      BY <2>2, <2>3 DEF putglyph
    <2>4. CASE erase
      BY <2>2, <2>4 DEF erase
    <2> QED BY <2>3, <2>4
  <1> QED BY <1>1 DEF Inv, Types, TypeOK, Visit, PrimaryKept, PensAgree, ColourFollowsBold,
        ModeTellsBuffer, pens

LEMMA MoveStep == ASSUME Inv, MoveCursor PROVE Inv'
  <1>1. rows \in Nat \ {0}
    BY DEF Inv, Types, TypeOK
  <1> QED BY <1>1 DEF Inv, Types, TypeOK, Visit, PrimaryKept, PensAgree, ColourFollowsBold,
        ModeTellsBuffer, pens, MoveCursor

(* What every change of the pen establishes.                               *)
PenGood ==
  /\ pen \in Pen /\ screen_pen = pen
  /\ fg_ansi \in Colours \cup {-1}
  /\ deviations \subseteq {"colour", "mode"}
  /\ ColourFollowsBold

LEMMA Brighten ==
  ASSUME NEW c \in Colours, NEW bold \in BOOLEAN
  PROVE  [bold |-> bold, fg |-> Highbright(c, bold)] \in Pen
  BY DEF Highbright, Pen, Bright

LEMMA SGRPen ==
  ASSUME Inv, vterm_state_setpen
  PROVE  PenGood' /\ ("mode" \in deviations' <=> "mode" \in deviations)
  <1> USE DEF Inv, Types, TypeOK, PenGood, ColourFollowsBold, Agree, Disagree
  <1>1. pen \in Pen /\ pen.bold \in BOOLEAN /\ pen = [bold |-> pen.bold, fg |-> pen.fg]
    BY DEF Pen
  <1>2. CASE vterm_state_resetpen /\ Agree
    <2>1. ResetPen \in Pen
      BY DEF ResetPen, Pen
    <2> QED BY <1>2, <2>1, SendBoth DEF vterm_state_resetpen
  <1>3. CASE BoldOn
    <2>1. CASE fg_ansi > -1
      <3>1. fg_ansi \in Colours
        BY <2>1
      <3> DEFINE p == [bold |-> TRUE, fg |-> Highbright(fg_ansi, TRUE)]
      <3>2. p \in Pen
        BY <3>1, Brighten
      <3>3. pen' = p /\ screen_pen' = p
        BY <1>3, <2>1, <3>2, SendBoth DEF BoldOn
      <3> QED BY <1>3, <2>1, <3>2, <3>3 DEF BoldOn
    <2>2. CASE ~(fg_ansi > -1)
      <3> DEFINE p == [pen EXCEPT !.bold = TRUE]
      <3>1. p \in Pen /\ p.fg = pen.fg
        BY <1>1 DEF Pen
      <3>2. pen' = p /\ screen_pen' = p
        BY <1>1, <1>3, <2>2, <3>1, SendOne DEF BoldOn
      <3> QED BY <1>3, <2>2, <3>1, <3>2 DEF BoldOn
    <2> QED BY <2>1, <2>2
  <1>4. CASE BoldOff
    <2> DEFINE p == [pen EXCEPT !.bold = FALSE]
    <2>1. p \in Pen /\ p.fg = pen.fg /\ p.bold = FALSE
      BY <1>1 DEF Pen
    <2>2. pen' = p /\ screen_pen' = p
      BY <1>1, <1>4, <2>1, SendOne DEF BoldOff
    <2>3. "colour" \notin deviations' /\ fg_ansi > -1 => ~pen.bold /\ "colour" \notin deviations
      BY <1>1, <1>4 DEF BoldOff
    <2> QED BY <1>1, <1>4, <2>1, <2>2, <2>3 DEF BoldOff
  <1>5. CASE DefaultForeground
    <2> DEFINE p == [pen EXCEPT !.fg = Default]
    <2>1. p \in Pen /\ p.bold = pen.bold
      BY <1>1 DEF Pen
    <2>2. pen' = p /\ screen_pen' = p
      BY <1>1, <1>5, <2>1, SendOne DEF DefaultForeground
    <2> QED BY <1>5, <2>1, <2>2 DEF DefaultForeground
  <1>6. ASSUME NEW c \in Colours, Foreground(c)
        PROVE PenGood' /\ ("mode" \in deviations' <=> "mode" \in deviations)
    <2> DEFINE p == [pen EXCEPT !.fg = Highbright(c, pen.bold)]
    <2>1. p \in Pen /\ p.bold = pen.bold /\ p.fg = Highbright(c, pen.bold)
      BY <1>1, Brighten DEF Pen
    <2>2. pen' = p /\ screen_pen' = p
      BY <1>1, <1>6, <2>1, SendOne DEF Foreground
    <2> QED BY <1>6, <2>1, <2>2 DEF Foreground
  <1>7. ASSUME NEW c \in Colours, BrightForeground(c)
        PROVE PenGood' /\ ("mode" \in deviations' <=> "mode" \in deviations)
    <2> DEFINE p == [pen EXCEPT !.fg = c + 8]
    <2>1. p \in Pen /\ p.bold = pen.bold
      BY <1>1 DEF Pen, Bright
    <2>2. pen' = p /\ screen_pen' = p
      BY <1>1, <1>7, <2>1, SendOne DEF BrightForeground
    <2> QED BY <1>7, <2>1, <2>2 DEF BrightForeground
  <1> QED BY <1>2, <1>3, <1>4, <1>5, <1>6, <1>7 DEF vterm_state_setpen

LEMMA SGRStep == ASSUME Inv, vterm_state_setpen PROVE Inv'
  <1>1. PenGood' /\ ("mode" \in deviations' <=> "mode" \in deviations)
    BY SGRPen
  <1>2. UNCHANGED <<rows, buffers, buffer, alt_screen, row, saved, primary, app>>
    BY DEF vterm_state_setpen
  <1> QED BY <1>1, <1>2 DEF PenGood, Inv, Types, TypeOK, Visit, PrimaryKept, PensAgree,
        ModeTellsBuffer

(* Restoring: both copies become the saved pen, and where that does not    *)
(* agree with the colour that stays selected, this is named.               *)
LEMMA RestoreStep ==
  ASSUME Inv, RestoreCursor,
         NEW d, d \in {deviations, deviations \ {"mode"}}, deviations' = AfterRestore(d)
  PROVE  /\ PenGood' /\ row' = saved.row /\ row' \in Nat
         /\ pen' = saved.pen /\ screen_pen' = saved.pen
         /\ UNCHANGED saved
         /\ "mode" \in deviations' <=> "mode" \in d
  <1>1. saved.row \in Nat /\ saved.pen \in Pen /\ deviations \subseteq {"colour", "mode"}
        /\ fg_ansi \in Colours \cup {-1}
    BY DEF Inv, Types, TypeOK
  <1>2. pen' = saved.pen /\ screen_pen' = saved.pen /\ fg_ansi' = fg_ansi
    BY <1>1, SendBoth DEF RestoreCursor, RestorePen
  <1>3. ColourFollowsBold'
    <2> SUFFICES ASSUME "colour" \notin deviations', fg_ansi > -1
                 PROVE  saved.pen.fg = Highbright(fg_ansi, saved.pen.bold)
      BY <1>2 DEF ColourFollowsBold, Highbright
    <2> QED BY DEF AfterRestore, Stray
  <1> QED BY <1>1, <1>2, <1>3 DEF RestoreCursor, PenGood, AfterRestore

(* Switching: into the alternate buffer it erases that one, and out of it  *)
(* nothing; the primary one stays as it was and is remembered.             *)
LEMMA SwitchStep ==
  ASSUME Inv, NEW alt \in BOOLEAN, altscreen(alt), Left, UNCHANGED rows
  PROVE  /\ buffers' \in [{0, 1} -> [0 .. rows' - 1 -> BOOLEAN]]
         /\ buffer' \in {0, 1} /\ alt_screen' \in BOOLEAN /\ (alt_screen' <=> buffer' = 1)
         /\ buffers'[0] = buffers[0]
         /\ primary' \in [0 .. rows' - 1 -> BOOLEAN]
         /\ PrimaryKept'
         /\ buffer' = 1 <=> alt
  <1>1. /\ buffers \in [{0, 1} -> [0 .. rows - 1 -> BOOLEAN]] /\ buffer \in {0, 1}
        /\ primary \in [0 .. rows - 1 -> BOOLEAN] /\ rows \in Nat \ {0}
    BY DEF Inv, Types, TypeOK
  <1>2. Empty(rows) \in [0 .. rows - 1 -> BOOLEAN]
    BY <1>1 DEF Empty
  <1>3. buffers'[0] = buffers[0] /\ buffers' \in [{0, 1} -> [0 .. rows - 1 -> BOOLEAN]]
    <2>1. buffers' = IF alt THEN [buffers EXCEPT ![1] = Empty(rows)] ELSE buffers
      BY DEF altscreen
    <2>2. buffers' = buffers \/ buffers' = [buffers EXCEPT ![1] = Empty(rows)]
      BY <2>1, Zenon
    <2> HIDE DEF Inv
    <2> QED BY <1>1, <1>2, <2>2
  <1>4. primary' = buffers[0]
    BY <1>1 DEF Left, Inv, PrimaryKept
  <1> QED BY <1>1, <1>3, <1>4 DEF altscreen, PrimaryKept

(* What both of these have to establish, beside the pen.                   *)
LEMMA Assemble ==
  ASSUME Types', PenGood', Visit', PrimaryKept', ModeTellsBuffer'
  PROVE  Inv'
  BY DEF PenGood, Inv, PensAgree

LEMMA PenStays ==
  ASSUME Inv, UNCHANGED pens, deviations' \in {deviations, deviations \ {"mode"}}
  PROVE  PenGood'
  BY DEF Inv, Types, TypeOK, pens, PenGood, PensAgree, ColourFollowsBold, Highbright

LEMMA ModeStep ==
  ASSUME Inv, NEW val \in BOOLEAN, Mode1047(val) \/ Mode1048(val)
  PROVE  Inv'
  <1> USE DEF Inv, Types, TypeOK
  <1>1. CASE Mode1047(val)
    <2>1. PenGood'
      BY <1>1, PenStays DEF Mode1047
    <2>2. /\ altscreen(val) /\ Left /\ UNCHANGED <<rows, row, pens, saved>>
          /\ app' = (IF val THEN app ELSE {})
      BY <1>1 DEF Mode1047
    <2>3. Types' /\ PrimaryKept' /\ ModeTellsBuffer'
      BY <2>1, <2>2, SwitchStep DEF PenGood, ModeTellsBuffer
    <2>4. Visit'
      BY <2>2, SwitchStep DEF Visit
    <2> QED BY <2>1, <2>3, <2>4, Assemble
  <1>2. CASE Mode1048(val)
    <2>1. UNCHANGED <<rows, buffers, buffer, alt_screen, primary>>
      BY <1>2 DEF Mode1048
    <2>2. CASE val
      <3>1. SaveCursor /\ app' = {} /\ UNCHANGED deviations
        BY <1>2, <2>2 DEF Mode1048
      <3>2. PenGood'
        BY <3>1, PenStays DEF SaveCursor
      <3>3. Types'
        BY <2>1, <3>1, <3>2 DEF SaveCursor, PenGood
      <3>4. Visit' /\ PrimaryKept' /\ ModeTellsBuffer'
        BY <2>1, <3>1 DEF Visit, PrimaryKept, ModeTellsBuffer
      <3> QED BY <3>2, <3>3, <3>4, Assemble
    <2>3. CASE ~val
      <3>1. RestoreCursor /\ UNCHANGED app /\ deviations' = AfterRestore(deviations)
        BY <1>2, <2>3 DEF Mode1048
      <3>2. /\ PenGood' /\ row' \in Nat /\ UNCHANGED saved
            /\ "mode" \in deviations' <=> "mode" \in deviations
        BY <3>1, RestoreStep
      <3>3. Types' /\ Visit' /\ PrimaryKept' /\ ModeTellsBuffer'
        BY <2>1, <3>1, <3>2 DEF PenGood, Visit, PrimaryKept, ModeTellsBuffer
      <3> QED BY <3>2, <3>3, Assemble
    <2> QED BY <2>2, <2>3
  <1> QED BY <1>1, <1>2

LEMMA EnterStep == ASSUME Inv, Mode1049On PROVE Inv'
  <1> USE DEF Inv, Types, TypeOK
  <1>1. /\ altscreen(TRUE) /\ SaveCursor /\ Left /\ UNCHANGED rows
        /\ app' = (IF buffer = 0 THEN {[primary |-> buffers[0], row |-> row, pen |-> pen]}
                   ELSE {})
        /\ deviations' = deviations \ {"mode"}
    BY DEF Mode1049On
  <1>2. PenGood'
    BY <1>1, PenStays DEF SaveCursor
  <1>3. saved' = [row |-> row, pen |-> pen] /\ row' = row
    BY <1>1 DEF SaveCursor
  <1>4. Types' /\ PrimaryKept' /\ ModeTellsBuffer'
    BY <1>1, <1>2, <1>3, SwitchStep DEF PenGood, ModeTellsBuffer
  <1>5. Visit'
    <2>1. buffers'[0] = buffers[0] /\ buffer' = 1
      BY <1>1, SwitchStep
    <2> QED BY <1>1, <1>3, <2>1 DEF Visit
  <1> QED BY <1>2, <1>4, <1>5, Assemble

LEMMA LeaveStep == ASSUME Inv, Mode1049Off PROVE Inv'
  <1> USE DEF Inv, Types, TypeOK
  <1>1. /\ altscreen(FALSE) /\ RestoreCursor /\ Left /\ UNCHANGED rows
        /\ app' = {} /\ deviations' = AfterRestore(deviations \ {"mode"})
    BY DEF Mode1049Off
  <1>2. /\ PenGood' /\ row' \in Nat /\ UNCHANGED saved
    BY <1>1, RestoreStep
  <1>3. Types' /\ PrimaryKept' /\ ModeTellsBuffer'
    BY <1>1, <1>2, SwitchStep DEF PenGood, ModeTellsBuffer
  <1>4. Visit'
    BY <1>1 DEF Visit
  <1> QED BY <1>2, <1>3, <1>4, Assemble

LEMMA ResetStep ==
  ASSUME Inv, vterm_state_reset
  PROVE  Inv'
  <1> USE DEF Inv, Types, TypeOK
  <1>1. /\ alt_screen' = FALSE /\ vterm_state_resetpen /\ app' = {}
        /\ deviations' = (IF buffer = 1 THEN {"mode"} ELSE {})
        /\ UNCHANGED <<rows, buffer, saved, primary>>
    BY DEF vterm_state_reset
  <1>2. ResetPen \in Pen
    BY DEF ResetPen, Pen
  <1>3. PenGood'
    BY <1>1, <1>2, SendBoth DEF vterm_state_resetpen, PenGood, ColourFollowsBold
  <1>4. /\ buffers' \in [{0, 1} -> [0 .. rows - 1 -> BOOLEAN]] /\ row' \in Nat
        /\ buffer = 1 => buffers'[0] = buffers[0]
    <2>1. Empty(rows) \in [0 .. rows - 1 -> BOOLEAN]
      BY DEF Empty
    <2>2. row' = 0 /\ buffers' = [buffers EXCEPT ![buffer] = Empty(rows)]
      BY DEF vterm_state_reset
    <2>3. buffers \in [{0, 1} -> [0 .. rows - 1 -> BOOLEAN]] /\ buffer \in {0, 1} /\ row' \in Nat
      BY <2>2
    <2> HIDE DEF Inv, Types, TypeOK
    <2>4. buffers' \in [{0, 1} -> [0 .. rows - 1 -> BOOLEAN]]
      BY <2>1, <2>2, <2>3, Zenon
    <2>5. ASSUME buffer = 1 PROVE buffers'[0] = buffers[0]
      <3>1. 0 \in DOMAIN buffers /\ buffer # 0
        BY <2>3, <2>5
      <3> QED BY <2>2, <3>1, Zenon
    <2> QED BY <2>3, <2>4, <2>5
  <1>5. Types' /\ PrimaryKept' /\ ModeTellsBuffer'
    BY <1>1, <1>3, <1>4 DEF PenGood, PrimaryKept, ModeTellsBuffer
  <1>6. Visit'
    BY <1>1 DEF Visit
  <1> QED BY <1>3, <1>5, <1>6, Assemble

LEMMA ResizeStep == ASSUME Inv, on_resize PROVE Inv'
  <1> USE DEF Inv, Types, TypeOK
  <1>1. PICK n \in Heights :
          /\ rows' = n
          /\ buffers' = resize(n)
          /\ row' = IF row >= n THEN n - 1 ELSE row
          /\ primary' = Resized(primary, n)
    BY DEF on_resize
  <1>2. app' = {} /\ UNCHANGED <<buffer, alt_screen, pens, saved, deviations>>
    BY DEF on_resize
  <1>3. n \in Nat \ {0} /\ rows \in Nat \ {0}
    OBVIOUS
  <1>4. ASSUME NEW b \in [0 .. rows - 1 -> BOOLEAN]
        PROVE  Resized(b, n) \in [0 .. n - 1 -> BOOLEAN]
    <2>1. ASSUME NEW r \in 0 .. n - 1
          PROVE  (IF r < rows THEN b[r] ELSE FALSE) \in BOOLEAN
      <3>1. r < rows => r \in 0 .. rows - 1
        BY <1>3
      <3>2. CASE r < rows
        BY <3>1, <3>2, Zenon
      <3>3. CASE ~(r < rows)
        BY <3>3, Zenon
      <3> QED BY <3>2, <3>3
    <2> QED BY <2>1, Zenon DEF Resized
  <1>5. /\ buffers' \in [{0, 1} -> [0 .. n - 1 -> BOOLEAN]]
        /\ buffers'[0] = Resized(buffers[0], n)
        /\ primary' = Resized(primary, n) /\ primary' \in [0 .. n - 1 -> BOOLEAN]
    BY <1>1, <1>4 DEF resize
  <1>6. PenGood'
    BY <1>2, PenStays
  <1>7. row' \in Nat
    BY <1>1, <1>3
  <1>8. Types' /\ ModeTellsBuffer'
    BY <1>1, <1>2, <1>5, <1>6, <1>7 DEF PenGood, ModeTellsBuffer
  <1>9. PrimaryKept' /\ Visit'
    BY <1>2, <1>5 DEF PrimaryKept, Visit
  <1> QED BY <1>6, <1>8, <1>9, Assemble

LEMMA StepInv == ASSUME Inv, [Next]_vars PROVE Inv'
  <1>1. CASE UNCHANGED vars
    <2>1. PenGood'
      BY <1>1, PenStays DEF vars, pens
    <2> QED BY <1>1, <2>1, Assemble DEF vars, Inv, Types, TypeOK, Visit, PrimaryKept,
          PensAgree, ColourFollowsBold, ModeTellsBuffer, pens, Highbright
  <1> QED BY <1>1, CellsStep, MoveStep, SGRStep, ModeStep, EnterStep, LeaveStep, ResetStep,
        ResizeStep DEF Next

(* The invariant: every property of a state of Screen, on a terminal of    *)
(* any height and with any of the eight colours.                           *)
THEOREM ScreenInvariance == Spec => []Inv
  BY InitInv, StepInv, PTL DEF Spec

(* Both buffers have the rows of the terminal, whichever is shown when it  *)
(* is resized (realloc_buffer).                                            *)
THEOREM ScreenTypes == Spec => []TypeOK
  <1>1. Inv => TypeOK
    BY DEF Inv, Types
  <1> QED BY <1>1, ScreenInvariance, PTL

(* Nothing that happens while the alternate screen is shown changes the    *)
(* primary one (altscreen, settermprop, realloc_buffer).                   *)
THEOREM PrimarySurvives == Spec => []PrimaryKept
  <1>1. Inv => PrimaryKept
    BY DEF Inv
  <1> QED BY <1>1, ScreenInvariance, PTL

(* The screen prints with the pen the state knows (setpenattr).            *)
THEOREM PenConsistent == Spec => []PensAgree
  <1>1. Inv => PensAgree
    BY DEF Inv
  <1> QED BY <1>1, ScreenInvariance, PTL

(* The colour follows bold, but for SGR 22 and a restored pen              *)
(* (vterm_state_setpen, vterm_state_savepen).                              *)
THEOREM ColourConsistent == Spec => []ColourFollowsBold
  <1>1. Inv => ColourFollowsBold
    BY DEF Inv
  <1> QED BY <1>1, ScreenInvariance, PTL

(* mode.alt_screen says which buffer is in use, but between a reset in the *)
(* alternate screen and the next switch (altscreen, vterm_state_reset).    *)
THEOREM ModeIsBuffer == Spec => []ModeTellsBuffer
  <1>1. Inv => ModeTellsBuffer
    BY DEF Inv
  <1> QED BY <1>1, ScreenInvariance, PTL

(* A visit of the alternate screen with mode 1049 leaves the primary one,  *)
(* the cursor and both copies of the pen as it found them (set_dec_mode).  *)
THEOREM VisitIsClean == Spec => VisitLeavesNoTrace
  <1>1. ASSUME Inv, Mode1049Off, NEW a \in app
        PROVE  /\ buffers'[0] = a.primary
               /\ row' = a.row
               /\ pen' = a.pen /\ screen_pen' = a.pen
    <2>1. a.primary = buffers[0] /\ a.row = saved.row /\ a.pen = saved.pen
      BY <1>1 DEF Inv, Visit
    <2>2. row' = saved.row /\ pen' = saved.pen /\ screen_pen' = saved.pen
      BY <1>1, RestoreStep DEF Mode1049Off
    <2>3. buffers'[0] = buffers[0]
      BY <1>1, SwitchStep DEF Mode1049Off
    <2> QED BY <2>1, <2>2, <2>3
  <1>2. Inv => (Mode1049Off => \A a \in app :
                  /\ buffers'[0] = a.primary
                  /\ row' = a.row
                  /\ pen' = a.pen /\ screen_pen' = a.pen)
    BY <1>1
  <1> QED BY <1>2, ScreenInvariance, PTL DEF Spec, VisitLeavesNoTrace
=============================================================================
