-------------------------- MODULE KeyTransferProofs --------------------------
(***************************************************************************)
(* What holds of hterm's main loop for every bound on output, events,      *)
(* sessions and fading, of the loop alone (Session) and with key transfers *)
(* in between (KeyTransfer), and that a transfer reported as done has read *)
(* both files to their end, for every size of the keys.                    *)
(*                                                                         *)
(* Each safety property of Session has a strengthening that a step         *)
(* preserves; Inv is their conjunction.  Inv is kept by the steps of       *)
(* Session whatever the transfer did; what the transfer needs beside it is *)
(* KeyState.  In the end, what brings a transfer, the end of a session and *)
(* a redraw nearer, whatever host and user do.                             *)
(***************************************************************************)
EXTENDS KeyTransfer, SequenceTheorems, TLAPS

-----------------------------------------------------------------------------
(* The main loop.                                                          *)

(* The flags are Booleans. *)
Flags ==
  /\ redraw_req \in BOOLEAN /\ hterm_quit \in BOOLEAN /\ userquit \in BOOLEAN
  /\ stale \in BOOLEAN /\ missed \in BOOLEAN /\ undrawn \in BOOLEAN

(* A socket that is open is closed before pc returns to "open". *)
Handles == HandlesLive /\ NothingLeftOpen

(* Also while the next server is selected: the draw flag outlives a        *)
(* session.                                                                *)
Pending == stale /\ ~missed => redraw_req

(* What was read is drawn before the next read, and before the loop is     *)
(* over for any reason but the user's.                                     *)
Shown ==
  /\ InLoop /\ hterm_quit => userquit
  /\ pc = "open" => ~hterm_quit /\ ~undrawn
  /\ undrawn => pc \in {"draw", "close"} /\ redraw_req
  /\ OutputShownBeforeEnd

Inv == Flags /\ Handles /\ Pending /\ Shown

LEMMA InitInv == Init => Inv
  BY SessionAssumption DEF Init, Inv, Flags, Handles, HandlesLive, NothingLeftOpen, Pending,
    Shown, OutputShownBeforeEnd, InLoop

USE SessionAssumption DEF conn, view, drawing

LEMMA OpenStep == ASSUME Inv, console_read_init, build' = build PROVE Inv'
  BY DEF Inv, Flags, Handles, HandlesLive, NothingLeftOpen, Pending, Shown,
    OutputShownBeforeEnd, InLoop, console_read_init, ssh_open, ssh_open_preshell, local_open

(* Drawing keeps the flag when there is nothing to draw, and sets it to    *)
(* what the drawing itself asks for otherwise.                             *)
LEMMA DrawStep == ASSUME Inv, Draw, build' = build PROVE Inv'
  <1> USE DEF Inv
  <1>1. /\ pc = "draw" /\ pc' = "events"
        /\ hterm_quit' = hterm_quit /\ userquit' = userquit
        /\ UNCHANGED <<conn, peer, inbound>>
    BY DEF Draw
  <1>2. Handles'
    BY <1>1 DEF Handles, HandlesLive, NothingLeftOpen
  <1>3. CASE redraw_req
    <2>1. /\ redraw_req' = (fade > 0) /\ stale' = (fade > 0)
          /\ missed' = FALSE /\ undrawn' = FALSE
      BY <1>3 DEF Draw
    <2>2. redraw_req' \in BOOLEAN /\ stale' = redraw_req'
      BY <2>1
    <2>3. Flags' /\ Pending'
      BY <1>1, <2>1, <2>2 DEF Flags, Pending
    <2>4. Shown'
      BY <1>1, <2>1 DEF Shown, OutputShownBeforeEnd, InLoop
    <2> QED BY <1>2, <2>3, <2>4
  <1>4. CASE ~redraw_req
    <2>1. UNCHANGED <<redraw_req, stale, missed, undrawn>>
      BY <1>4 DEF Draw
    <2>2. Flags' /\ Pending'
      BY <1>1, <2>1 DEF Flags, Pending
    <2>3. Shown'
      BY <1>1, <1>4, <2>1 DEF Shown, OutputShownBeforeEnd, InLoop
    <2> QED BY <1>2, <2>2, <2>3
  <1> QED BY <1>3, <1>4

(* Every event leaves pc where it is; only CloseEvent disturbs the handles,*)
(* and QuitEvent the flags of the loop; the others what is to be drawn.    *)
LEMMA EventStep == ASSUME Inv, sdl_read_thread, build' = build PROVE Inv'
  <1> USE DEF Inv
  <1>1. pc = "events" /\ UNCHANGED <<pc, peer, inbound>>
    BY DEF sdl_read_thread
  <1>2. /\ undrawn = FALSE
        /\ hterm_quit => userquit
    BY <1>1 DEF Shown, InLoop, Flags
  <1>3. ASSUME /\ hterm_quit' = hterm_quit /\ userquit' = userquit
               /\ UNCHANGED conn
               /\ redraw_required \/ UNCHANGED drawing \/ \E b \in BOOLEAN : Silently(b)
        PROVE  Inv'
    <2>1. undrawn' = FALSE
      BY <1>2, <1>3 DEF redraw_required, Silently
    <2>2. Handles'
      BY <1>1, <1>3 DEF Handles, HandlesLive, NothingLeftOpen
    <2>3. Flags' /\ Pending'
      <3>1. CASE redraw_required
        BY <1>3, <3>1 DEF redraw_required, Flags, Pending
      <3>2. CASE UNCHANGED drawing
        BY <1>3, <3>2 DEF Flags, Pending
      <3>3. ASSUME NEW b \in BOOLEAN, Silently(b) PROVE Flags' /\ Pending'
        <4>1. /\ stale' = (stale \/ b) /\ missed' = (missed \/ (b /\ ~redraw_req))
              /\ redraw_req' = redraw_req /\ undrawn' = undrawn
          BY <3>3 DEF Silently
        <4>2. Flags'
          BY <1>3, <4>1 DEF Flags
        <4>3. Pending'
          BY <3>3, <4>1, Zenon DEF Flags, Pending
        <4> QED BY <4>2, <4>3
      <3> QED BY <1>3, <3>1, <3>2, <3>3
    <2>4. Shown'
      BY <1>1, <1>2, <1>3, <2>1 DEF Shown, OutputShownBeforeEnd, InLoop
    <2> QED BY <2>2, <2>3, <2>4
  <1>4. CASE ScrollEvent
    BY <1>3, <1>4 DEF ScrollEvent
  <1>5. CASE SelectEvent
    <2>1. redraw_required \/ UNCHANGED drawing \/ Silently(fade > 0)
      BY <1>5 DEF SelectEvent
    <2>2. Silently(fade > 0) => \E b \in BOOLEAN : Silently(b)
      <3>1. (fade > 0) \in BOOLEAN
        OBVIOUS
      <3> QED BY <3>1, Zenon
    <2> QED BY <1>3, <1>5, <2>1, <2>2 DEF SelectEvent
  <1>6. CASE FingerEvent
    BY <1>3, <1>6 DEF FingerEvent
  <1>7. BoxVanishes \in BOOLEAN
    BY DEF BoxVanishes
  <1>8. CASE DisabledEvent
    <2>1. \E b \in BOOLEAN : Silently(b)
      BY <1>7, <1>8, Zenon DEF DisabledEvent
    <2> QED BY <1>3, <1>8, <2>1 DEF DisabledEvent
  <1>9. CASE KeyEvent
    <2>1. /\ (scroll_offset > 0 \/ BoxVanishes) \in BOOLEAN
          /\ Silently(scroll_offset > 0 \/ BoxVanishes)
      BY <1>9 DEF KeyEvent
    <2>2. \E b \in BOOLEAN : Silently(b)
      BY <2>1, Zenon
    <2> QED BY <1>3, <1>9, <2>2 DEF KeyEvent
  <1>10. CASE ResizeEvent
    BY <1>3, <1>10 DEF ResizeEvent
  <1>11. CASE QuitEvent
    <2>1. /\ UNCHANGED <<conn, redraw_req, stale, missed, undrawn>>
          /\ hterm_quit' = TRUE /\ userquit' = TRUE
      BY <1>11 DEF QuitEvent
    <2>2. Handles'
      BY <1>1, <2>1 DEF Handles, HandlesLive, NothingLeftOpen
    <2>3. Flags' /\ Pending'
      BY <2>1 DEF Flags, Pending
    <2>4. Shown'
      BY <1>1, <1>2, <2>1 DEF Shown, OutputShownBeforeEnd, InLoop
    <2> QED BY <2>2, <2>3, <2>4
  <1>12. CASE CloseEvent
    <2>1. /\ Silently(BoxVanishes)
          /\ UNCHANGED <<hterm_quit, userquit>>
      BY <1>12 DEF CloseEvent
    <2>2. Handles'
      BY <1>1, <1>12 DEF CloseEvent, ssh_close, Handles, HandlesLive, NothingLeftOpen
    <2>3. /\ stale' = (stale \/ BoxVanishes)
          /\ missed' = (missed \/ (BoxVanishes /\ ~redraw_req))
          /\ redraw_req' = redraw_req /\ undrawn' = undrawn
      BY <2>1 DEF Silently
    <2>4. Flags'
      BY <1>7, <2>1, <2>3 DEF Flags
    <2>5. Pending'
      BY <1>7, <2>3, Zenon DEF Flags, Pending
    <2>6. Shown'
      BY <1>1, <1>2, <2>1, <2>3 DEF Shown, OutputShownBeforeEnd, InLoop
    <2> QED BY <2>2, <2>4, <2>5, <2>6
  <1> QED
    BY <1>4, <1>5, <1>6, <1>8, <1>9, <1>10, <1>11, <1>12 DEF sdl_read_thread

LEMMA HandledStep == ASSUME Inv, EventsHandled, build' = build PROVE Inv'
  BY DEF Inv, Flags, Handles, HandlesLive, NothingLeftOpen, Pending, Shown,
    OutputShownBeforeEnd, InLoop, EventsHandled

LEMMA PollStep == ASSUME Inv, console_poll, build' = build PROVE Inv'
  <1> USE DEF console_poll, Inv, InLoop
  <1>1. CASE GotOutput
    BY <1>1 DEF GotOutput, Flags, Handles, HandlesLive, NothingLeftOpen, Pending, Shown,
      OutputShownBeforeEnd
  <1>2. CASE NothingYet
    <2>1. /\ pc = "poll" /\ UNCHANGED <<peer, conn, hterm_quit, inbound, userquit>>
          /\ pc' = IF hterm_quit' THEN "close" ELSE "draw"
          /\ inbound = 0
      BY <1>2 DEF NothingYet
    <2>2. Handles'
      BY <2>1 DEF Handles, HandlesLive, NothingLeftOpen
    <2>3. UNCHANGED drawing \/ redraw_required
      BY <1>2 DEF NothingYet
    <2>4. Flags' /\ Pending'
      <3>1. CASE UNCHANGED drawing
        BY <2>1, <3>1 DEF Flags, Pending
      <3>2. CASE redraw_required
        BY <2>1, <3>2 DEF redraw_required, Flags, Pending
      <3> QED BY <2>3, <3>1, <3>2
    <2>5. undrawn = FALSE /\ undrawn' = FALSE
      BY <2>1, <2>3 DEF redraw_required, Shown, Flags
    <2>6. Shown'
      BY <2>1, <2>5 DEF Shown, OutputShownBeforeEnd, Flags
    <2> QED BY <2>2, <2>4, <2>6
  <1>3. CASE ReadEnds
    BY <1>3 DEF ReadEnds, ssh_close, Flags, Handles, HandlesLive, NothingLeftOpen, Pending,
      Shown, OutputShownBeforeEnd
  <1> QED BY <1>1, <1>2, <1>3

LEMMA CloseStep == ASSUME Inv, Close, build' = build PROVE Inv'
  BY DEF Inv, Flags, Handles, HandlesLive, NothingLeftOpen, Pending, Shown,
    OutputShownBeforeEnd, InLoop, Close, ssh_close

LEMMA OutsideStep == ASSUME Inv, Host \/ User, build' = build PROVE Inv'
  BY DEF Inv, Flags, Handles, HandlesLive, NothingLeftOpen, Pending, Shown,
    OutputShownBeforeEnd, InLoop, Host, User

LEMMA Stutter == ASSUME Inv, UNCHANGED vars PROVE Inv'
  BY DEF Inv, Flags, Handles, HandlesLive, NothingLeftOpen, Pending, Shown,
    OutputShownBeforeEnd, InLoop, vars

(* Inv is inductive. *)
THEOREM Invariance == Spec => []Inv
<1>1. Init => Inv
  BY InitInv
<1>2. Inv /\ [Next]_vars => Inv'
  <2> SUFFICES ASSUME Inv, [Next]_vars PROVE Inv'
    OBVIOUS
  <2>1. CASE (console_read_init) /\ build' = build BY <2>1, OpenStep
  <2>2. CASE (Draw) /\ build' = build BY <2>2, DrawStep
  <2>3. CASE (sdl_read_thread) /\ build' = build BY <2>3, EventStep
  <2>4. CASE (EventsHandled) /\ build' = build BY <2>4, HandledStep
  <2>5. CASE (console_poll) /\ build' = build BY <2>5, PollStep
  <2>6. CASE (Close) /\ build' = build BY <2>6, CloseStep
  <2>7. CASE (Host \/ User) /\ build' = build BY <2>7, OutsideStep
  <2>8. CASE UNCHANGED vars BY <2>8, Stutter
  <2> QED BY <2>1, <2>2, <2>3, <2>4, <2>5, <2>6, <2>7, <2>8 DEF Next, Open, Loop, Outside
<1> QED
  BY <1>1, <1>2, PTL DEF Spec

(* HandlesLive for every behaviour: no handle of ssh.c is used after the   *)
(* session it belongs to was freed.                                        *)
THEOREM LiveHandles == Spec => []HandlesLive
<1>1. Inv => HandlesLive
  BY DEF Inv, Handles
<1> QED BY <1>1, Invariance, PTL

(* NothingLeftOpen for every behaviour: main releases each connection      *)
(* before the next one is opened.                                          *)
THEOREM Released == Spec => []NothingLeftOpen
<1>1. Inv => NothingLeftOpen
  BY DEF Inv, Handles
<1> QED BY <1>1, Invariance, PTL

(* RedrawPending for every behaviour: sdl_render_thread never forgets a    *)
(* redraw that was asked for.                                              *)
THEOREM NoRedrawLost == Spec => []RedrawPending
<1>1. Inv => RedrawPending
  BY DEF Inv, Pending, RedrawPending
<1> QED BY <1>1, Invariance, PTL

(* OutputShownBeforeEnd for every behaviour: the last output of a host     *)
(* that hangs up is read and drawn.                                        *)
THEOREM LastOutputShown == Spec => []OutputShownBeforeEnd
<1>1. Inv => OutputShownBeforeEnd
  BY DEF Inv, Shown
<1> QED BY <1>1, Invariance, PTL

HIDE SessionAssumption DEF conn, view, drawing

-----------------------------------------------------------------------------
(* Key transfers.                                                          *)

FileState == {"old", "partial", "complete", "damaged"}
Received == {"complete", "damaged"}
Code == {"none", "ok", "refused", "broken"}

(* A session the transfer can use is over an open socket; the file being   *)
(* copied, and the one after it, have no result yet; the files are those   *)
(* of before when a transfer begins; and a result of "ok" is that of a     *)
(* file read to its end, and no other is.                                  *)
KeyState ==
  /\ local \in [File -> FileState] /\ result \in [File -> Code]
  /\ InTransfer => /\ ~hterm_quit /\ offered = FALSE /\ reported = "none"
                   /\ session => sock = "open"
  /\ pc \in File => result["pub"] = "none"
  /\ pc = "priv" => result["priv"] = "none"
  /\ offered \/ pc \in {"draw", "events", "poll", "close", "done"} => \A f \in File : local[f] = "old"
  /\ InTransfer => \A f \in File : result[f] = "ok" <=> local[f] \in Received
  /\ ReportMatchesFiles

KeyInv == Inv /\ KeyState

LEMMA KeyInitInv == KeyInit => KeyInv
<1>1. KeyInit => Inv
  BY InitInv DEF KeyInit
<1>2. KeyInit => KeyState
  BY DEF KeyInit, Init, KeyState, ReportMatchesFiles, InTransfer, File, FileState, Code,
         Received
<1> QED BY <1>1, <1>2 DEF KeyInv

(* Session's own steps keep Inv, as shown above, and never lead          *)
(* into a transfer.                                                        *)
LEMMA SessionKeeps == ASSUME Inv, Open \/ Loop \/ Outside PROVE Inv'
  BY OpenStep, DrawStep, EventStep, HandledStep, PollStep, CloseStep, OutsideStep
     DEF Open, Loop, Outside

LEMMA SessionStays ==
  ASSUME Open \/ Loop \/ Outside
  PROVE  ~InTransfer /\ ~InTransfer'
<1>1. CASE Open
  BY <1>1 DEF Open, console_read_init, InTransfer, File
<1>2. CASE Loop
  <2>1. CASE Draw BY <2>1 DEF Draw, InTransfer, File
  <2>2. CASE sdl_read_thread BY <2>2 DEF sdl_read_thread, InTransfer, File
  <2>3. CASE EventsHandled BY <2>3 DEF EventsHandled, InTransfer, File
  <2>4. CASE console_poll BY <2>4 DEF console_poll, InTransfer, File
  <2>5. CASE Close BY <2>5 DEF Close, InTransfer, File
  <2> QED BY <1>2, <2>1, <2>2, <2>3, <2>4, <2>5 DEF Loop
<1>3. CASE Outside
  BY <1>3 DEF Outside, Host, User, InLoop, InTransfer, File
<1> QED BY <1>1, <1>2, <1>3

LEMMA SessionPart ==
  ASSUME KeyInv, Connect \/ LoopStep \/ (Outside /\ UNCHANGED keyvars)
  PROVE  KeyInv'
<1>1. Open \/ Loop \/ Outside
  BY DEF Connect, LoopStep
<1>2. Inv'
  BY <1>1, SessionKeeps DEF KeyInv
<1>3. ~InTransfer'
  BY <1>1, SessionStays
<1>4. /\ \/ UNCHANGED <<local, reported>>
         \/ local' = [f \in File |-> "old"] /\ reported' = "none"
      /\ result' = result
  BY DEF Connect, LoopStep, keyvars
<1>5. /\ local' \in [File -> FileState] /\ result' \in [File -> Code]
      /\ ReportMatchesFiles'
  BY <1>4 DEF KeyInv, KeyState, ReportMatchesFiles, FileState
<1>6. \A f \in File : offered' \/ pc' \in {"draw", "events", "poll", "close", "done"}
                      => local'[f] = "old"
  <2>1. CASE Connect
    BY <2>1 DEF Connect
  <2>2. CASE LoopStep
    <3>1. pc \in {"draw", "events", "poll", "close"} /\ local' = local
      BY <2>2 DEF LoopStep, Loop, Draw, sdl_read_thread, EventsHandled, console_poll, Close
    <3> QED BY <3>1 DEF KeyInv, KeyState
  <2>3. CASE Outside /\ UNCHANGED keyvars
    <3>1. pc' = pc /\ local' = local /\ offered' = offered
      BY <2>3 DEF Outside, Host, User, keyvars
    <3> QED BY <3>1 DEF KeyInv, KeyState
  <2> QED BY <2>1, <2>2, <2>3
<1>7. KeyState'
  BY <1>3, <1>5, <1>6 DEF KeyState, InTransfer, File
<1> QED BY <1>2, <1>7 DEF KeyInv

(* What every step of a transfer leaves alone keeps what Inv says of the   *)
(* flags; the handles remain to be shown.                                  *)
LEMMA TransferKeepsFlags ==
  ASSUME KeyInv, InTransfer \/ pc = "open",
         InTransfer' \/ pc' \in {"open", "undefined"},
         UNCHANGED session_vars, build' = build
  PROVE  Flags' /\ Pending' /\ Shown'
<1>1. UNCHANGED <<redraw_req, hterm_quit, userquit, stale, missed, undrawn>>
  BY DEF session_vars, drawing
<1>2. ~hterm_quit /\ ~undrawn
  BY DEF KeyInv, KeyState, Inv, Flags, Shown, InTransfer, File
<1>3. Flags' /\ Pending'
  BY <1>1 DEF KeyInv, Inv, Flags, Pending
<1>4. Shown'
  BY <1>1, <1>2 DEF Shown, InLoop, OutputShownBeforeEnd, InTransfer, File
<1> QED BY <1>3, <1>4

(* The answers of libssh2_channel_read that leave the loop where it is.    *)
Reads(f) == ReadBlock(f) \/ EmptyRead(f) \/ BadFile(f)

LEMMA GetfileCases ==
  ASSUME NEW f \in File, getfile(f)
  PROVE  Refused(f) \/ Accepted(f) \/ Undefined(f) \/ Reads(f) \/ ReadFails(f) \/ Complete(f)
BY DEF getfile, Reads

LEMMA ReadsChange ==
  ASSUME NEW f \in File, Reads(f)
  PROVE  /\ pc = f /\ pc' \in {f, "undefined"}
         /\ UNCHANGED <<channel, session, sock, peer, session_vars, offered, fid, local,
                        result, reported>>
BY DEF Reads, ReadBlock, EmptyRead, BadFile, allvars, vars, keyvars, conn, session_vars, view,
       drawing

LEMMA TransferStep == ASSUME KeyInv, Transfer, build' = build PROVE KeyInv'
<1>1. /\ pc = "open" /\ pc' = "priv" /\ hterm_quit' = hterm_quit
      /\ ssh_open_preshell
      /\ offered /\ local' = local /\ offered' = FALSE /\ reported' = "none"
      /\ result' = [f \in File |-> "none"]
  BY DEF Transfer, session_vars
<1>2. channel = "none" /\ ~session /\ sock # "open" /\ ~hterm_quit
  BY <1>1 DEF KeyInv, Inv, Handles, NothingLeftOpen, Shown
<1>3. channel' = "none" /\ (session' => sock' = "open")
  BY <1>1, <1>2 DEF ssh_open_preshell, conn
<1>4. Handles'
  BY <1>1, <1>3 DEF Handles, HandlesLive, NothingLeftOpen
<1>5. Flags' /\ Pending' /\ Shown'
  BY <1>1, TransferKeepsFlags DEF Transfer, InTransfer, File
<1>6. KeyState'
  BY <1>1, <1>2, <1>3 DEF KeyInv, KeyState, ReportMatchesFiles, InTransfer, File, Code,
                         Received
<1> QED BY <1>4, <1>5, <1>6 DEF KeyInv, Inv

LEMMA GetfileStep ==
  ASSUME KeyInv, NEW f \in File, getfile(f), build' = build PROVE KeyInv'
<1> USE DEF KeyInv, Inv
<1>1. pc = f /\ InTransfer /\ pc # "open" /\ UNCHANGED session_vars
  BY GetfileCases, ReadsChange DEF Refused, Accepted, Undefined, ReadFails, Complete, Returns,
         InTransfer, File
<1>2. /\ pc' \in {f, Next1[f], "undefined"}
      /\ InTransfer' \/ pc' = "undefined"
  BY <1>1, GetfileCases, ReadsChange DEF Refused, Accepted, Undefined, ReadFails, Complete, Returns,
              InTransfer, File, Next1
<1>3. Flags' /\ Pending' /\ Shown'
  BY <1>1, <1>2, TransferKeepsFlags
<1>4. UNCHANGED <<session, sock, reported, hterm_quit>>
  BY GetfileCases, ReadsChange DEF Refused, Accepted, Undefined, ReadFails, Complete, Returns,
         session_vars, conn, keyvars
<1>5. Handles'
  <2>1. channel' = "none" \/ channel' = channel \/ (channel' = "scp" /\ session)
    BY GetfileCases, ReadsChange DEF Refused, Accepted, Undefined, ReadFails, Complete, Returns, conn
  <2>2. session => sock = "open"
    BY <1>1 DEF KeyState
  <2>3. HandlesLive'
    BY <1>4, <2>1, <2>2 DEF Handles, HandlesLive
  <2>4. pc' \notin {"open", "done"}
    BY <1>2 DEF InTransfer, File
  <2> QED BY <2>3, <2>4 DEF Handles, NothingLeftOpen
<1>6. /\ local' \in [File -> FileState] /\ result' \in [File -> Code]
      /\ \A g \in File : result'[g] = "ok" <=> local'[g] \in Received
  <2>1. /\ local \in [File -> FileState] /\ result \in [File -> Code]
        /\ result[f] = "none"
        /\ \A g \in File : result[g] = "ok" <=> local[g] \in Received
    BY <1>1 DEF KeyState, File
  <2>2. CASE Refused(f)
    BY <2>1, <2>2 DEF Refused, Returns, Code
  <2>3. CASE Accepted(f)
    <3>1. result' = result /\ (local' = local \/ local' = [local EXCEPT ![f] = "partial"])
      BY <2>3 DEF Accepted
    <3> QED BY <2>1, <3>1 DEF FileState, Received
  <2>4. CASE Undefined(f) \/ Reads(f)
    <3>1. result' = result /\ local' = local
      BY <2>4, ReadsChange DEF Undefined, keyvars
    <3> QED BY <2>1, <3>1
  <2>5. CASE ReadFails(f)
    BY <2>1, <2>5 DEF ReadFails, Returns, Code
  <2>6. CASE Complete(f)
    <3>1. PICK written \in {"complete", "damaged"} : local' = [local EXCEPT ![f] = written]
      BY <2>6 DEF Complete
    <3>2. result' = [result EXCEPT ![f] = "ok"]
      BY <2>6 DEF Complete, Returns
    <3> QED BY <2>1, <3>1, <3>2 DEF Code, FileState, Received
  <2> QED BY <2>2, <2>3, <2>4, <2>5, <2>6, GetfileCases
<1>7. ReportMatchesFiles'
  BY <1>1, <1>4 DEF KeyState, ReportMatchesFiles
<1>8. /\ pc' \in File => result'["pub"] = "none"
      /\ pc' = "priv" => result'["priv"] = "none"
  <2>1. /\ result \in [File -> Code] /\ result["pub"] = "none"
        /\ f = "priv" => result["priv"] = "none"
    BY <1>1 DEF KeyState
  <2>2. CASE result' = result /\ pc' \in {f, "undefined"}
    BY <2>1, <2>2 DEF File
  <2>3. ASSUME NEW code, Returns(f, code)
        PROVE  /\ pc' \in File => result'["pub"] = "none"
               /\ pc' = "priv" => result'["priv"] = "none"
    BY <2>1, <2>3 DEF Returns, Next1, File
  <2>4. \/ result' = result /\ pc' \in {f, "undefined"}
        \/ \E code : Returns(f, code)
    BY <1>1, GetfileCases, ReadsChange DEF Refused, Accepted, Undefined, ReadFails, Complete, keyvars
  <2> QED BY <2>2, <2>3, <2>4
<1>9. offered' = FALSE /\ pc' \notin {"draw", "events", "poll", "close", "done"}
  BY <1>1, <1>2, GetfileCases, ReadsChange
     DEF Refused, Accepted, Undefined, ReadFails, Complete, Returns, keyvars, InTransfer, File,
         KeyState
<1>10. KeyState'
  BY <1>1, <1>4, <1>6, <1>7, <1>8, <1>9 DEF KeyState, ReportMatchesFiles
<1> QED BY <1>3, <1>5, <1>10

LEMMA FinishStep == ASSUME KeyInv, Finish, build' = build PROVE KeyInv'
<1>1. /\ pc = "report" /\ pc' = "open" /\ InTransfer /\ ~InTransfer'
      /\ UNCHANGED session_vars /\ local' = local /\ offered' = offered
      /\ result' = [f \in File |-> "none"] /\ reported' = Report
  BY DEF Finish, InTransfer, File
<1>2. Flags' /\ Pending' /\ Shown'
  BY <1>1, TransferKeepsFlags
<1>3. Handles'
  BY DEF Finish, ssh_close, Handles, HandlesLive, NothingLeftOpen
<1>4. ReportMatchesFiles'
  BY <1>1 DEF KeyInv, KeyState, ReportMatchesFiles, Report, Received
<1>5. KeyState'
  BY <1>1, <1>4 DEF KeyInv, KeyState, File, Code
<1> QED BY <1>2, <1>3, <1>5 DEF KeyInv, Inv

LEMMA RemoteStep == ASSUME KeyInv, Remote, build' = build PROVE KeyInv'
<1>1. /\ pc \in File /\ InTransfer /\ InTransfer'
      /\ UNCHANGED <<pc, channel, session, sock, session_vars, keyvars>>
  BY DEF Remote, conn, InTransfer
<1>2. Flags' /\ Pending' /\ Shown'
  BY <1>1, TransferKeepsFlags
<1>3. Handles'
  BY <1>1 DEF KeyInv, Inv, Handles, HandlesLive, NothingLeftOpen
<1>4. KeyState'
  BY <1>1 DEF KeyInv, KeyState, ReportMatchesFiles, keyvars, session_vars, InTransfer
<1> QED BY <1>2, <1>3, <1>4 DEF KeyInv, Inv

(* KeyInv is inductive. *)
THEOREM KeyInvariance == KeySpec => []KeyInv
<1>1. KeyInit => KeyInv
  BY KeyInitInv
<1>2. KeyInv /\ [KeyNext]_allvars => KeyInv'
  <2> SUFFICES ASSUME KeyInv, [KeyNext]_allvars PROVE KeyInv'
    OBVIOUS
  <2>1. CASE Connect \/ LoopStep \/ (Outside /\ UNCHANGED keyvars)
    BY <2>1, SessionPart
  <2>2. CASE Transfer /\ build' = build
    BY <2>2, TransferStep
  <2>3. CASE (\E f \in File : getfile(f)) /\ build' = build
    BY <2>3, GetfileStep
  <2>4. CASE Finish /\ build' = build
    BY <2>4, FinishStep
  <2>5. CASE Remote /\ build' = build
    BY <2>5, RemoteStep
  <2>6. CASE UNCHANGED allvars
    <3>1. Inv'
      BY <2>6, Stutter DEF allvars, KeyInv
    <3>2. KeyState'
      BY <2>6 DEF allvars, vars, conn, keyvars, KeyInv, KeyState, ReportMatchesFiles,
                  InTransfer
    <3> QED BY <3>1, <3>2 DEF KeyInv
  <2> QED
    BY <2>1, <2>2, <2>3, <2>4, <2>5, <2>6 DEF KeyNext, Thread, Keys
<1> QED
  BY <1>1, <1>2, PTL DEF KeySpec

(* ReportMatchesFiles for every behaviour: what ios_connect reports of     *)
(* ssh_getkeys is true of what was read, however large the files are and   *)
(* whichever call of libssh2 failed; of what was written it is true unless *)
(* a write was lost, which ssh_getfile does not look at.                   *)
THEOREM ReportIsTrue == KeySpec => []ReportMatchesFiles
<1>1. KeyInv => ReportMatchesFiles
  BY DEF KeyInv, KeyState
<1> QED BY <1>1, KeyInvariance, PTL

(* HandlesLive and NothingLeftOpen for every behaviour with transfers:     *)
(* ssh_getfile's channel, too, belongs to a live session, and nothing of a *)
(* transfer that failed half-way is left when the terminal connects.       *)
THEOREM TransferReleased == KeySpec => [](HandlesLive /\ NothingLeftOpen)
<1>1. KeyInv => HandlesLive /\ NothingLeftOpen
  BY DEF KeyInv, Inv, Handles
<1> QED BY <1>1, KeyInvariance, PTL

(* RedrawPending and OutputShownBeforeEnd for every behaviour with         *)
(* transfers.                                                              *)
THEOREM LoopUndisturbed == KeySpec => [](RedrawPending /\ OutputShownBeforeEnd)
<1>1. KeyInv => RedrawPending /\ OutputShownBeforeEnd
  BY DEF KeyInv, Inv, Pending, Shown, RedrawPending
<1> QED BY <1>1, KeyInvariance, PTL

-----------------------------------------------------------------------------
(* Types.                                                                  *)

(* What has the same type in the loop and in the transfer.                 *)
Handle ==
  /\ session \in BOOLEAN /\ sock \in {"unset", "open", "closed"}
  /\ peer \in {"up", "eof", "lost"}

View ==
  /\ selecting \in BOOLEAN /\ select_disable \in BOOLEAN
  /\ scroll_offset \in 0 .. MaxScroll /\ fade \in 0 .. Fade

Queues ==
  /\ build \in Builds
  /\ inbound \in 0 .. MaxInbound
  /\ events \in Seq(UserEvent) /\ Len(events) <= input
  /\ input \in 0 .. MaxEvents
  /\ sessions \in 0 .. MaxSessions

LoopPc == {"open", "draw", "events", "poll", "close", "done"}
LoopChannel == {"none", "bare", "shell"}

(* The main thread, and the channel it finds there.                        *)
Place ==
  IF InTransfer \/ pc = "undefined" THEN channel \in {"none", "scp"}
  ELSE pc \in LoopPc /\ channel \in LoopChannel

FileValues ==
  /\ got \in {NotOpen} \cup 0 .. FileBlocks
  /\ fid \in {"none", "open", "bad"} /\ (fid = "none" <=> got = NotOpen)
  /\ reported \in {"none", "ok", "fail"}

KeyTypes == Handle /\ View /\ Queues /\ Place /\ FileValues

LEMMA Bounds ==
  /\ MaxInbound \in Nat /\ MaxEvents \in Nat /\ MaxSessions \in Nat
  /\ MaxScroll \in Nat /\ Fade \in Nat /\ FileBlocks \in Nat
  BY SessionAssumption, KeyTransferAssumption

LEMMA KeyInitTypes == KeyInit => KeyTypes
<1> SUFFICES ASSUME KeyInit PROVE KeyTypes
  OBVIOUS
<1> USE DEF KeyInit, Init
<1>1. Handle
  BY DEF Handle
<1>2. View
  <2>1. selecting \in BOOLEAN /\ select_disable \in BOOLEAN
    BY Zenon
  <2>2. scroll_offset \in 0 .. MaxScroll /\ fade \in 0 .. Fade
    BY Bounds
  <2> QED BY <2>1, <2>2 DEF View
<1>3. Queues
  <2>1. <<>> \in Seq(UserEvent) /\ Len(<<>>) = 0
    BY EmptySeq
  <2> QED BY <2>1, Bounds DEF Queues
<1>4. Place
  BY DEF Place, LoopPc, LoopChannel, InTransfer, File
<1>5. FileValues
  BY DEF FileValues
<1> QED BY <1>1, <1>2, <1>3, <1>4, <1>5 DEF KeyTypes

(* The event at the head of the queue, with what it does to the view.      *)
LEMMA EventTypes ==
  ASSUME KeyTypes, sdl_read_thread, build' = build
  PROVE  Handle' /\ View' /\ Queues' /\ Place'
<1> USE DEF KeyTypes
<1>1. pc = "events" /\ pc' = "events" /\ channel \in LoopChannel
  BY DEF sdl_read_thread, Place, InTransfer, File
<1>2. events # <<>> /\ events' = Tail(events) /\ UNCHANGED <<peer, inbound, input, sessions>>
  BY DEF sdl_read_thread
<1>3. Queues'
  <2>1. Tail(events) \in Seq(UserEvent) /\ Len(Tail(events)) = Len(events) - 1
    BY <1>2, HeadTailProperties DEF Queues
  <2>2. UserEvent' = UserEvent
    BY DEF UserEvent
  <2>3. Len(events) \in Nat /\ MaxEvents \in Nat
    BY Bounds, LenProperties DEF Queues
  <2> QED BY <1>2, <2>1, <2>2, <2>3 DEF Queues
<1>4. UNCHANGED conn \/ ssh_close
  BY DEF sdl_read_thread, ScrollEvent, SelectEvent, FingerEvent, DisabledEvent, KeyEvent,
         ResizeEvent, QuitEvent, CloseEvent
<1>5. Handle' /\ channel' \in LoopChannel
  BY <1>1, <1>2, <1>4 DEF Handle, conn, ssh_close, LoopChannel
<1>6. View'
  <2>1. MaxScroll \in Nat /\ Fade \in Nat
    BY Bounds
  <2>2. ScrollEvent => View'
    BY <2>1 DEF ScrollEvent, View
  <2>3. SelectEvent => View'
    <3>1. SelectEvent =>
            /\ selecting' = TRUE \/ selecting' = FALSE \/ selecting' = selecting
            /\ fade' \in {0, Fade, fade} /\ UNCHANGED <<scroll_offset, select_disable>>
      BY DEF SelectEvent
    <3>2. SelectEvent => selecting' \in BOOLEAN
      BY <3>1, Zenon DEF View
    <3> QED BY <2>1, <3>1, <3>2 DEF View
  <2>4. ASSUME Deselects, UNCHANGED <<fade, select_disable>>, scroll_offset' \in {0, scroll_offset}
        PROVE  View'
    <3>1. selecting' \in BOOLEAN
      BY <2>4 DEF Deselects
    <3> QED BY <2>1, <2>4, <3>1 DEF View
  <2>5. DisabledEvent \/ KeyEvent \/ ResizeEvent \/ CloseEvent => View'
    BY <2>4 DEF DisabledEvent, KeyEvent, ResizeEvent, CloseEvent
  <2>6. FingerEvent \/ QuitEvent => View'
    BY DEF FingerEvent, QuitEvent, View, view
  <2> QED BY <2>2, <2>3, <2>5, <2>6 DEF sdl_read_thread
<1>7. Place'
  BY <1>1, <1>5 DEF Place, InTransfer, File, LoopPc
<1> QED BY <1>3, <1>5, <1>6, <1>7

LEMMA SessionTypes ==
  ASSUME KeyTypes, Open \/ Loop \/ Outside, build' = build
  PROVE  Handle' /\ View' /\ Queues' /\ Place'
<1> USE DEF KeyTypes
<1>1. ~InTransfer /\ ~InTransfer'
  BY SessionStays
<1>2. pc \in LoopPc /\ channel \in LoopChannel
  BY <1>1 DEF Place, Open, Loop, Outside, console_read_init, Draw, sdl_read_thread,
              EventsHandled, console_poll, Close, Host, User, InLoop
<1>3. CASE Open
  <2>1. Handle' /\ pc' \in LoopPc /\ channel' \in LoopChannel
    BY <1>2, <1>3 DEF Open, console_read_init, ssh_open, ssh_open_preshell, local_open, conn,
                      Handle, LoopPc, LoopChannel
  <2>2. View'
    BY <1>3 DEF Open, console_read_init, view, View
  <2>3. Queues'
    <3>1. sessions' = sessions + 1 /\ sessions < MaxSessions /\ inbound' = 0
          /\ UNCHANGED <<events, input, build>>
      BY <1>3 DEF Open, console_read_init
    <3>2. UserEvent' = UserEvent
      BY <3>1 DEF UserEvent
    <3> QED BY <3>1, <3>2, Bounds DEF Queues
  <2> QED BY <1>1, <2>1, <2>2, <2>3 DEF Place, LoopPc
<1>4. CASE Draw
  <2>1. /\ pc' \in LoopPc /\ channel' = channel
        /\ fade' = fade \/ fade' = (IF fade > 0 THEN fade - 1 ELSE 0)
        /\ UNCHANGED <<session, sock, peer, inbound, scroll_offset, selecting,
                       select_disable, events, input, sessions>>
    BY <1>4 DEF Draw, redraw_selection, conn, LoopPc
  <2>2. UserEvent' = UserEvent
    BY DEF UserEvent
  <2> QED BY <1>1, <1>2, <2>1, <2>2, Bounds DEF Place, LoopPc, Handle, View, Queues
<1>5. CASE sdl_read_thread
  BY <1>5, EventTypes
<1>6. CASE EventsHandled
  <2>1. pc' \in LoopPc /\ UNCHANGED <<conn, peer, inbound, view, events, input, sessions>>
    BY <1>6 DEF EventsHandled, LoopPc
  <2>2. UserEvent' = UserEvent
    BY DEF UserEvent
  <2> QED BY <1>1, <1>2, <2>1, <2>2 DEF conn, view, Place, LoopPc, Handle, View, Queues
<1>7. CASE console_poll
  <2>1. pc' \in LoopPc /\ UNCHANGED <<peer, view, events, input, sessions>>
    BY <1>7 DEF console_poll, LoopPc
  <2>2. UNCHANGED conn \/ ssh_close
    BY <1>7 DEF console_poll, GotOutput, NothingYet, ReadEnds
  <2>3. inbound' \in 0 .. MaxInbound
    BY <1>7, Bounds DEF console_poll, GotOutput, NothingYet, ReadEnds, Queues
  <2>4. UserEvent' = UserEvent
    BY DEF UserEvent
  <2> QED
    BY <1>1, <1>2, <2>1, <2>2, <2>3, <2>4
       DEF conn, view, ssh_close, Place, LoopPc, LoopChannel, Handle, View, Queues
<1>8. CASE Close
  <2>1. /\ pc' \in LoopPc /\ ssh_close /\ events' = <<>>
        /\ UNCHANGED <<peer, inbound, view, input, sessions>>
    BY <1>8 DEF Close, LoopPc
  <2>2. <<>> \in Seq(UserEvent') /\ Len(<<>>) = 0
    BY EmptySeq
  <2>3. Queues'
    BY <2>1, <2>2 DEF Queues
  <2> QED
    BY <1>1, <2>1, <2>3 DEF view, ssh_close, Place, LoopPc, LoopChannel, Handle, View
<1>9. CASE Outside
  <2>1. UNCHANGED <<pc, conn, view, sessions>>
    BY <1>9 DEF Outside, Host, User
  <2>2. UserEvent' = UserEvent
    BY DEF UserEvent
  <2>3. CASE Host
    BY <1>2, <2>1, <2>2, <2>3, Bounds DEF Host, conn, view, Place, Handle, View, Queues, InTransfer
  <2>4. CASE User
    <3>1. PICK e \in UserEvent : events' = Append(events, e)
      BY <2>4 DEF User
    <3>2. Append(events, e) \in Seq(UserEvent) /\ Len(Append(events, e)) = Len(events) + 1
      BY AppendProperties DEF Queues
    <3>3. Queues'
      BY <2>1, <2>2, <2>4, <3>1, <3>2, Bounds, LenProperties DEF User, Queues
    <3> QED BY <1>2, <2>1, <2>4, <3>3 DEF User, conn, view, Place, Handle, View, InTransfer
  <2> QED BY <1>9, <2>3, <2>4 DEF Outside
<1> QED BY <1>3, <1>4, <1>5, <1>6, <1>7, <1>8, <1>9 DEF Loop

(* What a step of the transfer leaves to be shown.                         *)
LEMMA TransferTypes ==
  ASSUME KeyInv, KeyTypes, build' = build,
         Transfer \/ (\E f \in File : getfile(f)) \/ Finish \/ Remote
  PROVE  KeyTypes'
<1> USE DEF KeyTypes
<1>1. UNCHANGED session_vars
  BY GetfileCases, ReadsChange DEF Transfer, Refused, Accepted, Undefined, ReadFails, Complete,
         Returns, Finish, Remote
<1>2. View' /\ Queues'
  BY <1>1 DEF session_vars, view, View, Queues, UserEvent
<1>3. CASE Transfer
  <2>1. channel = "none"
    BY <1>3 DEF Transfer, KeyInv, Inv, Handles, NothingLeftOpen
  <2> QED
    BY <1>2, <1>3, <2>1 DEF Transfer, ssh_open_preshell, conn, Handle, Place, FileValues,
                            InTransfer, File
<1>4. ASSUME NEW f \in File, getfile(f)
      PROVE  KeyTypes'
  <2>1. pc = f /\ InTransfer /\ channel \in {"none", "scp"}
    BY <1>4, GetfileCases, ReadsChange DEF Refused, Accepted, Undefined, ReadFails, Complete,
                Place, InTransfer
  <2>2. pc' \in File \cup {"report", "undefined"}
    BY <1>4, <2>1, GetfileCases, ReadsChange DEF Refused, Accepted, Undefined, ReadFails, Complete,
                      Returns, Next1, File
  <2>3. /\ channel' \in {"none", "scp", channel} /\ peer' \in {"up", peer}
        /\ \/ got' \in {NotOpen, 0, got}
           \/ got \in 0 .. FileBlocks - 1 /\ \E n \in 1 .. FileBlocks - got : got' = got + n
        /\ UNCHANGED <<session, sock, reported>>
    <3>1. CASE Refused(f) \/ Accepted(f) \/ Undefined(f) \/ ReadFails(f) \/ Complete(f)
      BY <3>1 DEF Refused, Accepted, Undefined, ReadFails, Complete, Returns, conn, keyvars
    <3>2. CASE Reads(f)
      <4>1. \/ got' = got
            \/ got \in 0 .. FileBlocks - 1 /\ \E n \in 1 .. FileBlocks - got : got' = got + n
        BY <3>2 DEF Reads, ReadBlock, EmptyRead, BadFile, allvars, keyvars
      <4> QED BY <3>2, <4>1, ReadsChange
    <3> QED BY <1>4, <3>1, <3>2, GetfileCases
  <2>4. Place'
    BY <2>1, <2>2, <2>3 DEF Place, InTransfer
  <2>5. Handle'
    BY <2>3 DEF Handle
  <2>6. fid' \in {"none", "open", "bad"} /\ (fid' = "none" <=> got' = NotOpen)
    <3>1. fid \in {"none", "open", "bad"} /\ (fid = "none" <=> got = NotOpen)
      BY DEF FileValues
    <3>2. CASE Refused(f) \/ Accepted(f) \/ Undefined(f) \/ ReadFails(f) \/ Complete(f)
      BY <3>1, <3>2 DEF Refused, Accepted, Undefined, ReadFails, Complete, Returns, keyvars, NotOpen
    <3>3. CASE Reads(f)
      <4>1. fid' = fid /\ (got' = got \/ (fid = "open" /\ got' \in 1 .. FileBlocks))
        BY <3>3, Bounds DEF Reads, ReadBlock, EmptyRead, BadFile, allvars, keyvars
      <4> QED BY <3>1, <4>1 DEF NotOpen
    <3> QED BY <1>4, <3>2, <3>3, GetfileCases
  <2>7. FileValues'
    BY <2>3, <2>6, Bounds DEF FileValues, NotOpen
  <2> QED BY <1>2, <2>4, <2>5, <2>7
<1>5. CASE Finish
  BY <1>2, <1>5 DEF Finish, ssh_close, Report, Handle, Place, FileValues, LoopPc, LoopChannel,
                    InTransfer, File
<1>6. CASE Remote
  BY <1>2, <1>6 DEF Remote, conn, keyvars, Handle, Place, FileValues, InTransfer
<1> QED BY <1>3, <1>4, <1>5, <1>6

(* The types are inductive. *)
THEOREM KeyTypesInvariance == KeySpec => []KeyTypes
<1>1. KeyInit => KeyTypes
  BY KeyInitTypes
<1>2. KeyInv /\ KeyTypes /\ [KeyNext]_allvars => KeyTypes'
  <2> SUFFICES ASSUME KeyInv, KeyTypes, [KeyNext]_allvars PROVE KeyTypes'
    OBVIOUS
  <2>1. CASE Connect \/ LoopStep \/ (Outside /\ UNCHANGED keyvars)
    <3>1. (Open \/ Loop \/ Outside) /\ build' = build
      BY <2>1 DEF Connect, LoopStep, Open, Loop, Outside
    <3>2. FileValues'
      BY <2>1 DEF Connect, LoopStep, keyvars, KeyTypes, FileValues
    <3> QED BY <3>1, <3>2, SessionTypes DEF KeyTypes
  <2>2. CASE build' = build /\ (Transfer \/ (\E f \in File : getfile(f)) \/ Finish \/ Remote)
    BY <2>2, TransferTypes
  <2>3. CASE UNCHANGED allvars
    BY <2>3 DEF allvars, vars, conn, view, drawing, keyvars, KeyTypes, Handle, View, Queues, Place,
                FileValues, InTransfer, UserEvent
  <2> QED
    BY <2>1, <2>2, <2>3 DEF KeyNext, Thread, Keys
<1> QED
  BY <1>1, <1>2, KeyInvariance, PTL DEF KeySpec

(* KeyTypeOK for every behaviour: the terminal finds the channel of no     *)
(* transfer, SDL's queue never holds more than the user's events, and the  *)
(* blocks read are at most those of the file (ssh_getfile,                 *)
(* sdl_read_thread, scroll_offset of process_mouse_event).                 *)
THEOREM KeyTypesHold == KeySpec => []KeyTypeOK
<1>1. KeyInv /\ KeyTypes => KeyTypeOK
  <2> SUFFICES ASSUME KeyInv, KeyTypes PROVE KeyTypeOK
    OBVIOUS
  <2>1. Range(events) \subseteq UserEvent
    BY LenProperties, ElementOfSeq DEF KeyTypes, Queues, Range
  <2>2. ~(InTransfer \/ pc = "undefined") => TypeOK
    BY <2>1, Bounds DEF KeyInv, Inv, Flags, KeyTypes, Handle, View, Queues, Place, LoopPc,
                        LoopChannel, TypeOK
  <2> QED
    BY <2>2 DEF KeyTypeOK, KeyTypes, Place, FileValues, KeyInv, KeyState, FileState, Code
<1> QED
  BY <1>1, KeyInvariance, KeyTypesInvariance, PTL
-----------------------------------------------------------------------------
(* Progress: what liveness rests on, beside the fairness of the main       *)
(* thread.  A natural number, or a pair of them, gets smaller with every   *)
(* step of the main thread, and the host and the user cannot make it       *)
(* larger.                                                                 *)

(* The steps a transfer still takes at most: the calls of the file being   *)
(* copied (one that opens it, one for each piece, one that closes it),     *)
(* those of the file after it, and the report.                             *)
CallsLeft ==
  CASE pc = "priv" -> (FileBlocks + 1 - got) + (FileBlocks + 2) + 1
    [] pc = "pub" -> (FileBlocks + 1 - got) + 1
    [] OTHER -> 1

TransferMovesOn ==
  InTransfer => /\ ~InTransfer' \/ CallsLeft' <= CallsLeft
                /\ Keys => \/ ~InTransfer' \/ CallsLeft' < CallsLeft
                           \/ \E f \in File : EmptyRead(f)

LEMMA BlocksRead ==
  ASSUME KeyTypes
  PROVE  FileBlocks \in Nat /\ got \in Int /\ -1 <= got /\ got <= FileBlocks
BY Bounds DEF KeyTypes, FileValues, NotOpen

LEMMA CallsBounded ==
  ASSUME KeyTypes, InTransfer
  PROVE  CallsLeft \in 1 .. 2 * FileBlocks + 5
<1>1. CASE pc = "priv"
  BY <1>1, BlocksRead DEF CallsLeft
<1>2. CASE pc = "pub"
  BY <1>2, BlocksRead DEF CallsLeft
<1>3. CASE pc = "report"
  BY <1>3, BlocksRead DEF CallsLeft
<1> QED BY <1>1, <1>2, <1>3 DEF InTransfer, File

(* A call that returns for a file leaves at most those of the next one.    *)
LEMMA ReturnsMoveOn ==
  ASSUME KeyTypes, NEW f \in File, pc = f, NEW code, Returns(f, code)
  PROVE  CallsLeft' < CallsLeft
<1>1. got' = -1
  BY DEF Returns, NotOpen
<1>2. CASE f = "priv"
  <2>1. pc' = "pub"
    BY <1>2 DEF Returns, Next1
  <2> QED BY <1>1, <1>2, <2>1, BlocksRead DEF CallsLeft
<1>3. CASE f = "pub"
  <2>1. pc' = "report"
    BY <1>3 DEF Returns, Next1
  <2> QED BY <1>1, <1>3, <2>1, BlocksRead DEF CallsLeft
<1> QED BY <1>2, <1>3 DEF File

LEMMA GetfileMovesOn ==
  ASSUME KeyTypes, NEW f \in File, getfile(f)
  PROVE  ~InTransfer' \/ CallsLeft' < CallsLeft \/ EmptyRead(f)
<1>1. pc = f
  BY GetfileCases, ReadsChange DEF Refused, Accepted, Undefined, ReadFails, Complete
<1>2. CASE \E code : Returns(f, code)
  BY <1>1, <1>2, ReturnsMoveOn
<1>3. CASE Undefined(f)
  BY <1>3 DEF Undefined, InTransfer, File
<1>4. CASE Accepted(f) \/ ReadBlock(f)
  <2>1. PICK n \in Nat \ {0} : got' = got + n /\ pc' = f
    <3>1. CASE Accepted(f)
      <4>1. got' = got + 1 /\ pc' = f
        BY <1>1, <3>1 DEF Accepted, NotOpen
      <4> QED BY <4>1
    <3>2. CASE ReadBlock(f)
      BY <1>1, <3>2, BlocksRead DEF ReadBlock
    <3> QED BY <1>4, <3>1, <3>2
  <2> QED BY <1>1, <2>1, BlocksRead DEF CallsLeft, File
<1>5. CASE BadFile(f)
  BY <1>5 DEF BadFile, InTransfer, File
<1> QED BY <1>2, <1>3, <1>4, <1>5 DEF getfile, Refused, ReadFails, Complete

(* A transfer runs out: every call of libssh2 that brings ssh_getkeys      *)
(* something, or fails, brings it nearer to its end, so that it takes at   *)
(* most 2 * FileBlocks + 5 of those, and the remote side cannot set it     *)
(* back.  Only a read that brings nothing does not: it comes when the      *)
(* remote side has ended the file early, and then for ever (ssh_getfile,   *)
(* ssh_getkeys, ios_connect).                                              *)
THEOREM TransferRunsOut ==
  KeySpec => /\ [](InTransfer => CallsLeft \in 1 .. 2 * FileBlocks + 5)
             /\ [][TransferMovesOn]_allvars
<1>1. KeyTypes => (InTransfer => CallsLeft \in 1 .. 2 * FileBlocks + 5)
  BY CallsBounded
<1>2. KeyTypes /\ KeyTypes' /\ [KeyNext]_allvars => [TransferMovesOn]_allvars
  <2> SUFFICES ASSUME KeyTypes, KeyTypes', KeyNext, InTransfer, InTransfer'
               PROVE  /\ CallsLeft' <= CallsLeft
                      /\ Keys => CallsLeft' < CallsLeft \/ \E f \in File : EmptyRead(f)
    BY DEF TransferMovesOn
  <2>1. CallsLeft \in Int /\ CallsLeft' \in Int
    <3>1. got \in Int /\ got' \in Int /\ FileBlocks \in Int
      BY Bounds DEF KeyTypes, FileValues, NotOpen
    <3> QED BY <3>1 DEF CallsLeft
  <2>2. CASE Keys
    <3>1. ~Finish
      BY DEF Finish, InTransfer, File
    <3>2. PICK f \in File : getfile(f)
      BY <2>2, <3>1 DEF Keys
    <3>3. CallsLeft' < CallsLeft \/ EmptyRead(f)
      BY <3>2, GetfileMovesOn
    <3>4. CASE EmptyRead(f)
      <4>1. UNCHANGED <<pc, got>>
        BY <3>4 DEF EmptyRead, allvars, vars, keyvars
      <4>2. CallsLeft' = CallsLeft
        BY <4>1 DEF CallsLeft
      <4> QED BY <2>1, <3>4, <4>2
    <3> QED BY <2>1, <3>3, <3>4
  <2>3. CASE ~Keys
    <3>1. ~(Open \/ Loop \/ Outside)
      BY SessionStays
    <3>2. ~Transfer
      BY DEF Transfer, InTransfer, File
    <3>3. Remote
      BY <2>3, <3>1, <3>2 DEF KeyNext, Thread, Connect, LoopStep
    <3>4. UNCHANGED <<pc, got>>
      BY <3>3 DEF Remote, keyvars
    <3>5. CallsLeft' = CallsLeft
      BY <3>4 DEF CallsLeft
    <3> QED BY <2>1, <2>3, <3>5
  <2> QED BY <2>2, <2>3
<1> QED BY <1>1, <1>2, KeyTypesInvariance, PTL DEF KeySpec

(* The user's events that are still to be handled or still to come.        *)
Coming == (MaxEvents - input) + Len(events)

LEMMA Counted ==
  ASSUME KeyTypes
  PROVE  /\ Coming \in Nat /\ Coming <= MaxEvents
         /\ Len(events) \in Nat /\ input \in Nat /\ MaxEvents \in Nat
         /\ inbound \in Nat /\ inbound <= MaxInbound /\ MaxInbound \in Nat
         /\ fade \in Nat
<1>1. Len(events) \in Nat /\ Len(events) <= input /\ input \in 0 .. MaxEvents
  BY LenProperties DEF KeyTypes, Queues
<1>2. inbound \in 0 .. MaxInbound /\ fade \in 0 .. Fade
  BY DEF KeyTypes, Queues, View
<1> QED BY <1>1, <1>2, Bounds DEF Coming

LEMMA EventCounts == ASSUME KeyTypes, sdl_read_thread PROVE Coming' = Coming - 1
<1>1. input' = input /\ events' = Tail(events) /\ events # <<>>
  BY DEF sdl_read_thread
<1>2. Len(Tail(events)) = Len(events) - 1
  BY <1>1, HeadTailProperties DEF KeyTypes, Queues
<1> QED BY <1>1, <1>2, Counted DEF Coming

LEMMA UserCounts == ASSUME KeyTypes, User PROVE Coming' = Coming
<1>1. PICK e \in UserEvent : events' = Append(events, e)
  BY DEF User
<1>2. Len(Append(events, e)) = Len(events) + 1
  BY AppendProperties DEF KeyTypes, Queues
<1>3. input' = input + 1
  BY DEF User
<1> QED BY <1>1, <1>2, <1>3, Counted, SMTT(40) DEF Coming

(* What a step in the loop can be.                                         *)
LEMMA StepInLoop ==
  ASSUME KeyNext, InLoop
  PROVE  Draw \/ sdl_read_thread \/ EventsHandled \/ console_poll \/ Host \/ User
<1>1. ~Open /\ ~Close
  BY DEF Open, console_read_init, Close, InLoop
<1>2. ~Transfer /\ ~Remote /\ ~Keys
  BY DEF Transfer, Remote, Keys, getfile, Refused, Accepted, Undefined, ReadBlock, EmptyRead,
         BadFile, ReadFails, Complete, Finish, InLoop, File
<1> QED BY <1>1, <1>2 DEF KeyNext, Connect, Thread, LoopStep, Loop, Outside

LEMMA NotOutside == ASSUME LoopStep, InLoop PROVE Draw \/ sdl_read_thread \/ EventsHandled \/ console_poll
BY DEF LoopStep, Loop, Close, InLoop

(* The session is to end.  Before it does the main thread goes through the *)
(* stages of the turn it is in, handles the events there are, and takes a  *)
(* turn of three stages for every chunk that is still to be read.          *)
Ending == InLoop /\ (peer # "up" \/ hterm_quit)
StagesLeft == CASE pc = "draw" -> 2 [] pc = "events" -> 1 [] OTHER -> 0
Unread == IF hterm_quit THEN 0 ELSE 3 * inbound
EndLeft == StagesLeft + Coming + Unread

EndComes ==
  Ending => /\ pc' = "close" \/ (Ending' /\ EndLeft' <= EndLeft)
            /\ LoopStep => pc' = "close" \/ EndLeft' < EndLeft

LEMMA EndBounded ==
  ASSUME KeyTypes PROVE EndLeft \in 0 .. MaxEvents + 3 * MaxInbound + 2
<1>1. StagesLeft \in 0 .. 2
  BY DEF StagesLeft
<1>2. Unread \in 0 .. 3 * MaxInbound
  BY Counted DEF Unread
<1> HIDE DEF StagesLeft, Unread
<1> QED BY <1>1, <1>2, Counted, SMTT(40) DEF EndLeft

LEMMA Summed ==
  ASSUME NEW a \in Int, NEW b \in Int, NEW c \in Int, NEW d \in Int, NEW e \in Int, NEW f \in Int,
         a <= d, b <= e, c <= f
  PROVE  /\ a + b + c <= d + e + f
         /\ a < d \/ b < e \/ c < f => a + b + c < d + e + f
OBVIOUS

LEMMA ChunkRead ==
  ASSUME NEW c \in Nat, NEW m \in Nat, NEW n \in Nat, n < m
  PROVE  2 + c + 3 * n \in Int /\ 2 + c + 3 * n < c + 3 * m
OBVIOUS

(* A stage, or an event, that leaves the other numbers alone.              *)
LEMMA StageEnds ==
  ASSUME KeyTypes, KeyInv, Ending, Draw \/ sdl_read_thread \/ EventsHandled
  PROVE  Ending' /\ EndLeft' \in Int /\ EndLeft' < EndLeft
<1>1. /\ Coming \in Int /\ StagesLeft \in Int /\ Unread \in Int /\ inbound \in Nat
      /\ hterm_quit \in BOOLEAN
  BY Counted DEF StagesLeft, Unread, KeyInv, Inv, Flags
<1>2. /\ peer' = peer /\ inbound' = inbound
      /\ hterm_quit' = hterm_quit \/ hterm_quit' = TRUE
  BY DEF Draw, EventsHandled, sdl_read_thread, ScrollEvent, SelectEvent, FingerEvent,
         DisabledEvent, KeyEvent, ResizeEvent, QuitEvent, CloseEvent
<1>3. Unread' \in Int /\ Unread' <= Unread
  BY <1>1, <1>2 DEF Unread
<1>4. (peer' # "up" \/ hterm_quit')
  BY <1>2 DEF Ending
<1>5. /\ InLoop' /\ Coming' \in Int /\ StagesLeft' \in Int
      /\ Coming' <= Coming /\ StagesLeft' <= StagesLeft
      /\ Coming' < Coming \/ StagesLeft' < StagesLeft
  <2>1. CASE Draw
    <3>1. pc = "draw" /\ pc' = "events" /\ Coming' = Coming
      BY <2>1 DEF Draw, Coming
    <3> QED BY <1>1, <3>1 DEF StagesLeft, InLoop
  <2>2. CASE sdl_read_thread
    <3>1. pc = "events" /\ pc' = "events" /\ Coming' = Coming - 1
      BY <2>2, EventCounts DEF sdl_read_thread
    <3> QED BY <1>1, <3>1 DEF StagesLeft, InLoop
  <2>3. CASE EventsHandled
    <3>1. pc = "events" /\ pc' = "poll" /\ Coming' = Coming
      BY <2>3 DEF EventsHandled, Coming
    <3> QED BY <1>1, <3>1 DEF StagesLeft, InLoop
  <2> QED BY <2>1, <2>2, <2>3
<1> HIDE DEF StagesLeft, Unread, Coming
<1>6. EndLeft' < EndLeft
  BY <1>1, <1>3, <1>5, Summed DEF EndLeft
<1>7. EndLeft' \in Int
  BY <1>3, <1>5 DEF EndLeft
<1> QED BY <1>4, <1>5, <1>6, <1>7 DEF Ending

(* A read takes a chunk, or ends the loop.                                 *)
LEMMA ReadEndsLoop ==
  ASSUME KeyTypes, KeyInv, Ending, console_poll
  PROVE  pc' = "close" \/ (Ending' /\ EndLeft' \in Int /\ EndLeft' < EndLeft)
<1>1. /\ Coming \in Nat /\ inbound \in Nat /\ pc = "poll" /\ peer' = peer /\ Coming' = Coming
      /\ pc' = IF hterm_quit' THEN "close" ELSE "draw"
  BY Counted DEF console_poll, Coming
<1>2. CASE hterm_quit'
  BY <1>1, <1>2
<1>3. CASE ~hterm_quit'
  <2>1. ~ReadEnds
    BY <1>3 DEF ReadEnds
  <2>2. ~NothingYet
    BY <1>3 DEF NothingYet, Ending
  <2>3. GotOutput
    BY <2>1, <2>2 DEF console_poll
  <2>4. inbound' \in Nat /\ inbound' < inbound /\ ~hterm_quit
    BY <1>1, <1>3, <2>3 DEF GotOutput
  <2>5. Ending'
    BY <1>1, <1>3, <2>4 DEF Ending, InLoop
  <2>6. StagesLeft = 0 /\ StagesLeft' = 2
    BY <1>1, <1>3 DEF StagesLeft
  <2>7. Unread = 3 * inbound /\ Unread' = 3 * inbound'
    BY <1>3, <2>4 DEF Unread
  <2> HIDE DEF StagesLeft, Unread, Coming
  <2>8. EndLeft = Coming + 3 * inbound /\ EndLeft' = 2 + Coming + 3 * inbound'
    BY <1>1, <2>4, <2>6, <2>7 DEF EndLeft
  <2>9. EndLeft' \in Int /\ EndLeft' < EndLeft
    <3>1. Coming \in Nat /\ inbound \in Nat
      BY <1>1
    <3> QED BY <2>4, <2>8, <3>1, ChunkRead
  <2> QED BY <2>5, <2>9
<1> QED BY <1>2, <1>3

LEMMA OutsideEnds ==
  ASSUME KeyTypes, KeyInv, Ending, Host \/ User
  PROVE  Ending' /\ EndLeft' = EndLeft
<1>1. pc' = pc /\ hterm_quit' = hterm_quit
  BY DEF Host, User
<1>2. Coming' = Coming
  BY UserCounts DEF Host, Coming
<1>3. StagesLeft' = StagesLeft
  BY <1>1 DEF StagesLeft
<1>4. CASE Host
  <2>1. hterm_quit /\ hterm_quit'
    BY <1>1, <1>4 DEF Host, Ending
  <2>2. Unread' = Unread
    BY <2>1 DEF Unread
  <2> QED BY <1>1, <1>2, <1>3, <2>1, <2>2 DEF Ending, InLoop, EndLeft
<1>5. CASE User
  <2>1. peer' = peer /\ inbound' = inbound
    BY <1>5 DEF User
  <2>2. Unread' = Unread
    BY <1>1, <2>1 DEF Unread
  <2> QED BY <1>1, <1>2, <1>3, <2>1, <2>2 DEF Ending, InLoop, EndLeft
<1> QED BY <1>4, <1>5

(* A session that is to end runs out: after the host has hung up or the    *)
(* user has quit, every stage of sdl_render_thread brings the end nearer,  *)
(* the main thread takes at most MaxEvents + 3 * MaxInbound + 2 of them,   *)
(* and neither the host nor the user can put it off (console_poll,         *)
(* sdl_read_thread, the loop of sdl_render_thread).                        *)
THEOREM SessionRunsOut ==
  KeySpec => /\ [](EndLeft \in 0 .. MaxEvents + 3 * MaxInbound + 2)
             /\ [][EndComes]_allvars
<1>1. KeyTypes => EndLeft \in 0 .. MaxEvents + 3 * MaxInbound + 2
  BY EndBounded
<1>2. KeyTypes /\ KeyTypes' /\ KeyInv /\ [KeyNext]_allvars => [EndComes]_allvars
  <2> SUFFICES ASSUME KeyTypes, KeyTypes', KeyInv, KeyNext, Ending
               PROVE  /\ pc' = "close" \/ (Ending' /\ EndLeft' <= EndLeft)
                      /\ LoopStep => pc' = "close" \/ EndLeft' < EndLeft
    BY DEF EndComes
  <2>1. EndLeft \in Int
    BY EndBounded, Bounds
  <2>2. CASE Draw \/ sdl_read_thread \/ EventsHandled
    BY <2>1, <2>2, StageEnds
  <2>3. CASE console_poll
    BY <2>1, <2>3, ReadEndsLoop
  <2>4. CASE ~LoopStep /\ (Host \/ User)
    BY <2>1, <2>4, OutsideEnds
  <2> QED BY <2>2, <2>3, <2>4, StepInLoop, NotOutside DEF Ending
<1> QED BY <1>1, <1>2, KeyTypesInvariance, KeyInvariance, PTL DEF KeySpec

(* A redraw is due.  Before the window shows the change the user's events  *)
(* may make more of them; when they do not, the loop goes through its      *)
(* three stages once for each frame a selection box still fades over, and  *)
(* up to the next drawing.                                                 *)
Waiting == InLoop /\ stale /\ ~missed
DrawIn == CASE pc = "draw" -> 0 [] pc = "events" -> 2 [] OTHER -> 1
Frames == 3 * fade + DrawIn

Sooner == Coming' < Coming \/ (Coming' = Coming /\ Frames' < Frames)

DrawComes ==
  Waiting =>
    /\ \/ ~InLoop' \/ ~stale'
       \/ Waiting' /\ (Sooner \/ (Coming' = Coming /\ Frames' = Frames))
    /\ LoopStep => ~InLoop' \/ ~stale' \/ Sooner

(* Drawing shows everything, or the next frame of the fading box is due.   *)
LEMMA DrawShows ==
  ASSUME KeyTypes, KeyInv, Waiting, Draw
  PROVE  ~stale' \/ (Waiting' /\ Sooner)
<1>1. pc = "draw" /\ pc' = "events" /\ Coming' = Coming /\ redraw_req
  BY DEF Draw, Coming, Waiting, KeyInv, Inv, Pending
<1>2. stale' = (fade > 0) /\ ~missed' /\ fade' = (IF fade > 0 THEN fade - 1 ELSE 0)
  BY <1>1 DEF Draw, redraw_selection
<1>3. CASE fade > 0
  <2>1. stale' /\ fade' = fade - 1 /\ fade \in Nat
    BY <1>2, <1>3, Counted
  <2>2. Waiting'
    BY <1>1, <1>2, <2>1 DEF Waiting, InLoop
  <2>3. DrawIn = 0 /\ DrawIn' = 2
    BY <1>1 DEF DrawIn
  <2>4. Frames' < Frames
    BY <2>1, <2>3 DEF Frames
  <2> QED BY <1>1, <2>2, <2>4 DEF Sooner
<1>4. CASE ~(fade > 0)
  BY <1>2, <1>4
<1> QED BY <1>3, <1>4

(* No event withdraws the redraw.                                          *)
LEMMA EventKeepsRedraw ==
  ASSUME KeyTypes, KeyInv, Waiting, sdl_read_thread
  PROVE  Waiting' /\ Sooner
<1>1. pc' = "events" /\ Coming' = Coming - 1 /\ Coming \in Nat
  BY EventCounts, Counted DEF sdl_read_thread
<1>2. stale = TRUE /\ missed = FALSE /\ redraw_req = TRUE
  BY DEF Waiting, KeyInv, Inv, Flags, Pending
<1>3. \/ redraw_required \/ UNCHANGED drawing
      \/ \E b : Silently(b)
  BY DEF sdl_read_thread, ScrollEvent, SelectEvent, FingerEvent, DisabledEvent, KeyEvent,
         ResizeEvent, QuitEvent, CloseEvent
<1>4. stale' /\ ~missed'
  <2>1. CASE redraw_required
    BY <1>2, <2>1 DEF redraw_required
  <2>2. CASE UNCHANGED drawing
    BY <1>2, <2>2 DEF drawing
  <2>3. ASSUME NEW b, Silently(b) PROVE stale' /\ ~missed'
    BY <1>2, <2>3 DEF Silently
  <2> QED BY <1>3, <2>1, <2>2, <2>3
<1> QED BY <1>1, <1>4 DEF Waiting, InLoop, Sooner

LEMMA StageKeepsRedraw ==
  ASSUME KeyTypes, KeyInv, Waiting, EventsHandled \/ console_poll
  PROVE  ~InLoop' \/ (Waiting' /\ Sooner)
<1>1. /\ Coming' = Coming /\ fade' = fade /\ fade \in Nat
      /\ \/ pc = "events" /\ pc' = "poll"
         \/ pc = "poll" /\ pc' \in {"draw", "close"}
  BY Counted DEF EventsHandled, console_poll, view, Coming
<1>2. stale' /\ ~missed'
  <2>1. stale /\ ~missed
    BY DEF Waiting
  <2>2. CASE UNCHANGED drawing
    BY <2>1, <2>2, Zenon DEF drawing
  <2>3. CASE stale' = TRUE /\ missed' = missed
    BY <2>1, <2>3, Zenon
  <2>4. CASE redraw_required
    BY <2>1, <2>4, Zenon DEF redraw_required
  <2>5. UNCHANGED drawing \/ (stale' = TRUE /\ missed' = missed) \/ redraw_required
    <3>1. CASE EventsHandled
      BY <3>1, Zenon DEF EventsHandled
    <3>2. CASE console_poll
      <4>1. GotOutput \/ NothingYet \/ ReadEnds
        BY <3>2, Zenon DEF console_poll
      <4> QED BY <4>1, Zenon DEF GotOutput, NothingYet, ReadEnds
    <3> QED BY <3>1, <3>2
  <2> QED BY <2>2, <2>3, <2>4, <2>5
<1>3. CASE pc' = "close"
  BY <1>3 DEF InLoop
<1>4. CASE pc' # "close"
  <2>1. Waiting'
    BY <1>1, <1>2, <1>4 DEF Waiting, InLoop
  <2>2. \/ DrawIn = 2 /\ DrawIn' = 1
        \/ DrawIn = 1 /\ DrawIn' = 0
    BY <1>1, <1>4 DEF DrawIn
  <2>3. Frames' < Frames
    BY <1>1, <2>2 DEF Frames
  <2> QED BY <1>1, <2>1, <2>3 DEF Sooner
<1> QED BY <1>3, <1>4

LEMMA OutsideKeepsRedraw ==
  ASSUME KeyTypes, Waiting, Host \/ User
  PROVE  Waiting' /\ Coming' = Coming /\ Frames' = Frames
<1>1. UNCHANGED <<pc, stale, missed, fade>>
  BY DEF Host, User, view, drawing
<1>2. Coming' = Coming
  BY UserCounts DEF Host, Coming
<1>3. Frames' = Frames
  BY <1>1 DEF Frames, DrawIn
<1> QED BY <1>1, <1>2, <1>3 DEF Waiting, InLoop

(* A redraw comes: from the moment it was asked for, every stage of        *)
(* sdl_render_thread brings the drawing nearer that shows the change, and  *)
(* neither the host nor the user can put it off but by the events they     *)
(* send (redraw_required, redraw_selection, the loop of                    *)
(* sdl_render_thread).                                                     *)
THEOREM RedrawComes ==
  KeySpec => [](Coming \in Nat /\ Frames \in Nat) /\ [][DrawComes]_allvars
<1>1. KeyTypes => Coming \in Nat /\ Frames \in Nat
  BY Counted DEF Frames, DrawIn
<1>2. KeyTypes /\ KeyInv /\ [KeyNext]_allvars => [DrawComes]_allvars
  <2> SUFFICES ASSUME KeyTypes, KeyInv, KeyNext, Waiting
               PROVE  /\ \/ ~InLoop' \/ ~stale'
                         \/ Waiting' /\ (Sooner \/ (Coming' = Coming /\ Frames' = Frames))
                      /\ LoopStep => ~InLoop' \/ ~stale' \/ Sooner
    BY DEF DrawComes
  <2>1. CASE Draw
    BY <2>1, DrawShows
  <2>2. CASE sdl_read_thread
    BY <2>2, EventKeepsRedraw
  <2>3. CASE EventsHandled \/ console_poll
    BY <2>3, StageKeepsRedraw
  <2>4. CASE ~LoopStep /\ (Host \/ User)
    BY <2>4, OutsideKeepsRedraw
  <2> QED BY <2>1, <2>2, <2>3, <2>4, StepInLoop, NotOutside DEF Waiting
<1> QED BY <1>1, <1>2, KeyTypesInvariance, KeyInvariance, PTL DEF KeySpec
=============================================================================
