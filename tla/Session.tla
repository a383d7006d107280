------------------------------ MODULE Session ------------------------------
(***************************************************************************)
(* hterm's main loop (main.c) over its connection (ssh.c, local.c): open,  *)
(* then draw when a redraw is required, handle what SDL has queued, read   *)
(* what the host sent, until the connection or the user ends it; then      *)
(* close, and on iOS select the next server.                               *)
(*                                                                         *)
(* All of hterm runs in one thread; what interleaves with it is the host,  *)
(* the network and the user.  One step is one stage of the loop, one event *)
(* of its event loop, or one step of those three.                          *)
(***************************************************************************)
EXTENDS Integers, Sequences, SequencesExt

CONSTANTS
  Builds,        \* the builds: "IOS" (ssh), "LINUX" (a local shell)
  MaxInbound,    \* bound: chunks of output the connection holds
  MaxEvents,     \* bound: events of the user in a behaviour
  MaxSessions,   \* bound: connections made
  MaxScroll,     \* bound: scroll_offset
  Fade           \* draws a selection box fades over (50 in the code)

ASSUME SessionAssumption ==
  /\ Builds \subseteq {"IOS", "LINUX"}
  /\ {MaxInbound, MaxEvents, MaxSessions, MaxScroll, Fade} \subseteq Nat

VARIABLES
  build,                        \* the build that runs; never changes
  pc,                           \* where the main thread is
  channel, session, sock,       \* ssh.c's handles; sock is local.c's fd
  peer, inbound,                \* the host, and its output that is unread
  redraw_req, hterm_quit,
  scroll_offset, selecting, fade,
  select_disable,               \* two fingers are scrolling (iOS)
  events, input,                \* SDL's queue; how many events there were
  sessions,
  stale,                        \* ghost: the window does not show the state
  missed,                       \* ghost: ... and no redraw was required for it
  undrawn,                      \* ghost: output was processed, not yet drawn
  userquit                      \* ghost: the user quit

conn == <<channel, session, sock>>
view == <<scroll_offset, selecting, fade, select_disable>>
drawing == <<redraw_req, stale, missed, undrawn>>
vars == <<build, pc, conn, peer, inbound, hterm_quit, view, events, input, sessions,
          drawing, userquit>>

InLoop == pc \in {"draw", "events", "poll"}

Init ==
  /\ build \in Builds
  /\ pc = "open"
  /\ channel = "none" /\ session = FALSE /\ sock = "unset"
  /\ peer = "up" /\ inbound = 0
  /\ redraw_req = TRUE /\ hterm_quit = FALSE
  /\ scroll_offset = 0 /\ selecting = FALSE /\ fade = 0 /\ select_disable = FALSE
  /\ events = <<>> /\ input = 0 /\ sessions = 0
  /\ stale = TRUE /\ missed = FALSE /\ undrawn = FALSE
  /\ userquit = FALSE

-----------------------------------------------------------------------------
(* What is on the screen changes, with and without a redraw_required().    *)

redraw_required ==
  /\ redraw_req' = TRUE
  /\ stale' = TRUE
  /\ UNCHANGED <<missed, undrawn>>

Silently(changes) ==
  /\ stale' = (stale \/ changes)
  /\ missed' = (missed \/ (changes /\ ~redraw_req))
  /\ UNCHANGED <<redraw_req, undrawn>>

-----------------------------------------------------------------------------
(* The connection.                                                         *)

(* ssh_open: how far it gets.  The handles of an attempt that fails stay   *)
(* as they are, and its result is not looked at (console_read_init).  A    *)
(* channel whose terminal or shell is refused is left in blocking mode.    *)
ssh_open_preshell ==
  \/ UNCHANGED conn                                              \* no address
  \/ sock' = "open" /\ UNCHANGED <<channel, session>>            \* no connection
  \/ sock' = "open" /\ session' = TRUE /\ UNCHANGED channel

ssh_open ==
  \/ ssh_open_preshell                                           \* to -4
  \/ sock' = "open" /\ session' = TRUE /\ channel' = "bare"      \* -3, -5 to -7
  \/ sock' = "open" /\ session' = TRUE /\ channel' = "shell"

local_open == sock' = "open" /\ UNCHANGED <<channel, session>>

(* ssh_close and local_close: the socket is closed whatever its state.     *)
ssh_close_KeepsChannel ==
  /\ session' = FALSE
  /\ sock' = "closed"
  /\ UNCHANGED channel
ssh_close ==
  /\ channel' = "none"
  /\ session' = FALSE
  /\ sock' = "closed"

(* console_read_init: open, and tell the host the size of the window.      *)
console_read_init ==
  /\ pc = "open" /\ sessions < MaxSessions
  /\ IF build = "IOS" THEN ssh_open ELSE local_open
  /\ sessions' = sessions + 1
  /\ peer' = "up" /\ inbound' = 0
  /\ pc' = "draw"
  /\ UNCHANGED <<hterm_quit, view, events, input, drawing, userquit>>

-----------------------------------------------------------------------------
(* The stages of sdl_render_thread.                                        *)

(* A selection box that fades asks, while it is drawn, for the next frame. *)
redraw_selection == fade' = IF fade > 0 THEN fade - 1 ELSE 0

(* redraw_screen, when it is due.                                          *)
Draw_ClearsLast ==
  /\ pc = "draw"
  /\ pc' = "events"
  /\ IF redraw_req
     THEN /\ redraw_req' = FALSE /\ stale' = (fade > 0)
          /\ missed' = FALSE /\ undrawn' = FALSE
          /\ redraw_selection
     ELSE UNCHANGED <<drawing, fade>>
  /\ UNCHANGED <<conn, peer, inbound, hterm_quit, scroll_offset, selecting,
                 select_disable, events, input, sessions, userquit>>
Draw ==
  /\ pc = "draw"
  /\ pc' = "events"
  /\ IF redraw_req
     THEN /\ redraw_req' = (fade > 0) /\ stale' = (fade > 0)
          /\ missed' = FALSE /\ undrawn' = FALSE
          /\ redraw_selection
     ELSE UNCHANGED <<drawing, fade>>
  /\ UNCHANGED <<conn, peer, inbound, hterm_quit, scroll_offset, selecting,
                 select_disable, events, input, sessions, userquit>>

(* process_mouse_event: the wheel, or two fingers, which scroll once they  *)
(* have moved far enough and keep the selection from starting.             *)
ScrollEvent_Unclamped ==
  /\ \/ /\ Head(events) = "scrollup"
        /\ scroll_offset' = IF scroll_offset < MaxScroll THEN scroll_offset + 1 ELSE MaxScroll
        /\ redraw_required
     \/ /\ Head(events) = "scrolldown"
        /\ scroll_offset' = scroll_offset - 1
        /\ redraw_required
     \/ /\ build = "IOS" /\ Head(events) \in {"scrollup", "scrolldown"}
        /\ UNCHANGED <<scroll_offset, drawing>>
  /\ select_disable' = (build = "IOS")
  /\ UNCHANGED <<conn, hterm_quit, selecting, fade, userquit>>
ScrollEvent ==
  /\ \/ /\ Head(events) = "scrollup"
        /\ scroll_offset' = IF scroll_offset < MaxScroll THEN scroll_offset + 1 ELSE MaxScroll
        /\ redraw_required
     \/ /\ Head(events) = "scrolldown"
        /\ scroll_offset' = IF scroll_offset > 0 THEN scroll_offset - 1 ELSE 0
        /\ redraw_required
     \/ /\ build = "IOS" /\ Head(events) \in {"scrollup", "scrolldown"}
        /\ UNCHANGED <<scroll_offset, drawing>>
  /\ select_disable' = (build = "IOS")
  /\ UNCHANGED <<conn, hterm_quit, selecting, fade, userquit>>

(* SDL_MOUSEBUTTONDOWN starts a selection, of which nothing shows yet, and *)
(* ends the fading of the last one; SDL_MOUSEMOTION extends it;            *)
(* SDL_MOUSEBUTTONUP ends it: after a drag, or a second click on a word,   *)
(* the box fades.                                                          *)
SelectEvent ==
  /\ ~select_disable
  /\ \/ /\ Head(events) = "down"
        /\ selecting' = TRUE /\ fade' = 0
        /\ Silently(fade > 0)
     \/ /\ Head(events) = "motion"
        /\ IF selecting THEN redraw_required ELSE UNCHANGED drawing
        /\ UNCHANGED <<selecting, fade>>
     \/ /\ Head(events) = "up"
        /\ selecting' = FALSE /\ fade' \in {0, Fade}
        /\ redraw_required
  /\ UNCHANGED <<conn, hterm_quit, scroll_offset, select_disable, userquit>>

(* A finger on its own (SDL_FINGERMOTION) allows selections again. *)
FingerEvent ==
  /\ Head(events) = "finger"
  /\ select_disable' = FALSE
  /\ UNCHANGED <<conn, hterm_quit, scroll_offset, selecting, fade, drawing,
                 userquit>>

(* Until then every event passes through process_mouse_event's early       *)
(* return, which takes the box of a selection away.                        *)
BoxVanishes == select_disable /\ selecting
Deselects == selecting' = (selecting /\ ~select_disable)

DisabledEvent ==
  /\ select_disable /\ Head(events) \in {"down", "motion", "up"}
  /\ Deselects /\ Silently(BoxVanishes)
  /\ UNCHANGED <<conn, hterm_quit, scroll_offset, fade, select_disable,
                 userquit>>

(* SDL_KEYDOWN returns to the live screen and sends the key. *)
KeyEvent ==
  /\ Head(events) = "key"
  /\ scroll_offset' = 0
  /\ Deselects /\ Silently(scroll_offset > 0 \/ BoxVanishes)
  /\ UNCHANGED <<conn, hterm_quit, fade, select_disable, userquit>>

(* process_resize; a rotation changes the terminal without asking for a    *)
(* redraw.                                                                 *)
ResizeEvent ==
  /\ \/ Head(events) = "resize" /\ redraw_required
     \/ Head(events) = "rotate" /\ Silently(TRUE)
  /\ Deselects
  /\ UNCHANGED <<conn, hterm_quit, scroll_offset, fade, select_disable,
                 userquit>>

(* SDL_QUIT; and the virtual button that closes the connection.            *)
QuitEvent ==
  /\ Head(events) = "quit"
  /\ hterm_quit' = TRUE /\ userquit' = TRUE
  /\ UNCHANGED <<conn, view, drawing>>

CloseEvent ==
  /\ Head(events) = "close"
  /\ ssh_close
  /\ Deselects /\ Silently(BoxVanishes)
  /\ UNCHANGED <<hterm_quit, scroll_offset, fade, select_disable, userquit>>

sdl_read_thread ==
  /\ pc = "events" /\ events # <<>>
  /\ \/ ScrollEvent \/ SelectEvent \/ FingerEvent \/ DisabledEvent
     \/ KeyEvent \/ ResizeEvent \/ QuitEvent \/ CloseEvent
  /\ events' = Tail(events)
  /\ UNCHANGED <<pc, peer, inbound, input, sessions>>

EventsHandled ==
  /\ pc = "events" /\ events = <<>>
  /\ pc' = "poll"
  /\ UNCHANGED <<conn, peer, inbound, hterm_quit, view, events, input, sessions,
                 drawing, userquit>>

(* c_read: some output, nothing yet, or the end.  A host that hung up is   *)
(* noticed when its output has been read; a connection that broke, at any  *)
(* read, and ssh_read then closes it.  A blocking channel on which the     *)
(* host sends nothing does not return.                                     *)
GotOutput ==
  /\ (build = "IOS" => channel = "shell") /\ inbound > 0
  /\ \E n \in 1 .. inbound : inbound' = inbound - n
  /\ redraw_req' = TRUE /\ stale' = TRUE /\ undrawn' = TRUE
  /\ UNCHANGED <<conn, hterm_quit, missed>>

(* On iOS the loop then looks whether the keyboard came or went.           *)
NothingYet ==
  /\ (build = "IOS" => channel = "shell") /\ inbound = 0 /\ peer = "up"
  /\ UNCHANGED drawing \/ (build = "IOS" /\ redraw_required)
  /\ UNCHANGED <<conn, hterm_quit, inbound>>

ReadEnds_NoEof ==
  /\ \/ build = "IOS" /\ channel = "none" /\ UNCHANGED conn
     \/ build = "IOS" /\ channel # "none" /\ peer = "lost" /\ ssh_close
  /\ hterm_quit' = TRUE
  /\ UNCHANGED <<inbound, drawing>>
ReadEnds ==
  /\ \/ build = "IOS" /\ channel = "none" /\ UNCHANGED conn
     \/ (build = "IOS" => channel # "none") /\ peer = "eof" /\ inbound = 0
        /\ UNCHANGED conn
     \/ build = "IOS" /\ channel # "none" /\ peer = "lost" /\ ssh_close
  /\ hterm_quit' = TRUE
  /\ UNCHANGED <<inbound, drawing>>

console_poll_UntilEmpty ==
  /\ pc = "poll"
  /\ GotOutput \/ NothingYet \/ ReadEnds
  /\ pc' = IF hterm_quit' THEN "close" ELSE IF inbound' < inbound THEN "poll" ELSE "draw"
  /\ UNCHANGED <<peer, view, events, input, sessions, userquit>>
console_poll ==
  /\ pc = "poll"
  /\ GotOutput \/ NothingYet \/ ReadEnds
  /\ pc' = IF hterm_quit' THEN "close" ELSE "draw"
  /\ UNCHANGED <<peer, view, events, input, sessions, userquit>>

(* main, after the loop: the connection and SDL are closed; iOS sets up a  *)
(* new window and a new terminal, whose reset erases the screen and by     *)
(* that requires a redraw.  scroll_offset is that of the last session.     *)
Close ==
  /\ pc = "close"
  /\ ssh_close
  /\ hterm_quit' = FALSE /\ userquit' = FALSE
  /\ events' = <<>>
  /\ pc' = IF build = "IOS" THEN "open" ELSE "done"
  /\ redraw_req' = (redraw_req \/ build = "IOS")
  /\ stale' = TRUE /\ missed' = ~redraw_req' /\ undrawn' = FALSE
  /\ UNCHANGED <<peer, inbound, view, input, sessions>>

-----------------------------------------------------------------------------
(* The host and the user.                                                  *)

Host ==
  /\ InLoop /\ peer = "up" /\ sock = "open"
  /\ \/ inbound < MaxInbound /\ channel # "bare" /\ (build = "IOS" => channel = "shell")
        /\ inbound' = inbound + 1 /\ UNCHANGED peer
     \/ peer' = "eof" /\ UNCHANGED inbound
     \/ build = "IOS" /\ peer' = "lost" /\ UNCHANGED inbound
  /\ UNCHANGED <<pc, conn, hterm_quit, view, events, input, sessions, drawing,
                 userquit>>

UserEvent ==
  {"scrollup", "scrolldown", "down", "motion", "up", "key", "resize"} \cup
  (IF build = "IOS" THEN {"finger", "rotate", "close"} ELSE {"quit"})

User ==
  /\ InLoop /\ input < MaxEvents
  /\ \E e \in UserEvent : events' = Append(events, e)
  /\ input' = input + 1
  /\ UNCHANGED <<pc, conn, peer, inbound, hterm_quit, view, sessions, drawing,
                 userquit>>

Loop ==
  /\ Draw \/ sdl_read_thread \/ EventsHandled \/ console_poll \/ Close
  /\ UNCHANGED build

Outside == (Host \/ User) /\ UNCHANGED build
Open == console_read_init /\ UNCHANGED build

Next == Open \/ Loop \/ Outside

(* The main thread goes on while it can.  That a server is selected, or    *)
(* that the host or the user do anything, is not assumed.                  *)
Spec == Init /\ [][Next]_vars /\ WF_vars(Loop)

-----------------------------------------------------------------------------
(* Properties.                                                             *)

TypeOK ==
  /\ build \in Builds
  /\ pc \in {"open", "draw", "events", "poll", "close", "done"}
  /\ channel \in {"none", "bare", "shell"} /\ session \in BOOLEAN
  /\ sock \in {"unset", "open", "closed"}
  /\ peer \in {"up", "eof", "lost"} /\ inbound \in 0 .. MaxInbound
  /\ redraw_req \in BOOLEAN /\ hterm_quit \in BOOLEAN /\ selecting \in BOOLEAN
  /\ select_disable \in BOOLEAN
  /\ stale \in BOOLEAN /\ missed \in BOOLEAN /\ undrawn \in BOOLEAN
  /\ userquit \in BOOLEAN
  /\ scroll_offset \in 0 .. MaxScroll /\ fade \in 0 .. Fade
  /\ Range(events) \subseteq UserEvent /\ Len(events) <= input /\ input <= MaxEvents
  /\ sessions <= MaxSessions

(* A channel that ssh_read and ssh_write would use belongs to a session    *)
(* that has not been freed, over a socket that is open, however far        *)
(* ssh_open got and in whatever order the close button, a broken           *)
(* connection and the end of the loop call ssh_close.                      *)
HandlesLive == channel # "none" => session /\ sock = "open"

(* When the next server is selected, or main returns, nothing of the last  *)
(* connection is left, not even of one whose ssh_open failed half-way:     *)
(* main closes also then.                                                  *)
NothingLeftOpen ==
  pc \in {"open", "done"} => channel = "none" /\ ~session /\ sock # "open"

(* A change that asked for a redraw is not forgotten: as long as the       *)
(* window does not show it, redraw_req is set when the loop comes back to  *)
(* it, also when drawing itself asks for the next frame                    *)
(* ("should go first as draw can itself trigger a redraw").                *)
RedrawPending == InLoop /\ stale /\ ~missed => redraw_req

(* When the host ends the connection, everything it had sent has been read *)
(* and was on the screen (console_poll reads before it gives up, and the   *)
(* loop draws before it reads again).                                      *)
OutputShownBeforeEnd ==
  pc = "close" /\ ~userquit =>
    /\ ~undrawn
    /\ peer = "eof" /\ (build = "IOS" => channel = "shell") => inbound = 0

(* The main thread waits in ssh_read on a channel in blocking mode.        *)
Blocked == pc = "poll" /\ channel = "bare" /\ peer = "up"

(* A change that asked for a redraw gets on the screen, unless the session *)
(* ends first (sdl_render_thread's loop).                                  *)
ChangesAreDrawn == InLoop /\ stale /\ ~missed ~> ~stale \/ ~InLoop \/ Blocked

(* When the host hangs up, or the user quits, the session ends.            *)
HangupEnds == InLoop /\ (peer # "up" \/ hterm_quit) ~> ~InLoop

(* RELEASENOTES, "screen not always redrawing after clear etc. - add back  *)
(* semaphore + redraw_required calls": every change gets on the screen.    *)
EveryChangeIsDrawn == InLoop /\ stale ~> ~stale \/ ~InLoop
=============================================================================
