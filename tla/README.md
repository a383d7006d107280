# hterm in TLA+

hterm is a terminal emulator: it shows, in an SDL window, the screen of a local
shell (Linux, OSX) or of an ssh session (iOS). The host's bytes go through a
bundled copy of libvterm (`src/libvterm`), which keeps the cells of the screen;
`main.c` keeps the scrollback, draws, and handles the events of the user.

These modules model the parts of hterm that keep state over time, state what
should be true of them, check it with TLC on small instances, and prove some of
it with TLAPS for every instance. Paths below are relative to `src/`, and
`libvterm/` in front of a file of libvterm is short for `libvterm/src/`.

- [Reading guide](#reading-guide)
- [Inventory](#inventory)
- [Modules and their correspondence to the code](#modules-and-their-correspondence-to-the-code)
- [Runs](#runs)
- [Fairness](#fairness)
- [Where code and documentation disagree](#where-code-and-documentation-disagree)
- [Proofs](#proofs)
- [Not modelled](#not-modelled)
- [Plan](#plan)

## Reading guide

| module | what it is |
|---|---|
| `LineLog` | what a scrollback promises: a log of the newest lines |
| `Scrollback` | the ring buffer of `main.c` under the scrolls of libvterm's screen; implements `LineLog` |
| `Selection`, `MCSelection` | drags, clicks and what they copy, over `Scrollback` |
| `SelectionProofs` | the safety of the scrollback and its refinement, and that what is copied is what was marked, proved |
| `VTStream` | the stream of bytes read one by one: what the parser should deliver |
| `VParser`, `MCVParser` | libvterm's parser, which scans chunks in place; compared with `VTStream` |
| `VParserProofs` | that its buffers keep their bounds, that the cuts make no difference and that its loop runs out of turns, proved |
| `Glyphs`, `MCGlyphs` | text: the decoders, combining marks, the cells; compared with the text read byte by byte |
| `GlyphsProofs` | that the two agree, and that no cell is overfull, proved |
| `VTState`, `MCVTState` | libvterm's terminal state: cursor, margins, modes, tab stops, resizing |
| `VTStateProofs` | its safety, proved |
| `Screen` | the alternate screen, the saved cursor, the pen and its copy |
| `ScreenProofs` | its safety and its action property, proved |
| `InlineData` | inline images: names and base64 in text, the life of libpng's reader |
| `InlineDataProofs` | that images are found, decoded as sent and their readers destroyed, proved |
| `Session` | the main loop over the connection, the host and the user |
| `KeyTransfer` | `Session` with the transfer of ssh keys in front of each connection |
| `KeyTransferProofs` | the safety of both, that a transfer does not disturb the session, and that redraws, ends and transfers come nearer with every step, proved |
| `Foundations` | what several proofs rest on: least elements, induction over numbers and sequences, recursive functions and folds |

A module whose name begins with `MC` holds values that cannot be written in a
`.cfg` (tuples, records) and constraints for TLC.

`tlc -config X.cfg M` runs a model, `tlapm M.tla` checks the proofs of `M`.
`PROJECT.json` lists components, runs, mutants (a plausible bug for each
property, which the property must notice), the lines each definition models,
the findings, the hazards and the theorems.

In a module, an operator whose name is another's with an underscore and a
suffix (`GetIndex_NoWrap`, `Draw_ClearsLast`) is a mutant of it and no part of
the specification. Variables marked *ghost* are not in the program; no guard
reads one, except to bound a behaviour (the length of `history` in `Scrollback`,
`received` in `VParser`).

## Inventory

hterm is single-threaded apart from what SDL and iOS do underneath: nothing
interleaves with a function of `main.c` but the host and the user, at the
points where the loop reads from them. `sdl_render_thread` and
`sdl_read_thread` are functions of the one thread, not threads. The hard
behaviour is therefore in *sequences*: of bytes cut into chunks anywhere, of
escape sequences and resizes in any order, of sessions that fail half-way, of
flags set by one stage of the loop and cleared by another.

**Scrollback** (`Scrollback`; `main.c` 86-316, 144-169, 887-941). State: `scroll_buffer`, an
array of lines with their lengths, `scroll_buffer_end`, `scroll_offset`.
Operations: `scroll_buffer_push`, `scroll_buffer_get`, `grab_row`, the wheel.
libvterm calls `screen_prescroll` before it moves the cells (`scrollrect` in
`libvterm/screen.c`); drawing and copying read through `grab_row`. Hard: the
index computed backwards over the wrap; the empty ring; rows that have to be
saved before they are overwritten, with the width of that moment. Correct when
the buffer is the tail of the history of lines that left the screen.

**Byte parser** (`VParser`; `libvterm/parser.c`). State: the parser's state, `strbuffer`
(1 024 000 bytes), and, during a call, `string_start` into the caller's chunk.
Operation: `vterm_push_bytes`, called by `console_poll` with whatever was read
(10 240 bytes at most), which calls `on_text`, `on_control`, `on_escape`,
`on_csi`, `on_osc`, `on_dcs` of the state. Hard: chunks are cut anywhere;
controls execute in the middle of a sequence. Correct when the cuts do not
matter, and when every call returns.

**Terminal state** (`VTState`; `libvterm/state.c`, `vterm.c`). State: cursor and phantom
flag, scrolling region, modes, tab stops, saved cursor, pen, character sets,
combining buffer. Operations: the parser's callbacks and `on_resize`, called by
`terminal_resize` in `main.c`. It calls the screen: `putglyph`, `prescroll`,
`moverect`, `erase`. Hard: bounds kept separately by a hundred cases, margins
and saved positions that outlive the size they were set for. Correct when the
cursor, the tab stops and every scroll stay on the screen, and the region
bounds what it should.

**Main loop and connection** (`Session`; `main.c` 595-800, 1151-1460, `ssh.c`, `local.c`,
`virtual_buttons.c`). State: the handles of the connection, `hterm_quit`,
`redraw_req`, the selection and its fading, SDL's queue. Operations:
`console_read_init`, `sdl_render_thread` (draw, events, poll), `ssh_open`,
`ssh_read`, `ssh_close` and their local twins, the loop of `main` over sessions
on iOS. Hard: `ssh_open` fails at seven places and its result is ignored; close
comes from three callers; a hangup arrives behind unread output; drawing itself
asks for the next frame. Correct when no handle outlives its session, the last
output is shown, requested redraws happen and a hangup ends the session.

**Screen and pen** (`Screen`; `libvterm/screen.c`, `pen.c`, `rect.h`). State:
two buffers of cells, the one in use, a copy of the pen, pending damage and
scroll. Operations: the callbacks of the state, `altscreen`, SGR, DECSC and
DECRC, the modes 1047 to 1049, the reset, resizing. hterm registers no damage
or moverect callback: it reads every cell when it draws, so nothing depends on
how damage is merged. Hard: the state and the screen each keep a pen and an idea
of which buffer is shown, changed by different functions. Correct when the
alternate screen never changes the primary one, an application that leaves it
finds what it left, and the copies agree.

**Text** (`Glyphs`; `libvterm/encoding.c`, `unicode.c`, `state.c` 80-330,
`screen.c`). State: two decoders, each with the character it is in the middle
of; the last glyph, so that a mark at the beginning of the next call can join
it. Operations: `on_text`, `putglyph`. Hard: characters are cut anywhere; which
decoder is asked depends on the first byte of the call. Correct when the cells
do not depend on the cuts.

**Output buffer** (`libvterm/vterm.c` 120-170): replies to the host, in 64 bytes
that hterm never reads.

**Inline images** (`InlineData`; `inlinedata.c`, `base64.c`). State: a shift
buffer of text searched for names, the bits the base64 decoder carries over, the
stage of the PNG reader. Called from the text callback, cleared by the CSI
callback. Hard: names and data are cut anywhere, an image may end or fail in any
call. Correct when an image is found and decoded however its text is cut, and
when its reader is destroyed. **ReGIS** (`regis.c`): a scanner of drawing
commands, complete within one DCS string.

**Selection** (`Selection`; `main.c` 370-590, 887-1077). State: the box in
pixels, with the `scroll_offset` of the press; the text is read through
`grab_row`. Operations: press, release, click, with everything that
changes rows in between. Hard: word bounds, rows of other widths, a text buffer of
fixed size, the view and the output moving underneath. Correct when what is marked is what is copied.

**Key transfer** (`KeyTransfer`; `ssh.c` 263-400, `main.c` 595-640). State: the
connection's own handles, the local file and what is on the device. Operations: `ssh_open_preshell`,
`ssh_getfile` twice, `ssh_close`, before the session proper is opened. Hard:
every call may fail, on the remote side or on the device, and the handles are
then those the session begins with. Correct when nothing of it is left open and
the user is told that keys were copied when they were, and only then.

**Recent connections** (`iphone/recentrw.m`), **fonts** (`nunifont.c`),
**widgets** (`ngui*.c`), **iOS dialogs** (`iphone/*.m`), unused and bundled
code: see [Not modelled](#not-modelled).

The hazards of each part, at the line where they bite and with the properties
that would notice, are in `PROJECT.json`.

## Modules and their correspondence to the code

### LineLog, Scrollback

`LineLog` is a sequence to which a line is appended, dropping the oldest when
`Size` are there. `Scrollback` has the ring as it is in `main.c` together with
the rows of libvterm's screen that feed it. A row of text is a member of
`Lines`.

| definition | code |
|---|---|
| `GetIndex`, `scroll_buffer_get` | `scroll_buffer_get`, whose test for a negative index corrects it once |
| `scroll_buffer_push` | `scroll_buffer_init`, `scroll_buffer_push` |
| `grab_row` | `grab_row`, with `-trow` for rows above the screen |
| `Scroll` | `vterm_scroll_rect` and the call of `screen_prescroll` |
| `PushRow` | one iteration of the loop of `screen_prescroll` |
| `ShiftRows` | `moverect_internal` and the erase of `scrollrect` |
| `PutText`, `Resize` | what else changes rows: glyphs, erases, a new size |
| `WheelUp`, `WheelDown`, `KeyDown` | what changes `scroll_offset` |

A scroll is several steps although nothing runs between them, so that the order
"save, then overwrite" is visible to `ScrollSavesRows`.

### VTStream, VParser, VParserProofs

`VTStream` is a fold over the bytes: `Step` reads one byte with no notion of
chunks or buffers, and `Stream(s, bytes)` is its iteration. It follows the state machine
of `vterm_push_bytes` and what `libvterm/t/02parser.test` says of it. Bytes are
classes (`ByteClass`): those the parser tells apart.

`VParser` is `vterm_push_bytes` as written. A step is one turn of its loop:
`Ignored` (NUL), `Cancel` (CAN, SUB), `Escape`, `Control`, `StringTerminator`
(BEL, ESC backslash), `EscapeByte`, `CSIByte`, `StringByte`, `TextRun` (the
call of `on_text` and what is left when it stops early), `Pause` (the label at
the end of the function), and the action that hands over the next chunk. `Deliver` is
`do_string`, `Capped` and `Appended` are `append_strbuffer`.

A host (`Hosts`, `host`) is a set of bytes and the length of its streams: it is
chosen at the start, and stands for the three kinds of hosts of the run below.

`ref` is the same stream through `VTStream`. The parser deviates from it in
four ways, each recorded in `quirks` when it happens:

| quirk | where | what |
|---|---|---|
| `full` | `parser.c` 113 | a string longer than `strbuffer` is cut: intended |
| `cancel` | `parser.c` 249 | an abandoned sequence stays in `strbuffer`: a finding |
| `st` | `parser.c` 284 | the length of the last fragment is -1: a finding |
| `del` | `parser.c` 353 | DEL is skipped only at the start of a run of text; within a run it reaches `on_text` |

`ChunkingInvisible` says that without one of them, the callbacks and the state
are those of `ref`. The two findings are stated as properties that allow *only*
their quirk; with it they fail. What happens after a quirk is modelled, but
nothing is claimed about it beyond `TypeOK` and that calls return. Callbacks that agree with `ref`'s are dropped from
`out` and `ref.out` once compared, which keeps the state space finite in the
length of the stream.

### VTState, MCVTState

The state of `state.c` that is about *positions*. `Text(width)` is a glyph in
`on_text` (wrap, insert mode, the phantom position); `OnControl` is
`on_control` and its C1 cases; `CursorCSI`, `ScrollCSI`, `SettingCSI`,
`SaveRestore` group the cases of `on_csi`, `Reset` is RIS, `Resize` is
`on_resize`. `BoundRow` and `BoundCol` are the bounds at the end of `on_csi`.
`moves` holds the row and column moves of the last step, as
`vterm_scroll_rect` hands them to the screen.

The code accepts settings that refer to rows or columns that are not there.
`causes` records which of them have happened:

| cause | setting |
|---|---|
| `margins` | DECSTBM, or a resize, leaves a region that does not lie on the screen |
| `saved` | the saved cursor lies outside after a resize: DECRC restores it as it is |
| `unbounded` | origin mode is on without a lower margin |
| `saved outside` | origin mode is on and the saved cursor lies outside the region |
| `width` | a glyph of width -1 (0x7f to 0x9f) |

`CursorOnScreen`, `OriginBoundsCursor` and `ScrollsOnScreen` are claimed as
long as none has happened: this is a precondition, and the finding
`vtstate_origin` shows that it is needed for `unbounded`. Every one of the
causes is reached in the runs.

### Glyphs, MCGlyphs, GlyphsProofs

A byte is its class, a code point the bytes it is made of, a cell the code
points in it. `Decode` is one byte in `decode_utf8`, `RunOf` where a call of
`on_text` stops; `AsciiText`, `AsciiFirst` and `HighFirst` are `on_text` by the
decoder its first byte chooses (`state.c` 157): the character set in use, or the
separate UTF-8 decoder. That set is US-ASCII until the first RIS, because
`vterm_screen_reset` runs before `vterm_parser_set_utf8` in `main.c`, and UTF-8
afterwards, with a state of its own. `Render` is the rest of `on_text`
(`Rendered` says what it leaves), one call at a time: a mark that comes first joins the last glyph (`Joins`), the others
are put one by one (`Put`, `putglyph`). `Stored` is what is left in the combining
buffer after `grow_combine_buffer`, which never records the new size, and
`Overruns` whether a call stores (`ToStore`) more than the grown buffer holds.

`ref` is the reference: one decoder, and each code point put as it comes. Four
deviations are recorded in `quirks`:

| quirk | where | what |
|---|---|---|
| `decoder` | `state.c` 157 | a character broken off in one decoder, the next byte goes to the other |
| `margin` | `state.c` 172 | a mark at the beginning of a call, behind a glyph in the last column |
| `stale` | `state.c` 172 | the cursor is where it was, the glyph is not |
| `overrun` | `state.c` 106-115 | a glyph and its marks, with the zero behind them, are longer than twice `CombineSize` and are written past the buffer |

`ShownAsSent` says that without one of them the screen is the reference's. The
buffer holds 16 code points and, grown, 32: 16 that are stored and 16 marks that
join them in a later call are an overrun as much as 32 in one call. After one the
model stops, and `TypeOK` says of the buffer what it holds until then.
Left out: the shifts of character sets (SO, SI), insert mode and autowrap
(`VTState` has both), the width of DEL, and leads of four to six bytes, which
differ from those of three by their count alone.

### Screen, ScreenProofs

A row is blank or has text; the cursor is in a row; of the pen there are bold
and the foreground colour, the only two attributes that depend on each other.
`vterm_state_setpen` are the cases of SGR, each of which sends what it changed
to the screen's copy (`Send`); `SaveCursor`, `RestoreCursor` and `altscreen` are
what the modes `Mode1047`, `Mode1048`, `Mode1049On` and `Mode1049Off` put
together; `vterm_state_reset` is RIS; `on_resize` resizes both buffers. DECSTR is not among
the steps: `on_csi` compares it as a sequence with the leader `!` (`state.c` 1126),
which the parser hands over as an intermediate, and `on_csi` refuses any
intermediate but a space (776-786).

What the code does and the model keeps: the saved cursor is zero until one is
saved, so its pen is colour 0 and not the default; SGR 22 does not darken a
colour SGR 1 brightened, and `fg_ansi` is not saved with the pen (`deviations`
has `"colour"` while they disagree); a reset in the alternate screen clears
`mode.alt_screen` and leaves the alternate buffer in use (`"mode"`). The rows an
alternate screen scrolls go to hterm's scrollback like any others: `Scrollback`
does not know which buffer is shown. Left out: SGR 38 and 48, the other
attributes, the pens of single cells, damage.

### Selection, MCSelection, SelectionProofs

`Selection` extends `Scrollback`: its `Elsewhere` is any step of it. A line is a
sequence of cells. `Press`, `Release` and `Click` are the mouse events of
`process_mouse_event`, the last two with `mouse_to_select_box`, `get_text_region`
and, for a second click, the bounds of the word. The mouse moves in pixels: a
release within 15 of them in both directions is a click (`IsClick`), whatever the
size of a cell. The text is collected in a buffer of `TextRoom` characters, 5120
in the code, of which eight are zeros behind it; a longer text is an `Overrun`,
after which the model stops. `grab_row` may return a row that is not there or of another width;
cells beyond a row are `Unread`, and the one behind a row of the screen, which
the code looks at for the last non-blank column, is blank or not
(`space_behind`).

`want` is what a reader would copy (`Between` the two carets of `Marked`). The
code does that only for the drags `Ordinary` names. The others: a level drag
adds a row; the first pixel of a cell belongs to the one before; columns are
exchanged when a drag ends further left in another row; a drag to the right
margin from another row; rows of another width, or missing; rows that have moved
since the press. A second click copies the word only where `HasWord` holds: the
first word of a line has no left bound and is read from index -1, and empty
cells shift the columns against the text.

### InlineData, InlineDataProofs

`inline_data_receive` is one call of it, with any run of text: `Search` and
`Begin` when no image is on its way, `Decode` and `Swallow` when one is;
`inline_data_clear` is what `csi_handler` does for ED and EL. The names are
abbreviated to three letters, of which the first two are shared, as HTERMF is in
the code, and the six bits of a letter are named rather than valued: what
matters is their order and which of them are there. `DecodeSymbol` is a turn of
`base64_decode`'s loop; `inlinepng_process_data` is libpng, which is external
and may end or fail whenever it is given bytes.

`DecodedAsSent` compares with `Base64`, a reference over the whole text.
`quirks` has what the search loses: a font's name at the start of the buffer
(`first`), two of them in the buffer (`both`), a beginning of a name pushed out
of a full buffer (`shifted`), the run behind an image that was complete in its
first text (`swallowed`). The search does not look at the very last position, so
a name is seen with the next character. A font is obeyed when the first place its
name is found at is not 0 (`Obeyed`). A transfer that a wrong character ends
leaves its reader, which the next image replaces (`orphans`): `ReadersDestroyed`
says that nothing else does.

### Session

One step is one stage of `sdl_render_thread`: `Draw` (750-757), one event in
`sdl_read_thread`, `EventsHandled`, `console_poll`, and `Close`, which is what
`main` does after the loop. `console_read_init` opens the next session with
whatever result; the five disjuncts of `ssh_open` are the sets of handles its
returns leave behind. `Host` is the far end: it sends (`inbound`), hangs up
(`eof`) or disappears (`lost`). `User` puts an event into SDL's queue.

`build`, one of `Builds`, selects the `#ifdef`s: `"IOS"` is ssh, sessions in a row and fingers;
`"LINUX"` is one local shell and `SDL_QUIT`. On Linux, `channel` and `session`
keep their initial values, and `sock` is the descriptor of the pty.

Three variables are about what is visible. `stale`: the window does not show
the state. `missed`: ... and no redraw was requested for the change
(`Silently`). `undrawn`: output was processed that was never on the screen.

The virtual keyboard's close button calls `ssh_close` from the event loop, so
the following `ssh_read` finds no channel, fails and ends the session; this is
in `CloseEvent` and `ReadEnds`. Between two sessions of iOS `Close` sets up a new
terminal, whose reset erases the screen and requires a redraw. On iOS two fingers set `select_disable`, after
which *every* event ends a selection until one finger is moved
(`BoxVanishes`, `DisabledEvent`).

Three things the model contains and no run is about: `ssh_close` runs
`close(sock)` again on a descriptor that is closed already (`ssh.c` 255); a
channel whose terminal or shell was refused stays in blocking mode, so that
`ssh_read` waits and the close button with it (`ssh.c` 193; `Blocked`,
which `ChangesAreDrawn` excepts by name); and DEL within text (the quirk `del` above).

### KeyTransfer, KeyTransferProofs

`KeyTransfer` extends `Session`: `KeyNext` is its steps, with what they do to
the new variables (`Connect`, `LoopStep`), and those of the transfer. `Transfer`
is the choice in `ios_connect` and `ssh_open_preshell`, whose result
`main.c` 620 does not look at. `ssh_getfile` is, for each file, `Refused`,
`Accepted`, a `ReadBlock` for each call that reads one or more of the file's pieces,
`EmptyRead`, `ReadFails` or `Complete`; `Finish` is
the report of `ssh_getkeys` and `c_close`. The transfer is offered once for each
return to `ios_connect`.

What the code does and the model keeps: without a session `libssh2_scp_recv` is
called with a null pointer (`Undefined`, after which nothing is claimed); the
local file is emptied before its first piece is there, and a read that fails
leaves it so; the result of `fopen` is kept in an `int` and not looked at, and a
file that did not open, or whose pointer does not fit, is used all the same
(`BadFile`, which is undefined as well); the results of `fputc` and `fclose` are not
looked at either, so a file that was read to its end may be `damaged` and is
reported as copied (`ReportMatchesFiles` names this); the scp channel then stays in `channel` until the close; a remote
side that ends a file early keeps the loop running without a change (`EmptyRead`
leaves everything as it is, so `LostTransferEnds` is claimed of connections that
break only).

## Runs

| run | result | bounds | distinct states |
|---|---|---|---|
| `selection` | holds | ring of 2, history of 3, terminals of 1 and 3 rows, 1 and 4 columns, two texts; a mouse at three by three pixels, cells of 8x16 pixels, text of up to 12 characters | 98 000 |
| `scrollback_view` | violated | ring of 3, history of 5 | |
| `vparser` | holds | streams of 7 bytes (escape, CSI) and of 6 (OSC, DCS; text), chunks of up to 3, `strbuffer` of 3 | 489 000 |
| `vparser_cancel`, `vparser_terminator` | violated | streams of 6 and 5 | |
| `glyphs` | holds | five of nine characters, 2x2 cells of two code points, combining buffer of 2, at most five bytes unread | 837 000 |
| `vtstate` | holds | sizes 1x2, 2x3, 3x3, five pairs of margins, counts 1 and 3, places 0, 2, 4, widths -1 to 2 | 280 000 |
| `vtstate_origin` | violated | the same sizes and margins | |
| `screen` | holds | heights 1 and 3, two colours; no bound on behaviours | 1 200 000 |
| `inlinedata` | holds | texts of five words, runs of up to 4 characters, search buffer of 5 | 1 360 000 |
| `keytransfer` | holds | both builds, two sessions, three events, two chunks of output, files of two pieces | 476 000 |
| `session_redraw` | violated | two events | |

*selection* (`TypeOK`, `GetInBounds`, `RingHoldsHistory`, `ScrollSavesRows`,
`ImplementsLog` of `Scrollback`; `MarkedIsCopied`, `WordIsCopied`).
A ring of two with a history of three is filled, wraps, overwrites its oldest
line and reads across the wrap; one row is the screen where a scroll takes
everything, three rows have scrolls of one and of two rows, of the whole screen
and of regions that must not save anything. A distance is at most the height of
its region, since a longer one erases it just the same. Two widths show that a line keeps
its own. The text is a word between blanks and another one behind them. The
mouse can be in three columns of cells, in two rows and at two heights of one of
them, in either direction, with the
view scrolled by up to two rows between press and release: drags cover rows of
the ring, of the screen and of both. The pixels are 8 to 17 apart in one direction
and 9 to 32 in the other, so that a drag from cell to cell is a click for the code
or is not, as it is with cells of this size. Three full rows of four columns do not fit
the text buffer (`TextRoom`, without its eight zeros), two do. `Followed` stops a behaviour once rows have
moved under a press, of which `Ordinary` excludes the copy anyway, and after a
copy, because what can happen then can happen without it. `MaxHistory`
and `MaxOffset` are bounds of the runs, not of the code.

*vparser* (`TypeOK`, `ChunkingInvisible`, `OpenSequenceKept`, `PushReturns`).
The longest sequences that matter need an introducer (two bytes), an
interruption, a fragment on each side of it and a final byte: seven bytes, cut
in every way into chunks. `strbuffer` holds three, so that it does run full.
Strings (`MCStrings`) have bytes that do not interact with CSI arguments
(`MCSequences`), nor do either with text (`MCText`): the alphabets together
multiply the streams and add no turn of the loop, so a host has one of them. DEL,
which the parser skips in the same place as NUL, is not in that of sequences. Each of the four quirks happens. The
8-bit introducers 0x80-0x9f do not occur: hterm sets UTF-8 mode, in which the
parser treats them as text.

*glyphs* (`TypeOK`, `ShownAsSent`, `UnfinishedKept`). Five characters are a
wrapping line with a mark on either side of a cut, or a reset followed by a
character cut at every byte. Two columns have a margin that a wide glyph
reaches at once, two rows scroll with the third line; two code points per cell
and two in the combining buffer are exceeded by a letter with two marks, and the
grown buffer by a letter with one and two more in the next call. The
host is at most five bytes ahead of what was read (`Ahead`), which is the longest
chunk that matters: a letter of one byte and two marks. All four quirks happen.

*vtstate* (`TypeOK`, `CursorOnScreen`, `OriginBoundsCursor`, `ScrollsOnScreen`,
`PhantomAtMargin`). A screen of one row has no room to scroll in, 3x3 is the
smallest with a region that leaves a row above or below it; a resize goes
between all of them. Glyphs are as wide as the smallest screen. Place 4 and
count 3 are beyond every screen and place 0 is what a missing argument gives.
States after a cause are not explored (`CONSTRAINT NoCause`): the state in
which one happens is checked, what follows is not. The finding run has no
constraint, and is about exactly that.

*screen* (`TypeOK`, `PrimaryKept`, `PensAgree`, `ColourFollowsBold`,
`ModeTellsBuffer`, `VisitLeavesNoTrace`). A resize cuts rows off and adds them,
two colours are enough to restore one under the other. The state space is finite
by itself: every sequence of steps, however long, is covered.

*inlinedata* (`TypeOK`, `DecodedAsSent`, `NameIsSeen`, `FontAsNamed`,
`ReadersDestroyed`). Five words are an image given up, a second one, and a name
of a font in any order, or a name and four groups of letters; two letters make a
byte and leave four bits, so that every number of carried bits occurs. A buffer
of five is longer than a name and shorter than two. All four quirks happen.

*keytransfer* (`KeyTypeOK`, `HandlesLive`, `NothingLeftOpen`, `RedrawPending`,
`OutputShownBeforeEnd`, `ReportMatchesFiles`, `ChangesAreDrawn`, `HangupEnds`,
`LostTransferEnds`). It contains the session on its own: a transfer is never
forced, and on Linux there is none. Two sessions, because what is wrong with a
handle shows in the next one; every result of `ssh_open` occurs in both, with a
transfer in front of either. Two chunks, because the loop reads one at a time
and a hangup may come behind the second. Three events are enough for a
selection, its fading over two draws (`Fade`, 50 in the code) and an event in
between; they may arrive at any stage of the loop. Two pieces of a file, read
together or one by one, have one read that fails behind one that did not.

Deadlock is not checked for the parser, the text, inline images and the
session: a stream ends after `host.length` bytes, `MaxSent` characters or
`MaxWords` words, a session loop after `MaxSessions`, `main` returns on Linux,
and a blocked read stops the loop. For the others it is.

## Fairness

`VParser` assumes `WF_vars(Loop)`: a call of `vterm_push_bytes` goes on running.
Whether another chunk arrives is not assumed. `PushReturns` then says that the
loop ends: no turn of it leaves everything as it was.

`Session` assumes `WF_vars(Loop)`: the only thread goes on while it is not
waiting. Nothing is assumed of `Host`, of `User`, or of the user selecting a
server (`console_read_init`). A host that is silent is not a reason for the
loop to stop (`NothingYet`: the channel is non-blocking), except in `Blocked`.
`ChangesAreDrawn` holds although the host may keep sending and the user may
keep typing, up to the bounds on both. `sdl_read_thread` handles *all* queued
events before the loop goes on, so a user producing events faster than they are
handled would starve it; the bound on events excludes that.

`KeyTransfer` assumes `WF_allvars(Thread)`: the same thread, in the loop and in
the transfer. That the user asks for a transfer or connects (`Transfer`,
`Connect`), and what the remote side does (`Remote`, `Outside`), is not assumed.
`LostTransferEnds` then says that no broken connection holds it, in whichever
call it breaks.

The other modules state no liveness: they are called.

## Where code and documentation disagree

Each of these is a run that finds the documented property violated; the
counterexample is the shortest way there.

1. `scrollback_view`: `grab_row` asks for line `-trow` (`main.c` 163) where line
   0 is the newest, so the newest line of the scrollback is never shown or
   copied, and at the other end an empty slot is.
2. `vparser_cancel`: CAN or ESC in a sequence that was split over two chunks
   (`parser.c` 249): its beginning comes out in front of what follows.
3. `vparser_terminator`: ESC and backslash in two chunks (`parser.c` 284):
   the last fragment has the length -1 as a `size_t`.
4. `vtstate_origin`: in origin mode without a lower margin the row is bounded
   by `scrollregion_end - 1`, which is -2 (`state.c` 1183).
5. `session_redraw`: a key pressed while the view is scrolled up moves the view
   and requests no redraw (`main.c` 1246).

## Proofs

TLC looks at small instances; these hold for every value of the constants that
the `ASSUME`s allow. The assumptions are only those of the instances themselves:
sizes and widths are positive (`ScrollbackAssumption`, `ScreenAssumption`,
`VTStateAssumption`, which also says that a glyph can be one column wide),
bounds are natural numbers and `Builds` has no other than the two
(`SessionAssumption`, `KeyTransferAssumption`), pixels are numbered, cells have a
size and no character of a line is a line feed (`SelectionAssumption`; a cell of
libvterm never holds one, `on_control` takes it), the search buffer has room for
an image's name and for a run (`InlineDataAssumption`; the code's has 10 241
characters, and `console_poll` reads 10 240 at most), the host's bytes are classes of bytes and
the parser's buffer is not empty (`ParserAssumption`), the host's characters are
made of classes of bytes, the screen and its cells are not empty and the
combining buffer holds a cell's worth (`GlyphsAssumption`).

**Foundations**: the library's induction theorems take an operator as a
parameter, which the installed provers cannot instantiate. The facts here are
about sets instead: a set of numbers that is not empty has a least member
(`LeastExists`, from the well-foundedness of the strict subset order on finite
sets), so a set that has 0 and the successor of each of its members has all of
them (`UpTo`), and one that has the empty sequence and every extension of its
members has every sequence (`SeqInduction`). `Recursion` and `OneRecursion` say
that a function given by its value at 0 and by each value in terms of the one
before exists and is unique; `FoldExists`, `FoldMore` and `FoldSame` say the same
of the folds over sequences the modules are built from. What a fold computes for
*every* input is proved with these.

**SelectionProofs**, the scrollback: `TypeCorrect`, `ReadsInBounds`, `RingIsHistory`,
`ScrollSaves`, `Refinement`. `RingHoldsHistory` is not inductive. When a ring is
allocated by its first push, the proof needs that the history was empty until
then; when the index wraps, it needs that the end is at least 1 and that a ring
that has wrapped is full. This is `RingInv`. `LoopInv` says what the prescroll
loop has saved so far, which is what `ScrollSavesRows` needs at the step that
overwrites the rows. `IInv == TypeOK /\ RingInv /\ LoopInv`; its central lemma is
`PushHistory`: a push turns line k into line k + 1, and the slot that is
overwritten is that of no line below `Size - 1`. A scroll that is running
leaves the rows and the width alone, so `LoopInv` is kept. `Refinement` shows
that the initial ring is the empty log, that a push is `Record` (append when
the ring is not full, drop the oldest when it is) and that all other steps
leave the log as it is.

**SelectionProofs**, under the mouse: `SelectionIsScrollback`, `SelectionKeepsRing`,
`SelectionKeepsLog`. A press, a drag and a click read
the ring and the rows and change neither, so a behaviour of `SelSpec` is one of
`Scrollback`'s `Spec`, and each theorem about it holds while the
user selects. `MarkedTextIsCopied` and `WordUnderMouseIsCopied` are about one
step: what `Release` or `Click` puts into the clipboard, when the text fits its
buffer. For a drag, the
columns `mouse_to_select_box` gives (floor and ceiling of pixels over cells,
then its corrections) are those `Between` the carets, case by case of `Ordinary`;
`Adds` says that one row then contributes the reader's part of it and its line
feed, and the fold over the rows follows by induction over their number. For a
second click (`Worded`), the bounds the code searches (`Bounds`) are those of the
word around the mouse, and a region of one row copies what is between them. The
search ends at line feeds as well as at spaces, which is why the rows must have
none.

**KeyTransferProofs**, the session: `LiveHandles`, `Released`, `NoRedrawLost`, `LastOutputShown`,
each from one invariant `Inv == Flags /\ Handles /\ Pending /\ Shown`, with one
lemma per step. `RedrawPending` is stated inside a session, but the flag
survives from one to the next, so `Pending` drops that condition.
`OutputShownBeforeEnd` is about the moment the loop ends; it holds because
output that is not drawn exists only between a read and the next draw, with the
request set (`Shown`), and because a read comes before the test for the end.

**KeyTransferProofs**, the transfer: `ReportIsTrue`, `TransferReleased`, `LoopUndisturbed`,
`KeyTypesHold`. The invariant is that of the session and `KeyState`: a result
of "ok" is that of a file that was read to its end, files still to be copied have no result, and a session the
transfer uses is over an open socket. `KeyInvariance` takes the
session's steps from the lemmas about `Session` and adds one step for each
call of the transfer; that `TransferReleased` and `LoopUndisturbed` are
`Session`'s own `HandlesLive`, `NothingLeftOpen`, `RedrawPending` and
`OutputShownBeforeEnd` under `KeySpec` is the point: a transfer, however far it
gets, leaves the session what it would have found without it. `KeyTypesHold`
also needs `KeyInv`: that a transfer starts and ends with no channel is why the
terminal never finds one of `scp`.

**VTStateProofs**: `VTStateTypes`, `CursorBounded`, `OriginBounded`,
`ScrollsBounded`, `PhantomBounded`, for every set of sizes, margins, widths,
counts and places.
`CursorOnScreen` is not inductive: a step needs that the region lies on the
screen, that origin mode has a region around the cursor, and that the saved
cursor is inside. `Good` is all of that, and the invariant is
`TypeOK /\ PhantomAtMargin /\ (causes = {} => Good /\ MovesInside)`: `Cause`
names exactly the settings that break it, so a step either records one or
keeps `Good`. One lemma per group of cases; `MovesInside` is the form of
`ScrollsOnScreen` the lemma on `Scrolled` yields. `OriginBoundsCursor` is part
of `Good` (`Placed`).

**ScreenProofs**: `ScreenTypes`, `PrimarySurvives`, `PenConsistent`,
`ColourConsistent`, `ModeIsBuffer`, `VisitIsClean`. `PrimaryKept` and `PensAgree` are inductive with
the types. The action property needs `Visit`: as long as an application that
entered with 1049 is expected to leave, what it found is what `saved` and the
primary buffer hold. `ColourFollowsBold` is part of the same invariant.

**InlineDataProofs**: `InlineDataTypes`, `ReadersBalance`, `EveryNameIsSeen`,
`LastNamedIsUsed`, `ImageIsWhatWasSent`. `ReadersBalance` comes from `orphans +
Left <= failures` and that an image that has ended has no reader. For the names,
the invariant is `Held`: the buffer is the end of all that was heard, and all of
it unless the buffer is full. A name of three letters is then found when its last
letter and one more are in the buffer, and one that is only partly there when the
buffer is full was pushed out, which is the quirk. For the data it is `Sent`: what
libpng was given is a beginning of `Base64` of the letters received, and the bits
carried over are those of the letters that make no whole byte; each turn of
`base64_decode` keeps this (`Decoded`), and the run follows by induction over its
symbols.

**VParserProofs**: `ParserTypes`, `ChunksDoNotMatter`, `BufferHoldsSequence`, for
every host, every way to cut its stream and every `StrbufferLen`. `strbuffer`
never holds more than it has room for, and what is buffered or delivered are
bytes of the chunk (`Inv`). That the cuts do not matter is
`quirks = {} => Faithful`: what the parser holds of the open sequence (`Now`: the
buffer and the bytes from `string_start` to `pos`), with the rest of the chunk
read byte by byte from there, is what `ref` means. A turn of the loop reads one
byte, or several in a run of text, so there is one lemma per turn that accounts
for them in `Stream`; at the
pause nothing is left to read, which is `ChunkingInvisible`.

**GlyphsProofs**: `GlyphsTypes`, `TextIsShownAsSent`, `UnfinishedIsKept`, for
every screen, every set of characters, and every way to cut them, up to the first
overrun of the combining buffer. The code reads
a call at a time and `ref` a code point at a time. `Matched` relates the terminal
and the combining buffer to a reference: either a mark would join the same glyph
in both, because that glyph is in its cell and the cursor behind it (`Shared`), or
in neither, because what the buffer is looked for by is blank or behind the cursor
(`Apart`). `PointAgrees` adds one code point to a call: drawing a glyph again with
one mark more leaves what drawing it once with all its marks leaves (`PutMark`),
also where the cell or the buffer is full (`FitsStored`, `StoredMore`).
`RunAgrees` is the call by induction, `ControlMatched` a control. The invariant is
`Faithful`: without a deviation there is a reference that is `Matched`, has the
unfinished character of one of the decoders (`Held`), and leads to `ref` over the
rest of the chunk. Between two chunks nothing is left to read, so it is `ref`.

**What the liveness rests on**, in `VParserProofs` and `KeyTransferProofs`:
`TurnsRunOut`, `TransferRunsOut`, `SessionRunsOut`, `RedrawComes`. `PushReturns`,
`LostTransferEnds`, `HangupEnds` and `ChangesAreDrawn` say that something happens
at last. Behind each is a number, and the theorem says that every step of the
main thread makes it less and, until then, no other step makes it more:

- `TurnsLeft`, a turn of `vterm_push_bytes` for each byte that is left of the
  chunk and one for the pause, at most `MaxChunk + 1`. The case that needs an
  argument is text: `on_text` may eat nothing, and then the loop ends instead of
  trying again (`TextEats`, `EatenFits`).
- `CallsLeft`, the calls of libssh2 a transfer may still make, at most
  `2 * FileBlocks + 5`. It goes down with every answer, good or bad, but a read of 0
  bytes (`EmptyRead`), which the theorem excepts: it changes nothing, and when the
  remote side ended the file early there is no other.
- `EndLeft`, the stages of the main loop from a hangup or a quit to the end, at
  most `MaxEvents + 3 * MaxInbound + 2`: output that is still unread puts the end
  off by one round of three stages for each read, and an event by one stage; a
  user who sends an event moves it from those to come to those that wait, so
  `Coming` counts both.
- `Coming`, then `Frames`, for a redraw: events first, because one can start
  another fade, then the frames the box still fades over and the stages up to the
  next draw.

Only model-checked:

- what is under fairness: `PushReturns`, `ChangesAreDrawn`, `HangupEnds`,
  `LostTransferEnds` themselves. The theorems above leave out that the main
  thread takes its next step at all, which is where fairness and `ENABLED` come
  in; those are out of the prover's reach.

## Not modelled

- Drawing, fonts, layout, widgets, UIKit dialogs: their state does not reach
  the terminal. What they ask of the session (closing, choosing a server, a key
  transfer) is in `Session` and `KeyTransfer` as an event or a choice.
- ReGIS (`regis.c`): what it keeps from one string to the next is the pen's
  position and the pixels; its scanner trusts the length of the string only
  after each command, which is about memory within one call.
- The output buffer (`vterm.c` 120-170): hterm never reads it, so nothing
  depends on what is in it.
- Recent connections (`iphone/recentrw.m`): a text file rewritten by UIKit
  callbacks, and read by nothing else.
- `libvterm/input.c`, `ngui_flowbox.c`, `ngui_textlabel.c`, `timed_repeat` in
  `main.c`: not linked or not called.
- SDL, libssh2, libpng, utf8proc: external. libssh2 and SDL appear as what their
  results do to `Session` and `KeyTransfer`, libpng as what it does to
  `InlineData`. The bundled libraries and the generated font tables are nearly
  all of the lines of the repository.
- The parts of modelled files that are left out: CSI argument parsing
  (`do_string_csi`), character sets other than US-ASCII and UTF-8, mouse reports
  and replies (`state.c`), keys and modifiers (`main.c`), the merging of damage
  (`screen.c`), most attributes (`pen.c`), the pixels of an image and the 4096
  bytes its first block is decoded into, and that `end_callback` destroys the
  reader libpng is still working with (`inlinedata.c`).
- A `forkpty` that fails: `local_open` does not look at its result (`local.c` 25),
  the model's local session always opens.
- After a cause in `VTState`, after a quirk in `VParser` and `Glyphs`, after an
  overrun in `Selection`, in the undefined state of `KeyTransfer`, and for
  drags that are not `Ordinary`: the behaviour is modelled or stopped, but
  nothing is claimed of it.

## Plan

Done, in this order: `Scrollback` over `LineLog`; `VParser` over `VTStream`;
`VTState`; `Session`; then `KeyTransfer` over `Session`, `Selection` over
`Scrollback`, `InlineData`, `Glyphs`, `Screen`; the proofs of `Scrollback`,
`Session`, `KeyTransfer`, `VTState`, `Screen`; then, with `Foundations`, those of
`VParser`, `InlineData`, `Selection` and `Glyphs`. Every safety property of a
run that passes is now a theorem, and the number behind each liveness property
is one too.

What would come next, the most useful first:

1. Compositions: `VParser` with `Glyphs` (a character cut by a chunk and by a
   control), `VTState` with `Scrollback` (scrolls that fill the ring, also those
   of the alternate screen).
2. The arguments of CSI (`parser.c` 30-110), with counts that overflow.
3. The scanner of ReGIS commands; the output buffer, if hterm begins to read it.
