# wlshare, specified

TLA+ models of [wlshare](../src/README.md), a remote-desktop server for wlroots
compositors: what its threads and tasks do to the state they share, checked
with TLC on small instances, and theorems about them checked with TLAPS for
every instance.

Paths below are relative to the repository (`src/compositor.rs` is
`src/src/compositor.rs` from here). `PROJECT.json` gives, for every definition
that models code, the lines it models.

## The system

wlshare is one process: a **compositor thread** that owns the Wayland
connection and runs a calloop event loop; one **tokio task per client** (a
session); a few helper threads (audio, camera and microphone over PipeWire,
clipboard reads); and, as a separate program, the **watcher** that follows the
daemon's state socket.

They meet in `Shared` (`src/shared.rs`):

| what | written by | read by | kind |
|---|---|---|---|
| `commands` | sessions | compositor thread | calloop channel, in order, unbounded |
| `seats` | compositor thread | sessions, state socket | `watch`: the latest value only |
| `displays` (the list of outputs) | compositor thread | sessions | mutex |
| `desks[i].framebuffer` | compositor thread | sessions | mutex |
| `desks[i].frames` | compositor thread | sessions | `watch` of generations |
| `events` | compositor thread, clipboard reads | sessions | `broadcast` of 64 events, lossy |
| `clipboard`, cursor images | compositor thread | sessions | mutex |

### Components

| component | state | operations | hard because | correct when |
|---|---|---|---|---|
| Desks and seats (`compositor.rs`, `shared.rs`) | client of each of two desks, seats | joins, takeover, display beside, leaving | handshakes finish in any order, sessions end at any time and look late | the seats tell who is where; a display beside is its client's; whoever lost the desktop ends |
| Outputs (`outputs.rs`) | outputs, listed ones, selection of each desk | bind, `done`, remove, select, adopt | outputs come and go under clients that choose them | an output on one desk; the desktop on an output whenever there is one, on the configured one unless a client chose; the list current |
| Capture (`capture.rs`) | frame in flight, timer | start, stop, buffer, ready, failed | a blank picture and an idle output; frames of an output just left | pixels are of the desk's output; a watched desk is captured; nothing stays blank |
| Framebuffer (`framebuffer.rs`) | pixels, generation, size generation, log | resize, apply, damage since | a log that is trimmed and cleared | whoever asks is given all that changed |
| Session updates (`session.rs`) | requests, fence, seen generation, announcements, encoder | maybe_update, pump, messages | two looks at the framebuffer with the lock let go; an encoder that makes nothing; two reads of the clock | the client has what was counted as sent; a full request gets everything; no change is slept through |
| Session life (`session.rs`) | handshake, desk, subscriptions | handshake, wait for the output, superseded, pump | takeover races the wait and a blocked write | every session ends once told, and none without cause |
| Configurations (`outputs.rs`, `compositor.rs`) | pending resize, queued declaration, serials | SetDesktopSize, ClientDensity, outcomes | one declaration out at a time, cancelled ones retried once | each declaration settled; a resize that waits is of the client still there |
| Virtual displays (`sway.rs`) | count wanted, step in flight | next step, created, unplugged | sway answers before the output comes or goes | the count asked for is reached and never passed; the shared output stays |
| State socket, watcher (`state.rs`, `watch.rs`) | socket's inode, held, running command | bind, tell, follow, run commands | restarts, slow commands, a desktop freed and taken again | the last command run is the one for where the desktop stands |
| Quality walk (`walk.rs`) | quality, interval, cooldowns | fenced, written, settle, keyframe | history-dependent thresholds | bounds, no step against a refusal, and it arrives |
| Clipboard (`clipboard.rs`, `rfb/clipboard.rs`) | selection, offers, text | set, offer, selection, read | the daemon's own selection comes back; reads end late | both sides agree on the last text |
| Cursor (`cursor.rs`, `rfb/cursor.rs`) | cursor session, image | start, stop, capture | a session the compositor stops, an output that turns | the client is shown what the output's cursor paints |
| Audio (`audio.rs`), microphone, camera | queues, leases, jitter buffer, feed | put, take, push, fill, plug | limits and signals across threads, cancelled jobs | what is heard is what was asked for; a decoder's keyframe is coming; no lease lost |
| Input (`input.rs`) | held keys and owners, Shift fixes, pointers | key, pointer, scroll, desk left | two desks, one keyboard and one cursor | what goes down comes up, once; a pointer lands where it was aimed |
| Transport (`session.rs`, `rfb/rsa_aes.rs`, `rfb/msg.rs`) | phases, counters, bytes read | handshake, frame, open, parse | partial reads, order of messages, what follows the login | messages arrive whole and in order, or not at all |
| Tiles picture (`rfb/tiles.rs`), progressive stages | mirror, cache, streams, stages | read, encode, tick, upgrade | beliefs about the client that nothing confirms | the client's picture becomes exact |
| Pixel encodings, H.264 (`rfb/zrle.rs`, `rfb/planar.rs`, `h264/`) | palettes, planes, references, numbers | encode, code a frame | limits of run lengths and counters; a reference the daemon keeps itself | the reader has the picture |
| Logins, configuration file, capture files | – | – | calls and parsing | not modelled, see below |

## Modules

| module | models |
|---|---|
| `Desktop` | abstract: one client holds the desktop, a connection is beside it as that client's own, every connection has one turn |
| `Desks` | the compositor thread's two desks with the command channel, outputs, captures, seats and list |
| `DesksProofs` | proofs: types, who is on the desks, `Desks` implements `Desktop`; outputs, the list, captures and pictures |
| `UpdatesProofs`, `ConfigurationsProofs` | proofs of `Framebuffer` and `Updates`, and of `Configurations` |
| `SessionsProofs` | proofs of `Sessions` and `Walk` |
| `TilesProofs` | proofs of `Tiles` |
| `DaemonProofs` | proofs of `Watching`, `VirtualDisplays` and `Clipboard` |
| `DevicesProofs` | proofs of `Sound`, `Camera`, `Microphone` and `Inputs` |
| `CursorProofs` | proofs of `Cursor` |
| `Framebuffer` | one framebuffer: resize, frames by damage, the log |
| `Updates` | one session's updates over a `Framebuffer` (EXTENDS it) |
| `Configurations` | sizes and densities asked of the outputs, through the output manager |
| `Sessions` | one session's handshake, wait for the configured output, subscriptions, the lossy broadcast, what its client is told |
| `VirtualDisplays` | headless outputs made and unplugged through sway |
| `Watching` | state socket of several daemons, and the watcher that follows them |
| `Walk` | the quality and frame rate a link bears |
| `Tiles` | the tiles picture: the encoder's beliefs beside a client that draws what it is sent |
| `Planar`, `Zrle`, `Progressive`, `Wavelet`, `H264` | what the picture's rectangles and streams are coded with, and their readers |
| `Sound`, `Blocks` | captures, leases and queues of the desktop's sound; buffers made frames |
| `Camera`, `Microphone` | a client's camera and microphone lent to the desktop |
| `Clipboard`, `Texts` | whose text both clipboards hold; the messages a text crosses in |
| `Inputs`, `Motions` | keys, buttons and scrolls of two desks on one seat; where a motion lands |
| `Cursor` | the cursor's capture session, its image and its rectangles |
| `Transport` | handshake, RSA-AES and the parse of the client's messages, byte by byte |
| `MCDesks`, `MCUpdates`, `MCWalk` | values of the constants of one module |
| `MCConfigurations` | instances of `Configurations` and `Sessions` |
| `MCWatching` | instances of `Watching` and `VirtualDisplays` |
| `MCDevices` | instances of `Sound`, `Blocks`, `Camera`, `Microphone`, `Clipboard`, `Texts`, `Inputs`, `Motions`, `Cursor` and `Transport` |
| `MCTiles` | instances of `Tiles`, `Planar`, `Zrle`, `Progressive`, `Wavelet` and `H264` |

The last four put together parts that share no state. A variable `part` says
which of them a behaviour is of, and the others stand still: the states are the
sum of the parts' and not their product, and no property relates two of them.

Operators with a comment `Mutant:` are variants of the definition that follows
them with a plausible mistake in it. No specification uses them; each property
is shown to fail once the definition is replaced by its variant.

### Desks

State: `session` (what each connection has told the compositor thread),
`commands` (the channel), `outputs` (bound `wl_output`s) and `done` (those whose
properties arrived, which are the listed ones), `desks` (`DeskState`,
`Outputs::selected`, the capture's frame and timer, and whose pixels the
framebuffer holds), `seats`, `displays`, and the history variable `chosen`.

Each `Command` is one action: `ClientJoined`, `BesideJoined` (or
`RefuseBeside`), `ClientLeft`, `SelectOutput`. Each includes what its handler
calls: `end_beside`, `share_output`, `adopt_output`, `start_capture`,
`stop_capture`, `outputs_changed`. `Bind`, `OutputDone`, `GlobalRemove` are the
Wayland events about outputs; `BufferDone`, `FrameReady`, `CaptureFailed` and
`CaptureTimer` those about a frame and the timer. `Join`, `JoinBeside`, `Ask`,
`Leave` and `Superseded` are the sessions; ids are those of `next_client`, and
connections finish their handshakes in any order.

A handler is one step: the compositor thread is one thread. It writes the seats
in one or two writes, and a reader between the two sees the display beside ended
before the rest, which `Desktop` has a step for (`Unseat`).

Abstracted: names are numbers in the order of their names; sizes and scales;
pointer, keys, cursor, clipboard (let go with a desk, and modules of their
own); the growing delay after a failed frame; an output without a mode, which is
never listed. Discovery is `Init`: it ends before any client can connect.

### Desktop

`seats` and the set of connections that had their turn. `Desks` implements it
with `holder <- seats.holder`, `beside <- seats.beside` and `spent <- Spent`:
the connections whose join the compositor thread has handled, or that left
without one.

### Framebuffer

A rectangle is a set of tiles, and a tile's pixels are the generation that last
wrote them, so "the same pixels" is "the same generation". `Frame` is
`frame_ready`: a frame of another size resizes first (with its origin), then
`damage_for` and `apply`. `Resize` is `share_output` and `end_beside`. A frame's
report says whether the compositor reported any rectangle and what of them is
left after clipping. Merging rectangles covers what they covered, so
`damage_since` is a union.

### Updates

`phase` is where the task is: in the select (`waiting`), having read messages
(`reading`), woken otherwise (`looking`), between the two looks at the
framebuffer (`taking`), and on its way back into the select (`arming`). The
framebuffer may change at any point between. `held` is that a slowed link's next
frame is not due yet, whatever the walk's reasons; it becomes true when an update
goes out or a fence comes in, which is when the walk hears something, and false
with time. `client` is the other end once it has read everything written: the
size it was told, its picture, and whether its decoder holds the stream. A
client that asks for everything is taken to have lost its picture.

`Encoders` is what a client may ask for: rectangles (`"none"`), video (`"sure"`),
and video whose encoder may make no frame (`"unsure"`). The tiles picture is `Tiles`, SetEncodings
and what is announced `Sessions`.

### Configurations

The Wayland connection is two queues, requests (`daemon.requests`) and `events`,
with the compositor between: `Answers` applies, refuses or cancels a
configuration, `Syncs` answers a sync, `OthersConfigure` is somebody else.
`AskResize` and `AskDensity` are the sessions' commands, `HandleAsk`
the compositor thread's handler of either, `Event` all it does with one event:
`done` and what it settles, an outcome with its retry. `Joins` and `Leaves` let a
desk's requests go (`LetGo`), and `Captures` is the frame of a new size, which
ends a resize that waited for it. `daemon.declaring` is the declaration that is
out, `desks[d].queued` the one that waits, `daemon.owed` those not reported yet.

### Sessions

The compositor thread's handlers write geometry, list and cursor under one lock
after another and then announce them: `thread.todo` is what is left of a handler, and
`Proceed` its next write, so that a session reads between any two. The broadcast
keeps `CAPACITY` events and a receiver behind that has lagged. The session goes
through `Handshake`, `WaitsForOutput`, `Looks`, `WaitIsOver`/`Arrives`/`WaitEnds`,
`ServerInit`, and is then up: `SetEncodings`, `Request`, `SelectOutput`,
`FenceEchoed`, `EventReceived` (or `Lagged`), `Update`, `SessionEnds`. Its wait
for the configured output takes the desktop's joins and takeovers from
`OthersCommand`. Sizes and densities asked of the outputs are `Configurations`,
the picture `Updates` and `Tiles`.

### VirtualDisplays

`Want`, `ClientGoes` and `Select` are the client's; `News` is the next Wayland
event, with everything `reconcile_virtual_displays` does after it; `OthersUnplug`
is somebody else. A call of sway's IPC is made and answered inside the step
that makes it, and what it did arrives as news. `lost` remembers that an output
made for the client went before its properties came: the step in flight then
waits for an output somebody else plugs (see the hazards).

### Watching

A daemon starts in the steps of `state.rs` (`Probe`, `Clear`, `Bind`, `Known`),
tells its followers (`Tell`, to all of them), and is stopped or killed anywhere. The watcher's connection
(`Connect`, `ReadLine`, `StreamEnds`, `Retry`) and its loop (`WatcherLooks`,
`WatcherWakes`, `WatchedWhileRunning`, `WaitPasses`, `WaitIsOver`, `CommandEnds`,
`Freed`) are actions over a watch of its own, `said`.

### Walk

`Frames` is a fenced or a written frame with the whole verdict: the floor and the
window, cooldowns, steps up, refusals and what they hold off. `Settle` and
`Keyframe` are the session's other calls, `Tick` is time. Instants are ages that
stop growing where no threshold tells them apart, so time is unbounded and the
states are not.

### Tiles

One session's encoder and a client that draws every rectangle in order. An
update is `Read` and then `encode` in its own order: `Stills`, `Round` (streams
opened, retuned, ended, and their frames), `Tick` (upgrades and exact tiles of
what is owed), `Rest`. `Forget`, `Unpainted`, `CacheEmpty`, `SetPicture` and
`NewSize` start over what they start over. The desktop is a row of tiles and a
picture a colour for each; copies, churn, which frames a coder makes and what fits
an update's bytes are choices, so `PictureIsHeld` does not depend on them.

The code's promise is that the client's picture becomes exact. It is checked as a
state property: between updates each tile is either settled and right or in
debt, and `debts` is what arms the session's tick. A belief that is wrong is
therefore a violation at once, and no fairness is assumed of the desktop.

### Planar, Zrle, Progressive, Wavelet and H264

Each is an encoder of this repository and the reader its tests or its protocol
have, over inputs drawn a stroke at a time so that TLC reaches the
limits of control bytes: runs of 255 and 256, rows of packed indices, palettes of 127
and 128 colours, odd sizes. `Planar` keeps its packer's rows from one rectangle
to the next; `Progressive` codes a tile's first, full and upgrade passes bit by
bit, in bands shorter than the code's, also ahead of their turn; `Wavelet` is
the colours and one line of the transform; `H264` is what encoder is
found, which parts of the planes are converted, the reference, frame, order and IDR
numbers the daemon keeps, and the parameter sets and slice headers it writes.
zlib, zstd, libva and libx264 are external: they give back what they were given.

### Sound and Blocks

A session's jobs on other threads (open, close, take a lease) are steps of their
own in `job`, a takeover cancels the session at any of them and leaves them in
`orphans`. `Process` is PipeWire's callback, `FlushAudio` the session's
write. `Blocks` is what `Process` makes of one buffer.

### Camera and Microphone

`CameraHandle` is a message of the client, `Take` the camera's thread at its
queue, `CameraState` PipeWire opening and closing, `SendSignal` what the session
writes. The microphone's `Jitter` is `MicSample` (push) and `MicProcess` (fill).

### Clipboard and Texts

`Event` is the next event of the device or of a source, `ReadEnds` a thread that
read a selection, in any order, `Finished` the end of the device, `Command` the
compositor thread's SetClipboard; `Announce`, `Handle` and
`ClientReads` the messages, with `Answer` to a notify, peek or request. A read
overtaken by a later selection, or failed, is remembered in `spoilt`. `Texts` is
the bodies, line endings, terminator and ceiling of one text.

### Inputs and Motions

`Key` presses or lets go of a keysym with its Shift fix; `PointerTo`,
`PointerNowhere`, `Scroll`, `Point`, `Unpoint` and `LetGoOfDesk` are the pointers'
handlers, each with `SetButtons`. `Motions` is pure: `aim`'s arithmetic, the
transforms and the layout, with `MotionsLand` over every position on small
layouts.

### Cursor

`EventRead` takes the next Wayland event, which may be of a session already
destroyed; `RetryComes` is the retry; the compositor's side is `ShapeChanges`,
`Crosses`, `FrameAnswered` and `SourceGoes`. `Shares`, `PointerComes`,
`ClientJoins` and `ClientLeaves` are what starts and stops a session.

### Transport

Both ends, byte by byte: TCP hands over any prefix of what is in flight (`Fill`),
a frame is opened when it is whole (`TakeOpened`), a message parsed when it is
(`TakePlain`). `Harms` damages one byte, `ClientGoes` ends the client's side
anywhere. `Shape` is the lengths and bounds of the client's messages, a table for
each of `parse_client`'s modules.

## Runs

| run | shows |
|---|---|
| `desks` (`MCDesksSeats`) | three connections: `SeatsTellDesks`, `BesideIsTheHolders`, `BesideVerdictStands`, `TypeOK`, and that `Desks` implements `Desktop` (`FollowsDesktop`) |
| `desks_outputs` (`MCDesksOutputs`) | three outputs, one configured, two connections that select: `OutputOnOneDesk`, `PictureIsOfItsOutput`, `CaptureAlive`, `DesktopHasItsOutput`, `ListingIsCurrent`; under fairness `BlankIsPainted`, `BesideIsAnswered` |
| `updates` (`MCUpdates`) | rectangles, or video with an unsure encoder on a slowed link, every request: the log leaves out no tile (`LogHolds`), `ClientHasWhatIsSeen`, `DecoderIsFed`; under fairness `RectanglesCatchUp` |
| `configurations` (`MCConfigurations`) | no declaration left behind (`DeclarationInHand`), `PendingIsTheClients`; a session's wait is true of the desktop (`WaitIsTrue`) and its client told of it (`ToldIsCurrent`) |
| `watching` (`MCWatching`) | `ListenersAreFound`, `FreeOnlyWhenFree`, `NeverOneTooMany`; under fairness `SessionFollowsDesktop`, `WantedIsReached` |
| `walk` (`MCWalk`) | `RefusedIsOutOfReach`; under fairness `WalkArrives` |
| `devices` (`MCDevices`) | sound: `LeasesAreHeld`, `HostStaysSilent`, `SoundIsAsAsked`; `KeyframeIsComing` of the camera, `GapsAreWhole` of the microphone, `ClipboardsAgree`; input: `KeysAreTheClients`, `ScrollsWhereAimed`; `CursorIsCurrent`; `MessagesArrive`; `Blocks`, `Texts`, `Motions` and the image of the cursor together: `ConversionsHold` |
| `tiles` (`MCTiles`) | `PictureIsHeld`, `CodingsReturn` |
| `desks_ousted` (`MCDesksOusted`) | **violated** `OustedIsTold` |
| `updates_turn` (`MCUpdatesTurn`) | **violated** `CatchesUp` |
| `configurations_cancelled` (`MCConfigurationsCancelled`) | **violated** `CancelledIsAskedAgain` |
| `inputs_case` (`MCDevicesCase`) | **violated** `TypesWhatIsMeant` |

What each property says is the comment above it.

### Bounds

- `desks`: two connections are what a takeover needs, three a takeover of a
  client that has a display beside, or two connections beside with a client on
  the desktop. Two outputs are what a display beside needs, three that the
  desktop moves while one stays beside. `MaxWaiting` bounds only the requests to
  switch outputs that wait in the channel; joins and leaves are never held back.
- `updates`: `LogLimit` is 2 with up to 6 generations, so the log overflows and is
  cleared in between; two tiles are what a partial change needs. One rectangle to
  a frame (`MaxRects`), as wlroots reports: see the observations.
- `configurations`: two clients on two desks and three requests are what one out,
  one queued and one that replaces it need, and one change of somebody else's
  what cancels. The session's broadcast keeps two events, so three lag it.
- `watching`: two daemons, the second started over what the first left. At most
  two displays wanted, five outputs ever made.
- `walk`: a dial of 2 to 6 with every step and duration of the code kept in
  order, so that every branch of the verdict is taken.
- `devices`: queues of two, three frames, a jitter buffer of six; three copies,
  which is one that overtakes another; two letters and a Shift; three changes of
  the cursor; three messages cut anywhere, one byte damaged. `Clipboard`'s
  capabilities leave out clients that can neither ask nor be told and given.
- `tiles`: two tiles of three colours (interchangeable, hence the symmetry, used
  with invariants only), a cache of two slots, two streams, three stages; two
  changes and one start over. Run lengths and palettes reach past their limits.

`CHECK_DEADLOCK FALSE` everywhere: once every connection has had its turn and
nothing changes, or a bound is reached, there is nothing to do.

### Fairness, and why the code gives it

`Desks`: the compositor thread handles what is in its channel (`WF(Handle)`); a
session's `select!` notices the watch (`WF(Superseded)`); timers fire
(`WF(CaptureTimer)`, `WF(TurnComes)`). The compositor announces buffers and
delivers a frame asked for outright unless it fails, and does not fail for ever
(strong fairness); it owes nothing for a frame that waits for damage.

`Updates`: tokio's `select!` polls its branches in a random order, so a tick or a
fence that is ready does not lose for ever to other messages (strong fairness);
Look, Take and Arm are straight-line code (weak fairness). A client owes the echo
of a fence, which the protocol asks of it, and nothing else.

`Watching`: straight-line code of a start, the tasks of the daemon and of the
watcher (weak fairness), and that a command ends, since one past its timeout is
killed. Nothing is assumed of daemons, clients or the stop. `VirtualDisplays`:
the events of the Wayland connection are read (`WF(News)`). `Walk`: frames keep
being sent and time passes (`WF(Frames)`, `WF(Tick)`); a link that is clear, or
behind, from some point on is what its property is about, not an assumption.

The other specifications state no fairness, and their properties are safety.

### What the violated runs say

1. **An older connection can oust a newer one, which is not told**
   (`OustedIsTold`). Join order is handshake order, not id order;
   `superseded` compares ids. The newer session stays connected, its input
   ignored, until its client gives up.
2. **A slowed frame whose turn comes between two reads of the clock is not sent
   until something else happens** (`CatchesUp`).
3. **A cancelled declaration is not always asked again**
   (`CancelledIsAskedAgain`). The manager's `done` of somebody else's change
   settles the declaration that is out where the scale is already right; the
   cancellation read after it finds none out, and its size is not set.
4. **A Shift pressed for a key is not let go of around another**
   (`TypesWhatIsMeant`). `A` held and typed with a corrected Shift, then `b`:
   `B` is typed.

### Observed, and checked by no run

Each was met while modelling and reads off the code; no line of the repository
promises otherwise, or the case is excluded by a named bound.

- The seats' watch keeps the latest value: a takeover that is over by the time
  the ousted session looks is missed.
- An older connection beside replaces a newer one, and both end.
- A log cut inside a frame of several rectangles loses the ones cut off, for a
  session exactly one generation behind the frame. One rectangle to a frame, as
  wlroots reports, never shows it (`MaxRects` is 1).
- On a slowed link a cursor change counts as the answer to a non-incremental
  request, and the frames after it are changes only.
- An output made for a client that goes before its properties arrive leaves the
  step in flight until another output comes (`lost` in `VirtualDisplays`).
- A read of a selection that is overtaken by a later one, or fails, leaves the
  two clipboards apart until the next copy (`spoilt` in `Clipboard`).
- A session that lags the broadcast is told nothing of the geometry and the list
  until they change again; only the cursor is announced anew.
- Two daemons that start at the same moment can leave the one that listens where
  nobody looks for it (`overlap` in `Watching`).

## Proofs

TLAPS proves what follows for every value of the constants: any number of
clients, outputs and tiles (the sets may be infinite), any sizes, scales and
durations, any bound. TLC checks the same formulas on the small instances above.
Eight modules hold theorems, each over the modules of a component.

| theorem | module | says |
|---|---|---|
| `TypeCorrect` | `DesksProofs` | `[]TypeOK` |
| `SeatsTell` | `DesksProofs` | `[]SeatsTellDesks` |
| `BesideIsHolders` | `DesksProofs` | `[]BesideIsTheHolders` |
| `VerdictsStand` | `DesksProofs` | `BesideVerdictStands`, an action property |
| `DesksFollowDesktop` | `DesksProofs` | `FollowsDesktop`: `Desks` implements `Desktop` |
| `OnOneDesk` | `DesksProofs` | `[]OutputOnOneDesk` |
| `DesktopOnItsOutput` | `DesksProofs` | `[]DesktopHasItsOutput` |
| `ListCurrent` | `DesksProofs` | `[]ListingIsCurrent` |
| `PictureRight` | `DesksProofs` | `[]PictureIsOfItsOutput` |
| `CaptureLives` | `DesksProofs` | `[]CaptureAlive` |
| `TypeCorrect` | `UpdatesProofs` | types of a framebuffer and a session on it |
| `LogIsHeld` | `UpdatesProofs` | `[]LogHolds`, of one rectangle to a frame |
| `ClientHasIt` | `UpdatesProofs` | `[]ClientHasWhatIsSeen`, of one rectangle to a frame |
| `DecoderFed` | `UpdatesProofs` | `[]DecoderIsFed`, of any rectangles |
| `ConfigSafe` | `ConfigurationsProofs` | `[]ConfigInv`, the inductive invariant |
| `PendingIsItsClients` | `ConfigurationsProofs` | `[]PendingIsTheClients` |
| `DeclarationsSettle` | `ConfigurationsProofs` | `[]DeclarationInHand` |
| `SessionsSafe` | `SessionsProofs` | `[]SessionsInv`, the inductive invariant |
| `WaitFindsTrue` | `SessionsProofs` | `[]WaitIsTrue` |
| `ToldStaysCurrent` | `SessionsProofs` | `[]ToldIsCurrent` |
| `WalkSafe` | `SessionsProofs` | `[]WalkInv`, the inductive invariant |
| `RefusalHolds` | `SessionsProofs` | `[]RefusedIsOutOfReach` |
| `FoundWhereTheyListen` | `DaemonProofs` | `[]ListenersAreFound` |
| `FreeRunsWhenFree` | `DaemonProofs` | `FreeOnlyWhenFree`, an action property |
| `DisplaysAccounted` | `DaemonProofs` | `[]DisplaysInv`, the inductive invariant |
| `NoneTooMany` | `DaemonProofs` | `NeverOneTooMany`, an action property |
| `ClipboardSafe` | `DaemonProofs` | `[]ClipboardInv`, the inductive invariant |
| `SettledClipboardsAgree` | `DaemonProofs` | `[]ClipboardsAgree` |
| `SoundSafe` | `DevicesProofs` | `[]SoundInv`, the inductive invariant |
| `EveryLeaseIsHeld` | `DevicesProofs` | `[]LeasesAreHeld` |
| `SilentWhileRestarting` | `DevicesProofs` | `[]HostStaysSilent` |
| `HeardAsAsked` | `DevicesProofs` | `[]SoundIsAsAsked` |
| `CameraSafe` | `DevicesProofs` | `[]CameraInv`, the inductive invariant |
| `KeyframesCome` | `DevicesProofs` | `[]KeyframeIsComing` |
| `PointersSafe` | `DevicesProofs` | `[]PointersInv`, the inductive invariant |
| `ScrollsLand` | `DevicesProofs` | `[]ScrollsWhereAimed` |
| `KeysSafe` | `DevicesProofs` | `[]KeysInv`, the inductive invariant |
| `KeysAreHeld` | `DevicesProofs` | `[]KeysAreTheClients` |
| `MicrophoneSafe` | `DevicesProofs` | `[]MicrophoneInv`, the inductive invariant |
| `LateIsOneGap` | `DevicesProofs` | `GapsAreWhole`, an action property |
| `CursorSafe` | `CursorProofs` | `[]CursorInv`, the inductive invariant |
| `CursorStaysCurrent` | `CursorProofs` | `[]CursorIsCurrent` |
| `TilesInductive` | `TilesProofs` | `[]TilesInv`, the inductive invariant |
| `TilesPicture` | `TilesProofs` | `[]PictureIsHeld` |

### Assumed of the constants

Each is a named `ASSUME` of the module that declares the constants, which TLC
evaluates on every run.

- `Desks`: ids are positive (`ClientsAssumption`; `next_client` starts at 1),
  outputs are ordered so that every non-empty set of them has a first
  (`OutputsAssumption`; the list is sorted), the configured output is one of
  them or none (`WantedAssumption`), and `BoundAssumption`.
- `Framebuffer`, `Updates`: there is a tile and a size, the log has room for an
  entry, the server is none of the clients; `Fences`, `Encoders` and `Requests`
  are of the kinds the code has.
- `Configurations`: there is a width and a scale, and neither is what stands for
  none; a request is of them (`ConfiguredAssumption`).
- `Sessions`: the configured output is one there may be, the broadcast keeps at
  least one event (`SessionsAssumption`).
- `Walk`: durations are durations and steps are positive (`WalkAssumption`). It
  orders the cooldowns as `walk.rs` does, and has a step refused for a shorter time
  than a refusal is held (`REFUSAL_WINDOW + 1 < REFUSAL_HOLD`: 4 s and 15 s in the
  code, walk.rs:55-219).
- `Tiles`: there is a tile and a stream, no colour is the one of a picture torn, and
  the cache has a slot for every tile of a row (`TilesAssumption`): 4096 slots
  (`CACHE_SLOTS`, wlshare-proto tiles.rs:157) for at most 1024 tiles of 64 pixels
  across a desktop whose width the protocol sends in 16 bits. Without it a run's
  stores could take a slot the same run draws from.
- `Watching`, `VirtualDisplays`, `Clipboard`, `Sound`, `Camera`, `Microphone`,
  `Inputs`, `Cursor`: numbers are numbers, an image has a pixel at each place, a
  queue has room for one, Shift keys are no letters.

One hypothesis is in the theorems and no assumption: `OneRectangle`, that a
frame's damage is one rectangle, in `LogIsHeld` and `ClientHasIt`. Without it
both are false: a log cut inside a frame of several rectangles loses some of them
(see *Observed*). `DecoderFed` and the types do not need it.

### The arguments

Every theorem rests on an inductive invariant: a formula that holds at first,
that every action keeps, and that implies the property. What it has beside the
property is why the code is right.

**Desks.** Four layers, each using those before it:

1. `TypeOK` is inductive by itself (`TypeInit`, `TypeNext`: one step per
   action, over lemmas that say what each operator returns).
2. `SeatsInv` adds what relates desks, seats and channel. `SeatsTellDesks` is
   not inductive without `JoinsOnce`: `RefuseBeside` clears the seat of the
   connection it refuses, so that connection must not be the one seated, which
   holds because a connection joins once and is on no desk while its join is in
   the channel. `BesideIsTheHolders` needs that a second desk with nobody on it
   is empty (`BesideGivesBack`), since a join on a free desktop does not call
   `end_beside`. What each action does to the seats is a lemma of its own
   (`ClientJoinedTakes`, `RefuseBesideRefuses`, `BesideJoinedSits`,
   `ClientLeftLeaves`, `ElsewhereStands`), which the invariant, the action
   property and the refinement all use.
3. `OutputsInv` adds that what a desk shares is listed (`SharedIsListed`):
   without it an output could be announced (`Bind`) under a desk that claims it,
   or go while the list still counts it.
4. `CaptureInv` adds that each desk is captured while it is watched
   (`Captured`). It needs layer 3 where outputs come and go: `Bind` must not
   make a desk watched whose capture nobody started, and after the last output
   went only the desktop keeps a picture.

The refinement maps each join and each leave of a connection that never joined
to one turn (`TellsTurn`, `ReceivedTurn`: `JoinsOnce` again), and every other
step to `Vacate`, `Unseat` or a stutter.

**Updates.** `LogHolds` needs that the log is the last generations one after the
other, all since the size last changed, and that each entry has the tiles whose
pixels are of its generation (`Recent`). With one rectangle to a frame a cut is
then between frames, and `damage_since` knows by its oldest entry whether it can
answer. `ClientHasWhatIsSeen` follows once `seen` is never ahead of the framebuffer
(`Shows`): a session that cannot be answered from the log asks for everything.
`DecoderIsFed` is apart from both: a decoder that holds nothing of the stream is
one a keyframe is owed to, or one that was sent nothing yet (`Fed`).

**Configurations.** `ConfigInv` names what is with the compositor, what it sent
that is not read (`Flying`, `Passing`) and what the commands not handled ask
(`Unhandled`). The declaration that is out is then always one of those passing
(`Handed`): its configuration, the sync after a cancelled one, or the outcome of
either. What waits on a desk waits behind one that is out (`Waiting`), and whoever
is owed a report has its request out, waiting or not handled (`OwedGood`). A
declaration on its way is tied to its request and client by an id given once
(`KindGood`), since its client may have left, or sit on the other desk, before its
outcome is read; `PendingIsTheClients` is the same for a desk's own waits
(`DesksGood`).

**Sessions.** The compositor's thread writes the framebuffer, the geometry, the
list and the cursor under locks of their own, and a session reads between any
two. `SessionsInv` has three parts. `Runs`: of the steps a handler has left, the
framebuffer follows the selection and the list follows both, so where the list
names the output the desktop is on, the framebuffer is that output's; and where
it names the configured output with the desktop elsewhere, a client chose so.
`Told`: every change of what is shared is still to be announced by the handler,
unread in the broadcast, lost as the receiver knows, or told. `Found` carries
what the wait read to `ServerInit`.

**Walk.** `WalkInv` is that while the last refusal is held the cap the walk
remembers is as old and under the quality that was refused, and so is the dial
(`Capped`), and that a step that may still be refused went up (`StepsUp`), which is
what puts the cap under it. A refusal must be held for longer than the time in
which a step can be refused, or the one before would be forgotten inside it:
that is the last conjunct of `WalkAssumption`.

**Watching.** While no two daemons start at once, the one that starts does so
with nobody listening until it listens itself (`DaemonsInv`): that it unlinks the
file it found takes nothing from anybody. The watcher's wait for a free desktop
is over news that it is free (`WatcherInv`).

**Virtual displays.** `Accounted`: of the outputs plugged the daemon lacks only the
one it waits for, which is the last made and which at most one event unread
still brings. What somebody else unplugs can then only lower the count: with
nothing waited for, what is plugged is among what is here, so a step that asks for
one more leaves at most what is wanted.

**Clipboard.** Two halves, where the seat has a data device and for as long as no
read was overtaken or failed.
`DesktopStands`: the events unread end with the selection, the last request that
the compositor has not handled offers the text kept, from this server's last
source, and that source's end is told by a cancelled event still unread. With neither
unread, the text kept is the selection's or one read is to bring it.
`WireStands`: a client that takes all has still to ask, is being given, or is to
be given the text kept, or what is last on the wire lands it on that. A copy of
the client's own leaves this open until its text is the server's (`server.source`),
which is where the halves meet.

**Devices.** The speaker's count is a sum of four cardinalities, of the captures,
the restarts, the streams being connected and the jobs of cancelled sessions.
`SoundInv` says where each session stands between the jobs of a restart
(`Stands`), so that each step moves one element between these sets, or in or
out of one; and that what is captured is what was asked, and an Opus stream's
packets follow each other (`Streams`). For the camera, a gap and a decoder that
waits each have a keyframe still to come in one of four places: among the signals,
on the wire either way, or owed by the client (`Awaited`), and the client that
owes it goes on sending (`SendsOn`). For the pointers, the seat's buttons are those
each desk's client holds, and the cursor is where the last desk to aim put it. For the keys (`KeysInv`), what
is held is what the desks' clients hold, and Shift is as it was fixed for what is
held (`Fits`); a press and a release each keep that (`PressKeeps`, `LetGoKeeps`).
A desk that is left lets go of its keys one after the other, in the order of a hash
set: that all of them keep it is an induction over the keys (`StepByStep`, from
the well-foundedness of `<`, with the invariant as a set rather than an operator),
and that `release_all` then finds nothing held is part of it. For the microphone
(`MicrophoneInv`), after a quantum that ran dry the buffer is not playing, and every
sample in it is of the recording there is: so a node that has been silent speaks
again only from a full prefill.

**Cursor.** Each thing the compositor has told a session of its cursor, its size,
its hotspot, whether it is on the output and its frame, is either the last of its
kind still unread or taken in as it was told (`Tells`). A frame that was answered
is moreover the last of all that an image is made with, so a size or a hotspot told
after it is of another cursor, which owes a frame of its own; and the image held
is captured of it (`Traces`). Of a session that was stopped nothing is claimed but
that its end is unread. Ids are given once, so the events of one that is gone are
of none there is, and reading them changes nothing.

**Tiles.** The encoder never hears what the client shows, so the invariant is about
the two together, and about what an update leaves half done to its next step.
`TilesInv` has four parts:

1. `CacheHolds`: the record has the first slots, each once, and no tile's picture
   twice; and a slot keeps what its entry says, settled where it says so. A lookup
   then has at most one answer. A run's hits are looked up before its stores take
   slots, and the oldest slot is the one taken; all the run's hits are touched
   first, so with as many slots as a row has tiles no store reaches one that is
   still to be drawn (`TilesAssumption`).
2. `StreamsHold`: no two streams share an id or a tile, each carries a box, what
   waits for a frame lies in it, and the tiles a stream carries are in debt and
   owed no still. The client decodes the streams that started, or, when all is
   to be sent again, those the encoder still owes an END. That a stream has no still
   under it is kept because a stream that meets the box of the stills and none of
   them lies, in a row, between two of them, and so ends with the box.
3. `PictureHolds`: a tile is in debt, or right, or owed a still of all that is wrong
   with it (`Sound`); and the coefficients the encoder builds an upgrade on are the
   client's (`PassHolds`). A read leaves each tile that it changed in debt or in a
   still. A copy reads only tiles that are right or in debt, and takes the debt
   along; a still that is owed in part has the rest of its tile right, which is
   why what a copy overwrites may be left out of it.
4. `PhaseHolds`: what each step of an update leaves to the next: past `Stills`
   whatever is owed is in debt, and a picture to be sent whole has nothing else
   about it.

A send is shown to settle the tiles of its run and to keep the others, tile by
tile. `InOrder` is a recursive function over the row, so that this is an
induction on the place in the row, with the property of the pair as a set, as for
the keys above; the same for the runs of an update and for the areas a retune
wants.

### Only model-checked

- Every liveness property, with the fairness it needs: the prover has no rule for
  `ENABLED`.
- `Planar`, `Zrle`, `Progressive` and `Transport` declare `RECURSIVE`
  operators, which the prover's main backend does not take: `CodingsReturn`
  and `MessagesArrive` are for TLC, over the bounded inputs above. `Wavelet`, `H264`, `Texts`, `Blocks` and `Motions` compute over images,
  coefficients, bits and samples, and are checked the same way.
- `ConversionsHold` is about `Blocks`, `Texts` and `Motions`, and so among the above;
  and about the image of the cursor, pixel by pixel (`CursorIsDrawn`).

## Plan

What is modelled is what the plan had, and every safety property of it that the
prover can reach is proved. What could come next is in *Not modelled*.

## Not modelled

- Logins (`auth.rs`, `pam.rs`): calls of PAM and Argon2. That a login is asked
  for, and what follows it on the wire, is in `Transport`.
- The configuration file (`config.rs`), the capture files (`wlcap.rs`), the
  examples and benchmarks: parsing, a file format and measurements, without
  state that others share.
- The client library (`rfb/client.rs`, of which the tests and examples are the
  users) and the layouts of the server's messages, whose round trips tests cover.
- The accept loop and the signals that stop the daemon: one connection to a task
  and one exit.
- libva, libx264, PipeWire, FLAC, Opus, zlib, zstd and the ciphers: external, and
  either symbolic or what their contract says.
- Buffer formats and mappings in `capture.rs`, and its growing delay after
  failures; the wheel's notches, locks and keyboard layouts in `input.rs`;
  clients that change their clipboard capabilities mid-session.
- Of the progressive coding, the arrangement of the wavelet's three levels in two
  dimensions and which of two passes is cheaper: either choice is taken.
