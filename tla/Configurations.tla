---------------------------- MODULE Configurations ----------------------------
(***************************************************************************)
(* What a client asks of its desk's output: a size (SetDesktopSize) and a  *)
(* density (ClientDensity), which the compositor thread asks of the        *)
(* compositor as output configurations (src/outputs.rs,                    *)
(* src/compositor.rs).  A configuration is made against the layout last    *)
(* announced, by serial: one that meets another layout is cancelled, and   *)
(* asked once more.  One declaration's configuration is out at a time; a   *)
(* later one waits, and one that is replaced while it waits is answered.   *)
(*                                                                         *)
(* The Wayland connection is two queues: requests to the compositor and    *)
(* events from it.  A head's changes and the manager's `done` after them   *)
(* are one event, "layout".  The compositor is external: it applies a      *)
(* configuration, refuses it, or cancels it, and somebody else may         *)
(* configure an output at any time.  The first desk always shares an       *)
(* output, the one beside while it has a client.                           *)
(***************************************************************************)
EXTENDS Integers, Sequences, FiniteSets

CONSTANTS
  Clients,     \* Connections, as Shared::next_client numbers them.
  Headless,    \* The desks whose output is headless: others are not configured.
  Widths,      \* Sizes an output may be asked to have.
  Scales,      \* Scales an output may be asked to have.
  Asks,        \* What a client may ask: a size, and a scale or NoScale with it.
  MaxAsks,     \* Bound: requests of the clients and changes of others together.
  MaxOthers    \* Bound: changes somebody else makes to the outputs.

Nobody == 0
FIRST  == 1
BESIDE == 2
Desk   == {FIRST, BESIDE}

\* What a desk's output is: its mode's size and the scale it is drawn at.
Shape == [size : Widths, scale : Scales]

NoSize  == 0
NoScale == 0

ASSUME ConfiguredAssumption ==
  /\ Clients \subseteq Nat \ {Nobody}
  /\ Headless \subseteq Desk
  /\ Widths \subseteq Nat \ {NoSize} /\ Widths # {}
  /\ Scales \subseteq Nat \ {NoScale} /\ Scales # {}
  /\ Asks \subseteq [size : Widths, scale : Scales \cup {NoScale}]
  /\ MaxAsks \in Nat /\ MaxOthers \in Nat

VARIABLES
  heads,     \* The compositor's outputs: [Desk -> Shape].
  layout,    \* Its serial, and how many changes somebody else made.
  events,    \* What it sent and the compositor thread has not read.
  daemon,    \* The compositor thread's state, see Daemon.
  pictures,  \* The desks' framebuffers: size, and whose resize gave it.
  commands,  \* The command channel.
  asks       \* How many requests the clients have made, and who was on a desk.

configVars == <<heads, layout, events, daemon, pictures, commands, asks>>

-----------------------------------------------------------------------------
(* A configuration as the daemon sends it, and the state of the thread.    *)

NoneOut  == [id |-> 0, desk |-> FIRST, ask |-> 0]
NoResize == [client |-> Nobody, size |-> NoSize]
NoWait   == [client |-> Nobody, size |-> NoSize, scale |-> NoScale, ask |-> 0]

Kind == [kind : {"resize", "declare"}, id : Nat, desk : Desk,
         client : Clients, size : Widths, scale : Scales \cup {NoScale},
         ask : Nat, retry : BOOLEAN]

Waits == [client : Clients, size : Widths, scale : Scales, ask : Nat] \cup {NoWait}

DeskState == [client : Clients \cup {Nobody},
              pending : [client : Clients, size : Widths] \cup {NoResize},
              queued : Waits]

\* `known` is the layout last announced.  `owed` is history: the declarations
\* whose clients have had no report.
Daemon == [known     : [heads : [Desk -> Shape], serial : Nat],
           desks     : [Desk -> DeskState],
           declaring : [id : Nat, desk : Desk, ask : Nat],
           next      : Nat,
           requests  : Seq([kind : Kind, serial : Nat] \cup [sync : Nat]),
           geometry  : [Desk -> [size : Widths \cup {NoSize}, scale : Scales]],
           owed      : SUBSET Nat]

\* A desk shares an output: the first always, the one beside with its client.
Shares(D, d) == d = FIRST \/ D.desks[d].client # Nobody

Current(D, d) ==
  IF Shares(D, d) THEN D.known.heads[d]
  ELSE [size |-> NoSize, scale |-> CHOOSE s \in Scales : \A t \in Scales : s <= t]

\* The desk's clients are told its geometry, which answers `answered`.
\* answer_geometry and geometry_changed: the report is of the output as known.
Reported(D, d, answered) ==
  [D EXCEPT !.geometry[d] = Current(D, d), !.owed = @ \ {answered}]

\* Outputs::configure: made against the layout known, and not at all for an
\* output that is not headless or a desk that shares none.
Configurable(D, d) == d \in Headless /\ Shares(D, d)

Configured(D, kind) ==
  [D EXCEPT !.requests = Append(@, [kind |-> kind, serial |-> D.known.serial])]

DeclaredOut(D, kind) ==
  Configured([D EXCEPT !.next = kind.id + 1,
                       !.declaring = [id |-> kind.id, desk |-> kind.desk,
                                      ask |-> kind.ask]], kind)

\* Compositor::resize.  Where nothing is sent the client is refused.
Resized(D, d, kind) ==
  IF Configurable(D, d)
  THEN Configured([D EXCEPT !.desks[d].pending =
                     [client |-> kind.client, size |-> kind.size]], kind)
  ELSE [D EXCEPT !.desks[d].pending = NoResize]

\* Compositor::declare: one waits while a declaration is out, the one it
\* replaces is answered; one that changes nothing, or cannot, is answered.
Declared(D, d, w, retry) ==
  IF D.declaring.id # 0
  THEN Reported([D EXCEPT !.desks[d].queued = w], d, D.desks[d].queued.ask)
  ELSE LET now == Current(D, d)
           kind == [kind |-> "declare", id |-> D.next, desk |-> d,
                    client |-> w.client, size |-> w.size, scale |-> w.scale,
                    ask |-> w.ask, retry |-> retry]
       IN IF now = [size |-> w.size, scale |-> w.scale]
          THEN Reported(D, d, w.ask)
          ELSE IF Configurable(D, d)
          THEN DeclaredOut([D EXCEPT !.desks[d].pending =
                              IF w.size = now.size THEN NoResize
                              ELSE [client |-> w.client, size |-> w.size]],
                           kind)
          ELSE Reported([D EXCEPT !.desks[d].pending = NoResize,
                                  !.next = @ + 1], d, w.ask)

(* Mutant: the answer is given, and what waited keeps waiting.             *)
SettledAlone(D) == D

\* What waits on a desk runs, if none is out and its client is still there.
WaitedOn(E, d) ==
  LET w == E.desks[d].queued
      F == [E EXCEPT !.desks[d].queued = NoWait]
  IN IF E.declaring.id # 0 \/ w = NoWait THEN E
     ELSE IF E.desks[d].client = w.client THEN Declared(F, d, w, FALSE)
     ELSE F

\* Compositor::declaration_settled: what waits on each desk runs, until one
\* is out.
Settled(D) == WaitedOn(WaitedOn(D, FIRST), BESIDE)

\* The declaration out is taken: take_if.
Taken(D) == [D EXCEPT !.declaring = NoneOut]

(* Mutant: what a client asked of its output stays when it goes.           *)
LetGoOfInput(D, d) == [D EXCEPT !.desks[d].queued = NoWait]

\* Compositor::let_go.
LetGo(D, d) ==
  [D EXCEPT !.desks[d].queued = NoWait,
            !.desks[d].pending =
               IF @.client = D.desks[d].client THEN NoResize ELSE @]

\* Whoever was on the desk is not any more, and is owed nothing.
Gone(D, d, asked) ==
  LET E == LetGo(D, d)
  IN [E EXCEPT !.desks[d].client = Nobody, !.owed = @ \ asked]

DeskOf(D, c) == {d \in Desk : D.desks[d].client = c}

-----------------------------------------------------------------------------
InitHeads ==
  [d \in Desk |-> [size  |-> CHOOSE s \in Widths : \A t \in Widths : s <= t,
                   scale |-> CHOOSE s \in Scales : \A t \in Scales : s <= t]]

\* A client has the desktop.
ConfigInit ==
  /\ heads = InitHeads
  /\ layout = [serial |-> 1, others |-> 0]
  /\ events = <<>>
  /\ \E c \in {x \in Clients : \A y \in Clients : x <= y} :
     daemon = [known |-> [heads |-> InitHeads, serial |-> 1],
               desks |-> [d \in Desk |-> [client  |-> IF d = FIRST THEN c ELSE Nobody,
                                          pending |-> NoResize, queued |-> NoWait]],
               declaring |-> NoneOut, next |-> 1, requests |-> <<>>,
               geometry |-> InitHeads, owed |-> {}]
  /\ pictures = [d \in Desk |-> [size |-> InitHeads[d].size, origin |-> Nobody]]
  /\ commands = <<>>
  /\ asks = [made |-> 0, by |-> [n \in 1 .. MaxAsks |-> Nobody],
             met |-> {daemon.desks[FIRST].client}]

\* The requests of those who are, or were, on a desk.
AsksOf(c) == {n \in 1 .. asks.made : asks.by[n] = c}

-----------------------------------------------------------------------------
(* The clients.  Who is on a desk is the subject of another specification: *)
(* here a desk's client comes once, and goes when it goes or is taken over.*)

\* ClientJoined, or BesideJoined: the client that was there is let go, and
\* with the desktop's goes the display beside.
Joins(d, c) ==
  /\ c \notin asks.met
  /\ d = BESIDE => daemon.desks[FIRST].client # Nobody
  /\ LET left == IF d = FIRST THEN Desk ELSE {BESIDE}
         asked == UNION {AsksOf(daemon.desks[e].client) : e \in left}
         D == IF d = FIRST THEN Gone(Gone(daemon, FIRST, asked), BESIDE, asked)
              ELSE Gone(daemon, BESIDE, asked)
         E == [D EXCEPT !.desks[d].client = c]
     IN daemon' = IF d = BESIDE
                  THEN Reported([E EXCEPT !.desks[d].pending = NoResize], d, 0)
                  ELSE E
  /\ pictures' =
       IF d = BESIDE
       THEN [pictures EXCEPT ![d] = [size |-> daemon.known.heads[d].size, origin |-> Nobody]]
       ELSE pictures
  /\ asks' = [asks EXCEPT !.met = @ \cup {c}]
  /\ UNCHANGED <<heads, layout, events, commands>>

\* ClientLeft.
Leaves(c) ==
  /\ \E d \in DeskOf(daemon, c) :
       LET left == IF d = FIRST THEN Desk ELSE {BESIDE}
           asked == UNION {AsksOf(daemon.desks[e].client) : e \in left}
           D == Gone(daemon, BESIDE, asked)
       IN daemon' = IF d = FIRST THEN Gone(D, FIRST, asked) ELSE D
  /\ UNCHANGED <<heads, layout, events, pictures, commands, asks>>

Asked(c, a) ==
  /\ asks.made + layout.others < MaxAsks
  /\ commands' = Append(commands, [client |-> c, size |-> a.size,
                                   scale |-> a.scale, ask |-> asks.made + 1])
  /\ asks' = [asks EXCEPT !.made = @ + 1, !.by[asks.made + 1] = c]

\* SetDesktopSize: of the size the desktop has it is answered at once.
AskResize(c, a) ==
  /\ a.scale = NoScale
  /\ \E d \in DeskOf(daemon, c) : pictures[d].size # a.size
  /\ Asked(c, a)
  /\ UNCHANGED <<heads, layout, events, daemon, pictures>>

\* ClientDensity.
AskDensity(c, a) ==
  /\ a.scale # NoScale
  /\ DeskOf(daemon, c) # {}
  /\ Asked(c, a)
  /\ daemon' = [daemon EXCEPT !.owed = @ \cup {asks.made + 1}]
  /\ UNCHANGED <<heads, layout, events, pictures>>

\* handle_command: only the client on a desk is heard.
HandleAsk ==
  /\ commands # <<>>
  /\ commands' = Tail(commands)
  /\ LET w == commands[1]
     IN \/ /\ DeskOf(daemon, w.client) = {}
           /\ UNCHANGED daemon
        \/ \E d \in DeskOf(daemon, w.client) :
             daemon' =
               IF w.scale = NoScale
               THEN Resized(daemon, d, [kind |-> "resize", id |-> 0, desk |-> d,
                                        client |-> w.client, size |-> w.size,
                                        scale |-> NoScale, ask |-> w.ask,
                                        retry |-> FALSE])
               ELSE Declared(daemon, d, w, FALSE)
  /\ UNCHANGED <<heads, layout, events, pictures, asks>>

-----------------------------------------------------------------------------
(* The compositor, which is external.                                      *)

LayoutEvent(to, serial) == [event |-> "layout", heads |-> to, serial |-> serial]

\* It reads a configuration: cancelled if the layout is not the one it was
\* made against, otherwise refused, or applied, which the outputs' changes
\* and `done` go before or after.
Answers ==
  /\ daemon.requests # <<>>
  /\ "kind" \in DOMAIN daemon.requests[1]
  /\ LET r == daemon.requests[1]
         Outcome(e) == [event |-> e, kind |-> r.kind]
         to == [heads EXCEPT ![r.kind.desk].size = r.kind.size,
                             ![r.kind.desk].scale =
                                IF r.kind.scale = NoScale THEN @ ELSE r.kind.scale]
         after == LayoutEvent(to, layout.serial + 1)
     IN \/ /\ r.serial # layout.serial
           /\ events' = Append(events, Outcome("cancelled"))
           /\ UNCHANGED <<heads, layout>>
        \/ /\ r.serial = layout.serial
           /\ events' = Append(events, Outcome("failed"))
           /\ UNCHANGED <<heads, layout>>
        \/ /\ r.serial = layout.serial /\ to = heads
           /\ events' = Append(events, Outcome("succeeded"))
           /\ UNCHANGED <<heads, layout>>
        \/ /\ r.serial = layout.serial /\ to # heads
           /\ events' \in {events \o <<after, Outcome("succeeded")>>,
                           events \o <<Outcome("succeeded"), after>>}
           /\ heads' = to
           /\ layout' = [layout EXCEPT !.serial = @ + 1]
  /\ daemon' = [daemon EXCEPT !.requests = Tail(@)]
  /\ UNCHANGED <<pictures, commands, asks>>

Syncs ==
  /\ daemon.requests # <<>>
  /\ "sync" \in DOMAIN daemon.requests[1]
  /\ events' = Append(events, [event |-> "synced", id |-> daemon.requests[1].sync])
  /\ daemon' = [daemon EXCEPT !.requests = Tail(@)]
  /\ UNCHANGED <<heads, layout, pictures, commands, asks>>

\* Somebody else configures an output.
OthersConfigure ==
  /\ layout.others < MaxOthers
  /\ asks.made + layout.others < MaxAsks
  /\ \E d \in Desk :
       \/ \E s \in Widths \ {heads[d].size} : heads' = [heads EXCEPT ![d].size = s]
       \/ \E f \in Scales \ {heads[d].scale} : heads' = [heads EXCEPT ![d].scale = f]
  /\ layout' = [serial |-> layout.serial + 1, others |-> layout.others + 1]
  /\ events' = Append(events, LayoutEvent(heads', layout'.serial))
  /\ UNCHANGED <<daemon, pictures, commands, asks>>

\* A frame of a desk's output is captured, as big as the output is then.
Captures(d) ==
  /\ Shares(daemon, d)
  /\ \A i \in DOMAIN events : events[i].event # "frame"
  /\ heads[d].size # pictures[d].size
  /\ events' = Append(events, [event |-> "frame", desk |-> d, size |-> heads[d].size])
  /\ UNCHANGED <<heads, layout, daemon, pictures, commands, asks>>

-----------------------------------------------------------------------------
(* The compositor thread reads an event.                                   *)

Reads(e) ==
  /\ events # <<>>
  /\ events[1].event = e
  /\ events' = Tail(events)
  /\ UNCHANGED <<heads, layout, commands, asks>>

\* The manager's `done`, for a desk whose output changed scale: the report
\* answers the declaration out for that desk, and the next one runs.
ScaleTold(D, d) ==
  IF D.declaring.id # 0 /\ D.declaring.desk = d
  THEN Settled(Reported(Taken(D), d, D.declaring.ask))
  ELSE Reported(D, d, 0)

\* A desk whose output's scale is among the changed, and one whose output is
\* `done`, are told their geometry, if they share it.
Told(D, d, changed) == IF d \in changed /\ Shares(D, d) THEN ScaleTold(D, d) ELSE D
Sized(D, d)         == IF Shares(D, d) THEN Reported(D, d, 0) ELSE D

\* A layout is announced: the desks whose output's scale changed are told in
\* the heads' order, and the wl_outputs' own `done` tells of a size.
LayoutChanged ==
  /\ Reads("layout")
  /\ LET now     == [heads |-> events[1].heads, serial |-> events[1].serial]
         changed == {d \in Desk : now.heads[d].scale # daemon.known.heads[d].scale}
         D       == [daemon EXCEPT !.known = now]
     IN \E d \in Desk : \E e \in Desk \ {d} :
          daemon' = Sized(Sized(Told(Told(D, d, changed), e, changed), FIRST), BESIDE)
  /\ UNCHANGED pictures

\* Succeeded: a declaration may still have to be answered, one round trip on.
Succeeds ==
  /\ Reads("succeeded")
  /\ daemon' =
       IF events[1].kind.kind = "declare" /\ daemon.declaring.id = events[1].kind.id
       THEN [daemon EXCEPT !.requests = Append(@, [sync |-> events[1].kind.id])]
       ELSE daemon
  /\ UNCHANGED pictures

\* The same declaration, against the layout there is now.
AskedAgain(k, D) ==
  Declared(D, k.desk, [client |-> k.client, size |-> k.size, scale |-> k.scale,
                       ask |-> k.ask], TRUE)

\* Cancelled, of one not asked again yet: a resize if its client is still on a
\* desk, a declaration that is still out if its client is still on its desk.
Cancels ==
  /\ Reads("cancelled")
  /\ ~events[1].kind.retry
  /\ LET k == events[1].kind
     IN \/ /\ k.kind = "resize"
           /\ daemon' =
                IF DeskOf(daemon, k.client) = {} THEN daemon
                ELSE LET d == CHOOSE x \in DeskOf(daemon, k.client) : TRUE
                     IN Resized([daemon EXCEPT !.desks[d].pending = NoResize], d,
                                [k EXCEPT !.retry = TRUE, !.desk = d])
        \/ /\ k.kind = "declare"
           /\ daemon' =
                IF daemon.declaring.id # k.id THEN daemon
                ELSE LET D == Taken([daemon EXCEPT
                                       !.desks[k.desk].pending = NoResize])
                     IN Settled(IF D.desks[k.desk].client = k.client
                                THEN AskedAgain(k, D) ELSE D)
  /\ UNCHANGED pictures

\* A declaration refused is answered with the output as it is.
DeclarationRefused(k, D) == Settled(Reported(Taken(D), k.desk, k.ask))

\* Failed, or cancelled once more.
Refuses ==
  /\ events # <<>>
  /\ events[1].event = "failed" \/ (events[1].event = "cancelled" /\ events[1].kind.retry)
  /\ Reads(events[1].event)
  /\ LET k == events[1].kind
     IN \/ /\ k.kind = "resize"
           /\ daemon' = IF DeskOf(daemon, k.client) = {} THEN daemon
                        ELSE [daemon EXCEPT !.desks =
                                [d \in Desk |-> IF @[d].client = k.client
                                                THEN [@[d] EXCEPT !.pending = NoResize]
                                                ELSE @[d]]]
        \/ /\ k.kind = "declare"
           /\ daemon' =
                IF daemon.declaring.id # k.id THEN daemon
                ELSE DeclarationRefused(k, [daemon EXCEPT
                                              !.desks[k.desk].pending = NoResize])
  /\ UNCHANGED pictures

\* The round trip after a success is over and the declaration is still out.
ScaleSettles ==
  /\ Reads("synced")
  /\ LET D == Taken(daemon)
     IN daemon' = IF daemon.declaring.id # events[1].id THEN daemon
                  ELSE Settled(Reported(D, daemon.declaring.desk, daemon.declaring.ask))
  /\ UNCHANGED pictures

\* frame_ready: a frame of the size a client's accepted resize asked is its.
FrameArrives ==
  /\ Reads("frame")
  /\ LET d == events[1].desk
         mine == daemon.desks[d].pending.size = events[1].size
     IN IF ~Shares(daemon, d) THEN UNCHANGED <<daemon, pictures>>
        ELSE /\ daemon' = IF mine THEN [daemon EXCEPT !.desks[d].pending = NoResize]
                          ELSE daemon
             /\ pictures' = [pictures EXCEPT ![d] =
                  IF @.size = events[1].size THEN @
                  ELSE [size |-> events[1].size,
                        origin |-> IF mine THEN daemon.desks[d].pending.client
                                   ELSE Nobody]]

Event == \/ LayoutChanged \/ Succeeds \/ Cancels \/ Refuses \/ ScaleSettles
         \/ FrameArrives

-----------------------------------------------------------------------------
ConfigNext ==
  \/ \E c \in Clients :
       \/ \E d \in Desk : Joins(d, c)
       \/ Leaves(c)
       \/ \E a \in Asks : AskResize(c, a) \/ AskDensity(c, a)
  \/ HandleAsk
  \/ Event
  \/ Answers \/ Syncs \/ OthersConfigure
  \/ \E d \in Desk : Captures(d)

ConfigSpec == ConfigInit /\ [][ConfigNext]_configVars

-----------------------------------------------------------------------------
\* The configuration of declaration `id` is with the compositor, or its
\* outcome, or the round trip after it, is on its way.
InHand(id) ==
  \/ \E i \in DOMAIN daemon.requests :
       LET r == daemon.requests[i]
       IN IF "sync" \in DOMAIN r THEN r.sync = id
          ELSE r.kind.kind = "declare" /\ r.kind.id = id
  \/ \E i \in DOMAIN events :
       LET e == events[i]
       IN \/ /\ e.event \in {"succeeded", "failed", "cancelled"}
             /\ e.kind.kind = "declare" /\ e.kind.id = id
          \/ e.event = "synced" /\ e.id = id

\* No declaration is left behind: the one that is out will be settled by an
\* outcome still to be read, what waits waits for one that is out, and every
\* declaration without a report is out, waiting or not handled yet.
\* (Outputs::declaring, declaration_settled, the outcomes of a configuration.)
DeclarationInHand ==
  /\ daemon.declaring.id # 0 => InHand(daemon.declaring.id)
  /\ \A d \in Desk : daemon.desks[d].queued # NoWait => daemon.declaring.id # 0
  /\ \A n \in daemon.owed :
       \/ daemon.declaring.id # 0 /\ daemon.declaring.ask = n
       \/ \E d \in Desk : daemon.desks[d].queued.ask = n
       \/ \E i \in DOMAIN commands : commands[i].ask = n

\* A resize that waits for its frame is of the client that is on the desk, so
\* no frame is announced as the resize of somebody who has left it: let_go
\* against the outcomes and the frames that come after (pending_resize).
PendingIsTheClients ==
  \A d \in Desk : daemon.desks[d].pending # NoResize =>
     daemon.desks[d].pending.client = daemon.desks[d].client

\* What the comment of ConfigKind says: a configuration that is cancelled,
\* since the layout changed under it, is made once more.  Of a declaration
\* whose client is still there: the same size and scale are asked again, or
\* the output has them already.
CancelledIsAskedAgain ==
  [][(Cancels /\ events[1].kind.kind = "declare") =>
     LET k == events[1].kind
     IN \/ daemon.desks[k.desk].client # k.client
        \/ heads[k.desk] = [size |-> k.size, scale |-> k.scale]
        \/ \E i \in DOMAIN daemon'.requests :
             LET r == daemon'.requests[i]
             IN "kind" \in DOMAIN r /\ r.kind.ask = k.ask]_configVars
=============================================================================
