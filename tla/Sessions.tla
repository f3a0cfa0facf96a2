---------------------------------- MODULE Sessions ----------------------------------
(* A session from its handshake to its end, between the compositor's thread and  *)
(* its client (session.rs): the wait for the configured output before ServerInit, *)
(* and what is told of the desktop after it - its geometry, the outputs and the   *)
(* cursor, each written by the compositor's thread under a lock of its own and    *)
(* then announced over a broadcast that keeps its last CAPACITY events.           *)
(*                                                                               *)
(* The session is one on the desktop.  An output's name is its id.  The picture,  *)
(* the sound and the rest are modules of their own, and so is a display beside.   *)
EXTENDS Integers, Sequences

CONSTANTS
  Outputs,     \* The outputs there may be,
  Wanted,      \* the one the configuration names,
  Densities,      \* and the scales they are drawn at.
  Images,      \* The cursor's images.
  ClientLists,       \* What a SetEncodings may list.
  CAPACITY,    \* Events the broadcast keeps: 64 in the code.
  MaxNews      \* Bound: what happens in the compositor, and to the session.

NoOutput == "none"

ASSUME SessionsAssumption ==
  /\ Wanted \in Outputs /\ NoOutput \notin Outputs /\ Densities # {}
  /\ CAPACITY \in Nat \ {0} /\ MaxNews \in Nat
  /\ ClientLists \subseteq [version : {"none", "ours", "other"}, cursor : BOOLEAN,
                           density : BOOLEAN, outputs : BOOLEAN, eds : BOOLEAN]

\* Connections: one that was there before, this one, one that comes after it.
EARLIER == 1
SELF    == 2
LATER   == 3

NoImage  == "no image"
NoList   == [version |-> "none", cursor |-> FALSE, density |-> FALSE,
             outputs |-> FALSE, eds |-> FALSE]

VARIABLES
  thread,    \* The compositor's thread: its outputs, and what is left of a handler.
  desk,      \* What it shares: framebuffer, geometry, displays, cursor and holder;
             \* and who put the desktop where the displays say it is.
  asked,  \* The commands it has not read.
  session,   \* The session,
  unread,    \* the events its receiver has not given it, and whether any was lost
             \* since the client was last told everything,
  clientHas,      \* and what it has told the client.
  happenings       \* How much has happened.

sessionsVars == <<thread, desk, asked, session, unread, clientHas, happenings>>

-------------------------------------------------------------------------------
(* The compositor's thread: a handler is the steps that others may see, in order. *)

Emit(e)         == [op |-> "emit", to |-> e]
SetCursor(i)    == [op |-> "cursor", to |-> i]
Select(o, by)   == [op |-> "select", to |-> o, by |-> by]
Resize(o)       == [op |-> "framebuffer", to |-> o]
GeometryChanged == [op |-> "geometry"]
OutputsChanged  == [op |-> "outputs", answer |-> FALSE]
AnswerOutputs   == [op |-> "outputs", answer |-> TRUE]

\* A desk's geometry is of its output, the one before while it has none.
Geometry(t, before) ==
  IF t.selected = NoOutput THEN before ELSE [of |-> t.selected, scale |-> t.scale[t.selected]]

Displays(t) == [active |-> t.selected, entries |-> [o \in t.outputs |-> t.scale[o]]]

Listed(displays) == DOMAIN displays.entries

(* Mutant: the list goes out before the framebuffer is the output's. *)
ShareOutputListedFirst(o, by) ==
  <<SetCursor(NoImage), Select(o, by), AnswerOutputs, Resize(o), GeometryChanged>>

\* share_output, and what stop_capture tells before.
ShareOutput(o, by) ==
  <<SetCursor(NoImage), Select(o, by), Resize(o), GeometryChanged, AnswerOutputs>>

\* adopt_output, with these outputs.
AdoptOutput(outputs) ==
  IF outputs = {} THEN <<SetCursor(NoImage), AnswerOutputs>>
  ELSE ShareOutput(IF Wanted \in outputs THEN Wanted ELSE CHOOSE o \in outputs : TRUE, "adopted")

(* Mutant: the list is published before the desktop moves to what has appeared. *)
AppearedListed(o) ==
  <<OutputsChanged>>
    \o (IF thread.selected = NoOutput \/ o = Wanted
        THEN AdoptOutput(thread.outputs \cup {o}) ELSE <<>>)

\* The first `done` of an output: the desktop moves before the list is published.
Appeared(o) ==
  (IF thread.selected = NoOutput \/ o = Wanted
   THEN AdoptOutput(thread.outputs \cup {o}) ELSE <<>>)
    \o <<OutputsChanged>>

SessionsInit ==
  /\ \E outputs \in (SUBSET Outputs) \ {{}} :
       LET at == IF Wanted \in outputs THEN Wanted ELSE CHOOSE o \in outputs : TRUE
           scale == [o \in Outputs |-> CHOOSE s \in Densities : TRUE]
       IN  thread = [outputs |-> outputs, selected |-> at, by |-> "adopted",
                     scale |-> scale, todo |-> <<>>]
  /\ \E holder \in {0, EARLIER} :
       desk = [framebuffer |-> thread.selected, cursor |-> NoImage, holder |-> holder, by |-> thread.by,
               geometry |-> Geometry(thread, NoOutput), displays |-> Displays(thread)]
  /\ asked = <<>>
  /\ session = [phase |-> "version", found |-> "unasked", by |-> "nobody", left |-> FALSE, size |-> NoOutput,
                arrivals |-> 0, lists |-> NoList, pending |-> FALSE, fence |-> FALSE,
                announce_cursor |-> FALSE, announce_eds |-> FALSE]
  /\ unread = [queue |-> <<>>, lagged |-> FALSE, lost |-> FALSE]
  /\ clientHas = [version |-> FALSE, geometry |-> NoOutput, displays |-> NoOutput,
             cursor |-> NoImage, eds |-> NoOutput]
  /\ happenings = 0

HandshakeSteps == {"version", "security", "login", "init"}
Subscribed == session.phase \notin HandshakeSteps \cup {"over"}

Lesser(a, b) == IF a < b THEN a ELSE b

\* broadcast: a receiver that is behind loses the oldest, and is told that it did.
Broadcast(e) ==
  LET all == Append(unread.queue, e)
  IN  IF ~Subscribed THEN unread' = unread /\ session' = session
      ELSE /\ unread' = IF Len(all) <= CAPACITY THEN [unread EXCEPT !.queue = all]
                        ELSE [queue |-> Tail(all), lagged |-> TRUE, lost |-> TRUE]
           /\ session' = IF session.phase = "waiting"
                         THEN [session EXCEPT !.arrivals = Lesser(@ + 1, CAPACITY)] ELSE session

\* What is refreshed is announced where it changed, or where it is an answer.
Refreshed(d, changed, e) ==
  /\ desk' = d
  /\ thread' = [thread EXCEPT !.todo = (IF changed THEN <<Emit(e)>> ELSE <<>>) \o Tail(@)]
  /\ UNCHANGED <<unread, session>>

\* The next step of the handler that runs.
Proceed ==
  /\ thread.todo # <<>>
  /\ LET step == Head(thread.todo) IN
     \/ /\ step.op = "emit" /\ Broadcast(step.to)
        /\ thread' = [thread EXCEPT !.todo = Tail(@)] /\ UNCHANGED desk
     \/ /\ step.op = "select"
        /\ thread' = [thread EXCEPT !.selected = step.to, !.by = step.by, !.todo = Tail(@)]
        /\ session' = [session EXCEPT !.left = @ \/ step.to # Wanted]
        /\ UNCHANGED <<desk, unread>>
     \/ /\ step.op = "framebuffer"
        /\ Refreshed([desk EXCEPT !.framebuffer = step.to], FALSE, "none")
     \/ /\ step.op = "geometry"
        /\ LET now == Geometry(thread, desk.geometry)
           IN  Refreshed([desk EXCEPT !.geometry = now], now # desk.geometry, "geometry")
     \/ /\ step.op = "outputs"
        /\ LET now == Displays(thread)
           IN  Refreshed([desk EXCEPT !.displays = now, !.by = thread.by],
                         step.answer \/ now # desk.displays, "outputs")
     \/ /\ step.op = "cursor"
        /\ Refreshed([desk EXCEPT !.cursor = step.to], step.to # desk.cursor, "cursor")
  /\ UNCHANGED <<asked, clientHas, happenings>>

Idle == thread.todo = <<>> /\ happenings < MaxNews /\ happenings' = happenings + 1

\* An output's properties have all arrived.
Appears ==
  /\ Idle
  /\ \E o \in Outputs \ thread.outputs :
       thread' = [thread EXCEPT !.outputs = @ \cup {o}, !.todo = Appeared(o)]
  /\ UNCHANGED <<desk, asked, session, unread, clientHas>>

\* One goes: output_gone, where the desktop was on it.
Disappears ==
  /\ Idle
  /\ \E o \in thread.outputs :
       LET rest == thread.outputs \ {o} IN
       thread' = IF thread.selected = o
                 THEN [thread EXCEPT !.outputs = rest, !.selected = NoOutput, !.todo = AdoptOutput(rest)]
                 ELSE [thread EXCEPT !.outputs = rest, !.todo = <<OutputsChanged>>]
  /\ UNCHANGED <<desk, asked, session, unread, clientHas>>

\* The manager's `done`, one output at another scale.
Rescaled ==
  /\ Idle
  /\ \E o \in thread.outputs, s \in Densities :
       /\ s # thread.scale[o]
       /\ thread' = [thread EXCEPT !.scale[o] = s,
                                   !.todo = IF o = thread.selected
                                            THEN <<GeometryChanged, OutputsChanged>>
                                            ELSE <<OutputsChanged>>]
  /\ UNCHANGED <<desk, asked, session, unread, clientHas>>

\* set_cursor, of the session that captures it (Cursor).
CursorChanges ==
  /\ Idle /\ desk.holder # 0
  /\ \E i \in Images \cup {NoImage} : thread' = [thread EXCEPT !.todo = <<SetCursor(i)>>]
  /\ UNCHANGED <<desk, asked, session, unread, clientHas>>

\* handle_command: who is not on the desktop is not heard.
HandleCommand ==
  /\ thread.todo = <<>> /\ asked # <<>>
  /\ LET c == Head(asked) IN
     \/ /\ c.type = "joined" /\ desk' = [desk EXCEPT !.holder = c.id] /\ UNCHANGED thread
     \/ /\ c.type = "left" /\ c.id = desk.holder
        /\ desk' = [desk EXCEPT !.holder = 0]
        /\ thread' = [thread EXCEPT !.todo = <<SetCursor(NoImage)>>]
     \/ /\ c.type = "select" /\ c.id = desk.holder
        /\ thread' = [thread EXCEPT !.todo = IF c.output \in thread.outputs \ {thread.selected}
                                             THEN ShareOutput(c.output, "client")
                                             ELSE <<AnswerOutputs>>]
        /\ UNCHANGED desk
     \/ /\ c.type \in {"left", "select"} /\ c.id # desk.holder /\ UNCHANGED <<thread, desk>>
  /\ asked' = Tail(asked)
  /\ UNCHANGED <<session, unread, clientHas, happenings>>

\* An earlier connection still selects, and a later one takes the desktop.
OthersCommand ==
  /\ happenings < MaxNews /\ happenings' = happenings + 1
  /\ \/ \E o \in Outputs :
          asked' = Append(asked, [type |-> "select", id |-> EARLIER, output |-> o])
     \/ asked' = Append(asked, [type |-> "joined", id |-> LATER])
  /\ UNCHANGED <<thread, desk, session, unread, clientHas>>

-------------------------------------------------------------------------------
(* The session. *)

\* It ends, and its connection is gone: what holds the desktop is told.
SessionOver ==
  /\ session' = [session EXCEPT !.phase = "over"]
  /\ asked' = Append(asked, [type |-> "left", id |-> SELF])

\* The version, the security type, the login where one is asked for, ClientInit;
\* after which it joins, its receivers subscribed before.
Handshake ==
  /\ session.phase \in HandshakeSteps
  /\ \/ session.phase = "version"  /\ session' = [session EXCEPT !.phase = "security"]
     \/ session.phase = "security" /\ \E next \in {"login", "init"} :
                                        session' = [session EXCEPT !.phase = next]
     \/ session.phase = "login"    /\ session' = [session EXCEPT !.phase = "init"]
     \/ session.phase = "init"     /\ session' = [session EXCEPT !.phase = "joined"]
  /\ asked' = IF session.phase = "init"
                 THEN Append(asked, [type |-> "joined", id |-> SELF]) ELSE asked
  /\ UNCHANGED <<thread, desk, unread, clientHas, happenings>>

\* Another version, a security type not offered, a login refused, its time over,
\* or a client that leaves.
HandshakeEnds ==
  /\ session.phase \in HandshakeSteps /\ SessionOver
  /\ UNCHANGED <<thread, desk, unread, clientHas, happenings>>

\* run, once joined: whether there is an output to wait for.
WaitsForOutput ==
  /\ session.phase = "joined"
  /\ session' = [session EXCEPT !.phase = IF Wanted \in Listed(desk.displays)
                                          THEN "arrived" ELSE "waiting"]
  /\ UNCHANGED <<thread, desk, asked, unread, clientHas, happenings>>

\* output_shared: the list read again on every event, and at last when it is time.
Looks ==
  /\ session.phase = "waiting" /\ session.arrivals > 0
  /\ session' = [session EXCEPT !.arrivals = @ - 1,
                                !.phase = IF Wanted \in Listed(desk.displays)
                                          THEN "listed" ELSE "waiting"]
  /\ UNCHANGED <<thread, desk, asked, unread, clientHas, happenings>>

WaitIsOver ==
  /\ session.phase = "waiting"
  /\ session' = [session EXCEPT !.phase = "listed"]
  /\ UNCHANGED <<thread, desk, asked, unread, clientHas, happenings>>

Arrives ==
  /\ session.phase = "listed"
  /\ LET d == desk.displays
         found == IF d.active = Wanted THEN "shared"
                  ELSE IF Wanted \in Listed(d) THEN "elsewhere" ELSE "absent"
     IN  session' = [session EXCEPT !.phase = "arrived", !.found = found, !.by = desk.by,
                                    !.left = thread.selected # Wanted]
  /\ UNCHANGED <<thread, desk, asked, unread, clientHas, happenings>>

\* Taken or left while it waits.
WaitEnds ==
  /\ session.phase = "waiting" /\ SessionOver
  /\ UNCHANGED <<thread, desk, unread, clientHas, happenings>>

\* ServerInit, of the size the framebuffer has.
ServerInit ==
  /\ session.phase = "arrived"
  /\ session' = [session EXCEPT !.phase = "up", !.size = desk.framebuffer]
  /\ UNCHANGED <<thread, desk, asked, unread, clientHas, happenings>>

Up == session.phase = "up"

\* Another version ends the session, as does a list with no cursor.
Accepted(list) == list.version # "other" /\ list.cursor

\* A list is answered: the version ahead of all, the geometry and the outputs
\* whenever one is accepted.
Answered(list) ==
  [clientHas EXCEPT
     !.version  = @ \/ list.version # "none",
     !.geometry = IF Accepted(list) /\ list.density THEN desk.geometry ELSE @,
     !.displays = IF Accepted(list) /\ list.outputs THEN desk.displays ELSE @]

SetEncodings ==
  /\ Up /\ happenings < MaxNews /\ happenings' = happenings + 1
  /\ \E list \in ClientLists :
       /\ IF Accepted(list)
          THEN /\ session' = [session EXCEPT
                    !.lists = list, !.announce_cursor = TRUE,
                    !.announce_eds = @ \/ (list.eds /\ ~session.lists.eds)]
               /\ UNCHANGED asked
          ELSE SessionOver
       /\ clientHas' = Answered(list)
  /\ unread' = [unread EXCEPT !.lost = FALSE]
  /\ UNCHANGED <<thread, desk>>

\* A request, which a client that never listed the cursor may not make.
Request ==
  /\ Up /\ ~session.pending
  /\ IF ~session.lists.cursor THEN SessionOver
     ELSE session' = [session EXCEPT !.pending = TRUE] /\ UNCHANGED asked
  /\ UNCHANGED <<thread, desk, unread, clientHas, happenings>>

SelectOutput ==
  /\ Up /\ session.lists.outputs /\ happenings < MaxNews /\ happenings' = happenings + 1
  /\ \E o \in Outputs :
       asked' = Append(asked, [type |-> "select", id |-> SELF, output |-> o])
  /\ UNCHANGED <<thread, desk, session, unread, clientHas>>

FenceEchoed ==
  /\ Up /\ session.fence
  /\ session' = [session EXCEPT !.fence = FALSE]
  /\ UNCHANGED <<thread, desk, asked, unread, clientHas, happenings>>

(* Mutant: a receiver that lost events goes on with those it has. *)
LaggedGoesOn ==
  /\ unread' = [unread EXCEPT !.lagged = FALSE]
  /\ UNCHANGED <<session, clientHas>>

\* Events were lost, among them perhaps the cursor's.
Lagged ==
  /\ unread' = [unread EXCEPT !.lagged = FALSE]
  /\ session' = [session EXCEPT !.announce_cursor = @ \/ session.lists.cursor]
  /\ UNCHANGED clientHas

\* handle_event: what is told is read when it is told.
HandleEvent ==
  LET e == Head(unread.queue) IN
  /\ unread' = [unread EXCEPT !.queue = Tail(@)]
  /\ clientHas' = CASE e = "geometry" /\ session.lists.density -> [clientHas EXCEPT !.geometry = desk.geometry]
               [] e = "outputs" /\ session.lists.outputs  -> [clientHas EXCEPT !.displays = desk.displays]
               [] OTHER                               -> clientHas
  /\ session' = [session EXCEPT !.announce_cursor = @ \/ (e = "cursor" /\ session.lists.cursor)]

EventReceived ==
  /\ Up
  /\ \/ unread.lagged /\ Lagged
     \/ ~unread.lagged /\ unread.queue # <<>> /\ HandleEvent
  /\ UNCHANGED <<thread, desk, asked, happenings>>

\* maybe_update: the announcements, which may be all that is sent, or a frame's.
Update ==
  /\ Up /\ session.pending /\ ~session.fence
  /\ \E framed \in BOOLEAN :
       /\ framed \/ session.announce_cursor \/ session.announce_eds
       /\ session' = [session EXCEPT !.announce_cursor = FALSE, !.announce_eds = FALSE,
                                     !.pending = FALSE, !.fence = framed]
  /\ clientHas' = [clientHas EXCEPT !.cursor = IF session.announce_cursor THEN desk.cursor ELSE @,
                          !.eds = IF session.announce_eds THEN session.size ELSE @]
  /\ UNCHANGED <<thread, desk, asked, unread, happenings>>

\* superseded, or the client has left.
SessionEnds ==
  /\ Up /\ SessionOver
  /\ UNCHANGED <<thread, desk, unread, clientHas, happenings>>

SessionsNext ==
  \/ Proceed \/ Appears \/ Disappears \/ Rescaled \/ CursorChanges
  \/ HandleCommand \/ OthersCommand
  \/ Handshake \/ HandshakeEnds \/ WaitsForOutput \/ Looks \/ WaitIsOver \/ Arrives \/ WaitEnds
  \/ ServerInit \/ SetEncodings \/ Request \/ SelectOutput \/ FenceEchoed
  \/ EventReceived \/ Update \/ SessionEnds

SessionsSpec == SessionsInit /\ [][SessionsNext]_sessionsVars

-------------------------------------------------------------------------------
(* What the wait found is so: an output that is here while the desktop is on    *)
(* another is one a client chose to be away from, and where the desktop is on   *)
(* it, ServerInit has its size, unless the desktop has left it since            *)
(* (Arrival, session.rs:420-430; outputs.rs:499-501).                            *)
WaitIsTrue ==
  /\ session.found = "elsewhere" => session.by = "client"
  /\ session.found = "shared" /\ ~session.left /\ Up => session.size = Wanted

Announced(e) ==
  /\ thread.todo = <<>> /\ ~unread.lagged
  /\ \A i \in DOMAIN unread.queue : unread.queue[i] # e

(* What the client was last told is how the desktop is, once no handler is in   *)
(* the middle and no event of it is unread: its geometry and outputs unless     *)
(* events were lost, and its cursor, or an announcement of it that is owed,     *)
(* even then (session.rs:789-799).                                              *)
ToldIsCurrent ==
  Up /\ session.lists.cursor =>
    /\ Announced("geometry") /\ ~unread.lost /\ session.lists.density =>
         clientHas.geometry = desk.geometry
    /\ Announced("outputs") /\ ~unread.lost /\ session.lists.outputs =>
         clientHas.displays = desk.displays
    /\ Announced("cursor") => session.announce_cursor \/ clientHas.cursor = desk.cursor
=============================================================================
