------------------------------- MODULE Clipboard -------------------------------
(***************************************************************************)
(* The desktop's clipboard and the client's (src/clipboard.rs, the text    *)
(* kept in src/shared.rs, and the session's messages of the extension).    *)
(*                                                                         *)
(* The compositor tells of its selection in events that are read in order; *)
(* a selection of text is then read by a thread of its own.  The client's  *)
(* text becomes a data source of this server's, and the selection.  The    *)
(* compositor, its other applications and the client are external.  A      *)
(* client says what it takes before anything else, asks for a text it is   *)
(* notified of, holds one text and gives that when it is asked for it.     *)
(***************************************************************************)
EXTENDS Integers, Sequences, SequencesExt

CONSTANTS
  MaxCopies    \* Bound: selections made, by the desktop and the client.

ASSUME ClipboardAssumption == MaxCopies \in Nat

\* A text is the number of its copy; this server's data sources are numbered.
NoText  == 0
Nobodys == 0     \* No source of this server's.

VARIABLES
  selection,  \* The compositor's: the text, and this server's source it is of.
  events,     \* Of the device and of sources, not read yet.
  requests,   \* This server's set_selection, on its way to the compositor.
  server,     \* Clipboard::device and source; Shared::clipboard.
  reads,      \* The threads reading a selection.
  commands,   \* SetClipboard commands for the compositor's thread.
  announced,  \* Event::Clipboard the session has not taken.
  down, up,   \* Messages on the wire, to the client and from it.
  client,     \* What the client's own clipboard holds, and Session::clipboard.
  spoilt,     \* History: a read failed, or was overtaken.
  copies      \* How many selections were made.

clipboardVars == <<selection, events, requests, server, reads, commands,
                   announced, down, up, client, spoilt, copies>>

Caps == [notify : BOOLEAN, provide : BOOLEAN, request : BOOLEAN]

ClipboardInit ==
  /\ selection = [text |-> NoText, of |-> Nobodys]
  /\ server \in [device : BOOLEAN, source : {Nobodys}, made : {0}, kept : {NoText}]
  /\ client \in [text : {NoText}, caps : Caps]
  /\ events = <<>> /\ requests = <<>> /\ reads = <<>> /\ commands = <<>>
  /\ announced = 0 /\ down = <<>> /\ up = <<>>
  /\ spoilt = {} /\ copies = 0

wireVars    == <<down, up, client, copies>>
desktopVars == <<selection, events, requests>>

Copy == copies < MaxCopies /\ copies' = copies + 1

-----------------------------------------------------------------------------
(* The compositor.                                                         *)

\* A source that is replaced is cancelled before the selection is told.
Selects(text, of, replaced) ==
  /\ selection' = [text |-> text, of |-> of]
  /\ events' = events \o replaced \o <<[kind |-> "selection", text |-> text, of |-> of]>>

Desktop(text) ==
  /\ server.device /\ Copy
  /\ Selects(text, Nobodys,
             IF selection.of = Nobodys THEN <<>>
             ELSE <<[kind |-> "cancelled", text |-> NoText, of |-> selection.of]>>)
  /\ UNCHANGED <<requests, server, reads, commands, announced, down, up, client, spoilt>>

\* set_selection arrives, after the destruction of the source before it, which
\* clears the selection if it was of it.
SetArrives ==
  /\ requests # <<>>
  /\ Selects(requests[1].text, requests[1].of,
             IF selection.of = Nobodys THEN <<>>
             ELSE <<[kind |-> "selection", text |-> NoText, of |-> Nobodys]>>)
  /\ requests' = Tail(requests)
  /\ UNCHANGED <<server, reads, commands, announced, wireVars, spoilt>>

-----------------------------------------------------------------------------
(* The compositor's thread, and the threads that read.                     *)

\* Shared::set_clipboard.  A read still under way now brings older text.
Keeps(text, announce, left) ==
  /\ server' = [server EXCEPT !.kept = text]
  /\ announced' = announced + (IF announce THEN 1 ELSE 0)
  /\ spoilt' = IF left = <<>> THEN spoilt ELSE spoilt \union {"overtaken"}

(* Mutant: a selection that is cleared leaves the text as it is.           *)
ReadsSelectionOfText(text) ==
  \/ text = NoText /\ UNCHANGED <<server, announced, spoilt, reads>>
  \/ /\ text # NoText
     /\ reads' = Append(reads, text)
     /\ UNCHANGED <<server, announced>>
     /\ spoilt' = IF reads = <<>> THEN spoilt ELSE spoilt \union {"overtaken"}

\* Text is read by a thread; anything else is kept as no text.
ReadsSelection(text) ==
  \/ text = NoText /\ Keeps(NoText, TRUE, reads) /\ UNCHANGED reads
  \/ /\ text # NoText
     /\ reads' = Append(reads, text)
     /\ UNCHANGED <<server, announced>>
     /\ spoilt' = IF reads = <<>> THEN spoilt ELSE spoilt \union {"overtaken"}
  \/ /\ text # NoText          \* No pipe.
     /\ spoilt' = spoilt \union {"failed"}
     /\ UNCHANGED <<server, reads, announced>>

\* A selection is ignored while the source is this server's.
Event ==
  /\ events # <<>>
  /\ events' = Tail(events)
  /\ LET e == events[1]
     IN CASE e.kind = "cancelled" ->
               /\ server' = IF server.source = e.of
                            THEN [server EXCEPT !.source = Nobodys] ELSE server
               /\ UNCHANGED <<reads, announced, spoilt>>
          [] e.kind # "cancelled" /\ server.source # Nobodys ->
               UNCHANGED <<server, reads, announced, spoilt>>
          [] OTHER -> ReadsSelection(e.text)
  /\ UNCHANGED <<selection, requests, commands, wireVars>>

\* read_selection, at its end.
ReadEnds(i) ==
  /\ reads' = RemoveAt(reads, i)
  /\ \/ Keeps(reads[i], TRUE, reads')
     \/ /\ spoilt' = spoilt \union {"failed"}
        /\ UNCHANGED <<server, announced>>
  /\ UNCHANGED <<desktopVars, commands, wireVars>>

\* The compositor withdraws the device: no event comes any more.
Finished ==
  /\ server.device
  /\ server' = [server EXCEPT !.device = FALSE]
  /\ events' = <<>> /\ requests' = <<>>
  /\ UNCHANGED <<selection, reads, commands, announced, wireVars, spoilt>>

\* SetClipboard: kept, not announced, and offered as the selection.
Command ==
  /\ commands # <<>>
  /\ commands' = Tail(commands)
  /\ LET text == commands[1]
     IN IF ~server.device
        THEN Keeps(text, FALSE, reads) /\ UNCHANGED requests
        ELSE /\ server' = [server EXCEPT !.kept = text, !.made = @ + 1, !.source = server.made + 1]
             /\ requests' = Append(requests, [text |-> text, of |-> server.made + 1])
             /\ spoilt' = IF reads = <<>> THEN spoilt ELSE spoilt \union {"overtaken"}
             /\ UNCHANGED announced
  /\ UNCHANGED <<selection, events, reads, wireVars>>

-----------------------------------------------------------------------------
(* The session and its client.                                             *)

Wire == UNCHANGED <<desktopVars, server, reads, spoilt>>

\* announce_clipboard: a notify, or the text itself to a client that takes none.
Announce ==
  /\ announced > 0
  /\ announced' = announced - 1
  /\ down' = down \o
       (CASE client.caps.notify -> <<[kind |-> "notify", text |-> server.kept]>>
          [] ~client.caps.notify /\ client.caps.provide /\ server.kept # NoText ->
               <<[kind |-> "provide", text |-> server.kept]>>
          [] OTHER -> <<>>)
  /\ Wire /\ UNCHANGED <<commands, up, client, copies>>

\* A request is answered with the text there is by then, and a peek with whether
\* there is one; a text the client tells of is asked for, and none left alone.
Answer(m) ==
  CASE m.kind = "request" /\ client.caps.provide ->
         <<[kind |-> "provide", text |-> server.kept]>>
    [] m.kind = "peek" /\ client.caps.notify -> <<[kind |-> "notify", text |-> server.kept]>>
    [] m.kind = "notify" /\ m.text # NoText /\ client.caps.request ->
         <<[kind |-> "request", text |-> NoText]>>
    [] OTHER -> <<>>

\* handle_clipboard: a provide's text is for the desktop.
Handle ==
  /\ up # <<>>
  /\ up' = Tail(up)
  /\ commands' = IF up[1].kind = "provide" THEN Append(commands, up[1].text) ELSE commands
  /\ down' = down \o Answer(up[1])
  /\ Wire /\ UNCHANGED <<announced, client, copies>>

\* The client gives a text unasked, or tells of it first.
ClientCopies ==
  /\ Copy
  /\ \E kind \in {"provide", "notify"} : up' = Append(up, [kind |-> kind, text |-> copies'])
  /\ client' = [client EXCEPT !.text = copies']
  /\ Wire /\ UNCHANGED <<commands, announced, down>>

ClientPeeks ==
  /\ up = <<>> /\ down = <<>>
  /\ up' = <<[kind |-> "peek", text |-> NoText]>>
  /\ Wire /\ UNCHANGED <<commands, announced, down, client, copies>>

\* A notify of no text empties the client's clipboard; one of text is asked for.
ClientReads ==
  /\ down # <<>>
  /\ down' = Tail(down)
  /\ LET m == down[1]
         holds == client.text # NoText
     IN CASE m.kind = "request" ->
               /\ up' = IF holds THEN Append(up, [kind |-> "provide", text |-> client.text]) ELSE up
               /\ UNCHANGED client
          [] m.kind = "notify" /\ m.text # NoText ->
               up' = Append(up, [kind |-> "request", text |-> NoText]) /\ UNCHANGED client
          [] OTHER -> client' = [client EXCEPT !.text = m.text] /\ UNCHANGED up
  /\ Wire /\ UNCHANGED <<commands, announced, copies>>

ClipboardNext ==
  \/ \E text \in {NoText, copies + 1} : Desktop(text)
  \/ SetArrives \/ Event \/ Finished \/ Command
  \/ \E i \in 1 .. Len(reads) : ReadEnds(i)
  \/ Announce \/ Handle \/ ClientReads
  \/ ClientCopies \/ ClientPeeks

ClipboardSpec == ClipboardInit /\ [][ClipboardNext]_clipboardVars

-----------------------------------------------------------------------------
ClipboardSettled ==
  /\ server.device
  /\ events = <<>> /\ requests = <<>> /\ reads = <<>>
  /\ commands = <<>> /\ announced = 0 /\ down = <<>> /\ up = <<>>

\* Once everything that was under way has landed, the text kept for the client
\* is the compositor's selection, whoever made it last, and a client that may
\* be told of it holds it as well when the desktop made it; unless a read
\* failed, or its selection was replaced before it ended.  What is offered by
\* this server is offered by its last source.
ClipboardsAgree ==
  ClipboardSettled /\ spoilt = {} =>
    /\ server.kept = selection.text
    /\ selection.of = Nobodys /\ client.caps.notify /\ client.caps.provide /\ client.caps.request =>
         client.text = selection.text
    /\ selection.of = Nobodys \/ selection.of = server.source
=============================================================================
