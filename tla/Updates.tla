------------------------------- MODULE Updates -------------------------------
(***************************************************************************)
(* How a session sends its desk's picture (src/session.rs, maybe_update):  *)
(* on request or continuously, one update at a time while its fence is     *)
(* out, later on a slowed link, and by the framebuffer's log of what       *)
(* changed since the update before.                                        *)
(*                                                                         *)
(* The session is one task.  It waits in a select for a message, a tick of *)
(* the frames' watch, an event or a timer, handles it, and then looks      *)
(* whether there is something to send.  The framebuffer's lock is taken    *)
(* twice on the way, and the compositor thread may write in between: to    *)
(* decide whether the frame waits (Look) and to take the pixels (Take).    *)
(* Bytes written arrive in order, so the client's picture is what it will  *)
(* have once it has read what was written.                                 *)
(***************************************************************************)
EXTENDS Framebuffer

CONSTANTS
  Encoders,  \* What a client may ask for.  "none": rectangles; "sure": video;
             \* "unsure": video whose encoder may make no frame of a picture.
  Fences,    \* Whether the client has the Fence extension.
  Requests   \* The requests the client makes.

ASSUME EncoderAssumption == Encoders \subseteq {"none", "sure", "unsure"}
ASSUME FencesAssumption  == Fences \in BOOLEAN
ASSUME RequestAssumption == Requests \subseteq {"incremental", "full"}

VARIABLES
  session,   \* The Session's fields.
  phase,     \* Where its task is: in the select, or on its way to a write.
  announced, \* Local to maybe_update: an announcement was sent this time.
  tick,      \* frames.changed() has something to say.
  held,      \* A slowed link's next frame is not due yet: frame_at().
  armed,     \* The select this wait is in has a timer for that frame's turn.
  client     \* The client's end: its size, its picture, whether it has asked
             \* for a whole one since, and what its decoder holds of the
             \* stream the encoder is making.

svars == <<session, phase, announced, tick, held, armed, client>>
vars  == <<fb, svars>>

SessionType ==
  [encoder      : Encoders,
   continuous   : BOOLEAN,
   pending      : {"none", "incremental", "full"},
   seen         : Nat,
   known        : Sizes,
   outstanding  : BOOLEAN,
   announce     : BOOLEAN,
   keyframeOwed : BOOLEAN,
   encoderSize  : Sizes \cup {"unmade"}]

Video == session.encoder # "none"

UpdatesTypeOK ==
  /\ TypeOK
  /\ session \in SessionType
  /\ phase \in {"waiting", "reading", "looking", "taking", "arming"}
  /\ announced \in BOOLEAN
  /\ tick \in BOOLEAN
  /\ held \in BOOLEAN
  /\ armed \in BOOLEAN
  /\ client \in [size : Sizes, shown : [Tiles -> Nat], asked : BOOLEAN,
                 decoder : {"nothing", "stream", "garbage"}]

(* The desktop may have been painted long before the client connects; its  *)
(* ServerInit named the size of the framebuffer.                           *)
UpdatesInit ==
  /\ Init
  /\ \E e \in Encoders :
       session = [encoder |-> e, continuous |-> FALSE, pending |-> "none",
                  seen |-> 0, known |-> fb.size, outstanding |-> FALSE,
                  announce |-> TRUE, keyframeOwed |-> FALSE,
                  encoderSize |-> "unmade"]
  /\ phase = "waiting"
  /\ announced = FALSE
  /\ tick = FALSE
  /\ held = FALSE
  /\ armed = FALSE
  /\ client = [size |-> fb.size, shown |-> [t \in Tiles |-> 0],
               asked |-> FALSE, decoder |-> "nothing"]

Wants == session.continuous \/ session.pending # "none"

-----------------------------------------------------------------------------
(* The compositor thread.                                                  *)

FrameArrives ==
  /\ \E s \in Sizes, o \in Clients \cup {Server}, r \in Reports : Frame(s, o, r)
  /\ tick' = TRUE
  /\ UNCHANGED <<session, phase, announced, held, armed, client>>

OutputShared ==
  /\ \E s \in Sizes : Resize(s)
  /\ UNCHANGED svars

-----------------------------------------------------------------------------
(* What wakes the session, and what it does of it before it looks.         *)

Woken(s, next) ==
  /\ session' = s
  /\ phase' = next
  /\ armed' = FALSE
  /\ UNCHANGED <<fb, announced>>

(* A read of the socket: the messages in it are all handled before the     *)
(* session looks.                                                          *)
Message(s) == phase \in {"waiting", "reading"} /\ Woken(s, "reading")

PictureLost == [client EXCEPT !.shown = [t \in Tiles |-> 0], !.asked = TRUE]

(* FramebufferUpdateRequest: a non-incremental one stands until answered.  *)
(* A client that asks for everything may hold nothing any more.            *)
Request(kind) ==
  /\ Message([session EXCEPT !.pending = IF @ = "full" THEN @ ELSE kind])
  /\ client' = IF kind = "full" THEN PictureLost ELSE client
  /\ UNCHANGED <<tick, held>>

EnableContinuousUpdates(enable) ==
  /\ Message([session EXCEPT !.continuous = enable])
  /\ UNCHANGED <<tick, held, client>>

(* Mutant: the echo is read and changes nothing. *)
FenceIgnored ==
  /\ session.outstanding
  /\ Message(session)
  /\ held' \in IF Video THEN BOOLEAN ELSE {held}
  /\ UNCHANGED <<tick, client>>

(* The client's echo of the fence, which the walk takes its verdict from:  *)
(* the interval of a slowed link is the walk's as it then stands.          *)
Fence ==
  /\ session.outstanding
  /\ Message([session EXCEPT !.outstanding = FALSE])
  /\ held' \in IF Video THEN BOOLEAN ELSE {held}
  /\ UNCHANGED <<tick, client>>

FramesChanged ==
  /\ phase = "waiting"
  /\ tick
  /\ tick' = FALSE
  /\ Woken(session, "looking")
  /\ UNCHANGED <<held, client>>

(* Event::Cursor, or a receiver that lagged; and the other events, which   *)
(* leave nothing to announce.                                              *)
EventReceived(cursor) ==
  /\ phase = "waiting"
  /\ Woken([session EXCEPT !.announce = @ \/ cursor], "looking")
  /\ UNCHANGED <<tick, held, client>>

(* The slowed frame's turn comes with time, whatever the session is doing; *)
(* it wakes a select that has a timer for it.                              *)
TurnComes ==
  /\ held
  /\ held' = FALSE
  /\ IF phase = "waiting" /\ armed THEN Woken(session, "looking")
                                   ELSE UNCHANGED <<fb, session, phase, announced, armed>>
  /\ UNCHANGED <<tick, client>>

-----------------------------------------------------------------------------
(* maybe_update                                                            *)

Answered(told) == IF told THEN "none" ELSE session.pending

(* Up to the first look at the framebuffer: nothing while nothing is       *)
(* wanted or an update is out; announcements do not wait; a frame does on  *)
(* a slowed link, but for one that carries a new size.                     *)
Look ==
  /\ phase \in {"reading", "looking"}
  /\ \/ /\ ~Wants \/ session.outstanding
        /\ phase' = "arming"
        /\ UNCHANGED <<session, announced>>
     \/ /\ Wants /\ ~session.outstanding
        /\ LET resized == fb.painted /\ fb.size # session.known
               waits   == held /\ ~resized
           IN  /\ phase' = IF waits THEN "arming" ELSE "taking"
               /\ announced' = (~waits /\ session.announce)
               /\ session' = [session EXCEPT
                    !.announce = FALSE,
                    !.pending  = IF waits THEN Answered(session.announce) ELSE @]
  /\ UNCHANGED <<fb, tick, held, armed, client>>

(* What the pixels are taken of: everything for a full update and for a    *)
(* stream that starts over, and otherwise what the log says changed.       *)
Full == \/ fb.size # session.known
        \/ session.pending = "full"
        \/ session.seen = 0

(* Mutant: a non-incremental request is answered with what changed. *)
ChangedDamage ==
  IF session.seen = 0 THEN Tiles ELSE DamageSince(fb, session.seen)

Damage ==
  IF Full \/ session.keyframeOwed THEN Tiles ELSE DamageSince(fb, session.seen)

NothingToSend == ~fb.painted \/ Damage = {}

(* A video stream is made for the desktop's size with the lock let go, so  *)
(* that the desktop is looked at again; it is owed its IDR from then on.   *)
(* What the decoder holds is of another stream.                            *)
StreamMade == Video /\ fb.painted => session.encoderSize = fb.size

MakeStream ==
  /\ phase = "taking"
  /\ ~StreamMade
  /\ session' = [session EXCEPT !.encoderSize = fb.size, !.keyframeOwed = TRUE]
  /\ client' = [client EXCEPT !.decoder = "nothing"]
  /\ UNCHANGED <<fb, phase, announced, tick, held, armed>>

(* There is nothing to send, and what was announced is all the answer      *)
(* there is.                                                               *)
TakeNothing ==
  /\ phase = "taking"
  /\ StreamMade
  /\ NothingToSend
  /\ phase' = "arming"
  /\ announced' = FALSE
  /\ session' = [session EXCEPT !.pending = Answered(announced)]
  /\ UNCHANGED <<fb, tick, held, armed, client>>

(* An IDR starts the decoder over; any other frame is a change to what it  *)
(* holds of the same stream.                                               *)
Decoded ==
  IF ~Video THEN client.decoder
  ELSE IF Full \/ session.keyframeOwed THEN "stream"
  ELSE IF client.decoder = "nothing" THEN "garbage"
  ELSE client.decoder

Sending ==
  /\ phase = "taking"
  /\ StreamMade
  /\ ~NothingToSend
  /\ phase' = "arming"
  /\ announced' = FALSE
  /\ UNCHANGED <<fb, tick, armed>>

(* The pixels are taken, the client told the size first where it is new,   *)
(* and the update sent with its fence; the walk may slow the link on it.   *)
TakePixels ==
  /\ Sending
  /\ session' = [session EXCEPT !.known        = fb.size,
                                !.keyframeOwed = FALSE,
                                !.outstanding  = Fences,
                                !.seen         = fb.generation,
                                !.pending      = "none"]
  /\ client' = [size    |-> fb.size,
                shown   |-> [t \in Tiles |-> IF t \in Damage THEN fb.pixels[t]
                                                             ELSE client.shown[t]],
                asked   |-> client.asked /\ Damage # Tiles,
                decoder |-> Decoded]
  /\ held' \in IF Video THEN BOOLEAN ELSE {FALSE}

(* Mutant: the IDR is no longer owed once it was tried. *)
EncoderForgetsIDR ==
  /\ session.encoder = "unsure"
  /\ Sending
  /\ session' = [session EXCEPT !.known = fb.size, !.keyframeOwed = FALSE]
  /\ client' = [client EXCEPT !.size = fb.size]
  /\ UNCHANGED held

(* Mutant: the damage counts as seen. *)
EncoderSkips ==
  /\ session.encoder = "unsure"
  /\ Sending
  /\ session' = [session EXCEPT !.known = fb.size, !.seen = fb.generation]
  /\ client' = [client EXCEPT !.size = fb.size]
  /\ UNCHANGED held

(* The encoder makes no frame: the client was told the size, and nothing   *)
(* else changes hands.                                                     *)
EncoderMakesNone ==
  /\ session.encoder = "unsure"
  /\ Sending
  /\ session' = [session EXCEPT !.known = fb.size]
  /\ client' = [client EXCEPT !.size = fb.size]
  /\ UNCHANGED held

(* pump, on its way back into the select: the time is read once more, for  *)
(* the timer of a frame that waits.                                        *)
Arm ==
  /\ phase = "arming"
  /\ phase' = "waiting"
  /\ armed' = (held /\ Wants /\ ~session.outstanding)
  /\ UNCHANGED <<fb, session, announced, tick, held, client>>

-----------------------------------------------------------------------------
SessionNext ==
  \/ \E kind \in Requests : Request(kind)
  \/ \E enable \in BOOLEAN : EnableContinuousUpdates(enable)
  \/ Fence
  \/ FramesChanged
  \/ \E cursor \in BOOLEAN : EventReceived(cursor)
  \/ TurnComes
  \/ Look
  \/ MakeStream
  \/ TakeNothing
  \/ TakePixels
  \/ EncoderMakesNone
  \/ Arm

UpdatesNext == FrameArrives \/ OutputShared \/ SessionNext

UpdatesSpec == UpdatesInit /\ [][UpdatesNext]_vars

(* The session's task and its timers run, and the client echoes a fence.   *)
(* A select polls its branches in a random order, so that neither a tick   *)
(* nor an echo waits for ever behind the others.  The client owes no       *)
(* request, and the compositor no frame.                                   *)
UpdatesFairSpec ==
  /\ UpdatesSpec
  /\ SF_vars(FramesChanged)
  /\ SF_vars(Fence)
  /\ WF_vars(TurnComes)
  /\ WF_vars(Look)
  /\ WF_vars(Arm)
  /\ WF_vars(MakeStream \/ TakeNothing \/ TakePixels \/ EncoderMakesNone)

-----------------------------------------------------------------------------
(* Properties.                                                             *)

(* The log gives every session what changed since it looked, whatever was  *)
(* trimmed, cleared or resized in between: it is what happened last at     *)
(* this size, no tile of a painted framebuffer is blank, and so what       *)
(* damage_since makes of it leaves out no tile that was written.           *)
LogHolds == UpdatesTypeOK /\ PaintedIsWhole /\ LogIsRecent /\ DamageCovers

(* What the session counts as seen, the client has: once its picture is of *)
(* this size of the framebuffer, every tile last written up to that        *)
(* generation shows the same there, however many frames, sizes and frames  *)
(* that were not made came between two updates.                            *)
ClientHasWhatIsSeen ==
  session.seen >= fb.sizeGeneration /\ ~client.asked =>
    /\ client.size = fb.size
    /\ \A t \in Tiles : fb.pixels[t] <= session.seen => client.shown[t] = fb.pixels[t]

(* A stream starts with an IDR: the decoder is never handed a change to a  *)
(* picture of a stream it holds nothing of, also where the encoder made no *)
(* frame of the first picture, or the desktop was blank by then.           *)
DecoderIsFed == client.decoder # "garbage"

(* While a client wants the picture and there is one to be had, it gets    *)
(* it: a change is not slept through, on any order of frames, requests,    *)
(* echoes and turns.                                                       *)
Current == client.size = fb.size /\ client.shown = fb.pixels

CatchesUp == Wants /\ fb.painted /\ ~Current ~> Current \/ ~Wants \/ ~fb.painted

(* The same of a session of rectangles, which waits for no turn and has no *)
(* encoder that may make nothing.                                          *)
RectanglesCatchUp ==
  ~Video /\ Wants /\ fb.painted /\ ~Current ~> Current \/ ~Wants \/ ~fb.painted
=============================================================================
