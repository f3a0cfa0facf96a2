----------------------------------- MODULE Cursor -----------------------------------
(* The cursor image of a desk's output (cursor.rs, rfb/cursor.rs): a capture      *)
(* session beside the frames, one frame of it always in flight, which the         *)
(* compositor answers when the cursor looks different; its image turned upright,  *)
(* cropped to what it paints, and sent as either of two rectangles.               *)
(*                                                                               *)
(* Wayland's events are read in the order they were sent, some of them of a       *)
(* session that is gone.  A pixel is <<channel, alpha>>, premultiplied.           *)
EXTENDS Integers, SequencesExt, FiniteSetsExt, TLC

CONSTANTS
  Shapes,       \* What a cursor may look like: [w, h, at, hotspot]; none has w = 0.
  Transforms,   \* <<flipped, quarter turns>> of the outputs.
  MaxChanges    \* Bound: what happens to the cursor, the client and the outputs.

CursorAssumption ==
  /\ MaxChanges \in Nat /\ Transforms \subseteq BOOLEAN \X (0 .. 3)
  /\ \A s \in Shapes : Len(s.at) = s.w * s.h
ASSUME CursorAssumption

NoBuffer == <<0, 0>>       \* A cursor whose source has no buffer has no size.
NoCursor == [w |-> 0, h |-> 0, at |-> <<>>, hotspot |-> <<0, 0>>]

VARIABLES
  plane,     \* The compositor's cursor: its shape, whether it is on the output and shows,
             \* the output's transform, and whether the seat has had a pointer.
  link,      \* The compositor's side of the session, and the buffer both see.
  wire,      \* The events not read yet.
  cursorCapture,   \* CursorCapture: the session or none, the retry, and what stopped.
  watched,   \* A client is on the desk.
  shown,     \* The desk's cursor, as the sessions read it.
  changes    \* How much has happened.

cursorVars == <<plane, link, wire, cursorCapture, watched, shown, changes>>

-------------------------------------------------------------------------------
(* Images. *)

Pixel(image, x, y) == image.at[y * image.w + x + 1]

Painted(image) == {i \in DOMAIN image.at : image.at[i][2] > 0}

\* Pixel (x, y) of a w by h image.
Drawing(w, h, pixel(_, _)) ==
  [w |-> w, h |-> h, at |-> [i \in 1 .. w * h |-> pixel((i - 1) % w, (i - 1) \div w)]]

\* What the compositor does to the image: a flip, then quarter turns.
Turned(transform, image) ==
  LET flipped == Drawing(image.w, image.h, LAMBDA x, y :
                   Pixel(image, IF transform[1] THEN image.w - 1 - x ELSE x, y))
      quarter(i) == Drawing(i.h, i.w, LAMBDA x, y : Pixel(i, i.w - 1 - y, x))
      turned[k \in 0 .. 3] == IF k = 0 THEN flipped ELSE quarter(turned[k - 1])
  IN  turned[transform[2]]

(* Mutant: a flipped quarter turn is undone as the turn the other way is. *)
UprightAtSwapped(transform, w, h, x, y) ==
  CASE transform = <<FALSE, 0>> -> <<x, y>>
    [] transform = <<FALSE, 1>> -> <<h - 1 - y, x>>
    [] transform = <<FALSE, 2>> -> <<w - 1 - x, h - 1 - y>>
    [] transform = <<FALSE, 3>> -> <<y, w - 1 - x>>
    [] transform = <<TRUE, 0>>  -> <<w - 1 - x, y>>
    [] transform = <<TRUE, 1>>  -> <<h - 1 - y, w - 1 - x>>
    [] transform = <<TRUE, 2>>  -> <<x, h - 1 - y>>
    [] transform = <<TRUE, 3>>  -> <<y, x>>

\* upright: where pixel (x, y) of a w by h image goes.
UprightAt(transform, w, h, x, y) ==
  CASE transform = <<FALSE, 0>> -> <<x, y>>
    [] transform = <<FALSE, 1>> -> <<h - 1 - y, x>>
    [] transform = <<FALSE, 2>> -> <<w - 1 - x, h - 1 - y>>
    [] transform = <<FALSE, 3>> -> <<y, w - 1 - x>>
    [] transform = <<TRUE, 0>>  -> <<w - 1 - x, y>>
    [] transform = <<TRUE, 1>>  -> <<y, x>>
    [] transform = <<TRUE, 2>>  -> <<x, h - 1 - y>>
    [] transform = <<TRUE, 3>>  -> <<h - 1 - y, w - 1 - x>>

Upright(transform, image) ==
  LET uw == IF transform[2] % 2 = 1 THEN image.h ELSE image.w
      from(x, y) == CHOOSE i \in DOMAIN image.at :
        UprightAt(transform, image.w, image.h, (i - 1) % image.w, (i - 1) \div image.w) = <<x, y>>
  IN  Drawing(uw, Len(image.at) \div uw, LAMBDA x, y : image.at[from(x, y)])

Clamp(v, most) == IF v < 0 THEN 0 ELSE IF v > most THEN most ELSE v

\* CursorImage::cropped: the smallest box of what is painted and the hotspot, which
\* is clamped into the image; none for an image with nothing in it.
Cropped(image, hotspot) ==
  LET hx == Clamp(hotspot[1], image.w - 1)
      hy == Clamp(hotspot[2], image.h - 1)
      xs == {hx} \cup {(i - 1) % image.w : i \in Painted(image)}
      ys == {hy} \cup {(i - 1) \div image.w : i \in Painted(image)}
      x0 == Min(xs)
      y0 == Min(ys)
  IN  IF Painted(image) = {} THEN NoCursor
      ELSE Drawing(Max(xs) - x0 + 1, Max(ys) - y0 + 1, LAMBDA x, y : Pixel(image, x0 + x, y0 + y))
             @@ [hotspot |-> <<hx - x0, hy - y0>>]

MASK_THRESHOLD == 128

Unpremultiply(c, a) == LET s == (c * 255 + a \div 2) \div a IN IF s > 255 THEN 255 ELSE s

\* cursor_rect: the straight colours, and a bit of mask each, rows of whole bytes.
CursorRect(image) ==
  LET stride == (image.w + 7) \div 8
      opaque(x, y) == x < image.w /\ Pixel(image, x, y)[2] >= MASK_THRESHOLD
  IN  [w |-> image.w, h |-> image.h, hotspot |-> image.hotspot,
       pixels |-> [i \in DOMAIN image.at |->
         IF image.at[i][2] >= MASK_THRESHOLD THEN Unpremultiply(image.at[i][1], image.at[i][2]) ELSE 0],
       mask |-> [b \in 1 .. stride * image.h |->
         LET y == (b - 1) \div stride
             x == ((b - 1) % stride) * 8
             byte[k \in 0 .. 8] ==
               IF k = 0 THEN 0 ELSE byte[k - 1] * 2 + (IF opaque(x + k - 1, y) THEN 1 ELSE 0)
         IN  byte[8]]]

\* from_masked_rect: what a client of the standard Cursor draws, opaque or not at all.
Masked(rect) ==
  LET stride == (rect.w + 7) \div 8
      drawn(x, y) == (rect.mask[y * stride + x \div 8 + 1] \div 2 ^ (7 - (x % 8))) % 2 = 1
  IN  Drawing(rect.w, rect.h, LAMBDA x, y :
        IF drawn(x, y) THEN <<rect.pixels[y * rect.w + x + 1], 255>> ELSE <<0, 0>>)
        @@ [hotspot |-> rect.hotspot]

-------------------------------------------------------------------------------
CursorInit ==
  /\ \E t \in Transforms :
       plane = [shape |-> NoCursor, inside |-> FALSE, transform |-> t, pointer |-> FALSE]
  /\ link = [id |-> 0, asked |-> NoBuffer, damaged |-> FALSE, buffer |-> NoCursor]
  /\ wire = <<>>
  /\ cursorCapture = [id |-> 0, last |-> 0, stopped |-> FALSE, retry |-> FALSE, frame |-> FALSE,
                constraints |-> NoBuffer, entered |-> FALSE, hotspot |-> <<0, 0>>,
                image |-> NoCursor]
  /\ watched = FALSE /\ shown = NoCursor /\ changes = 0

SizeOf(p) == IF p.shape.w = 0 THEN NoBuffer
             ELSE LET t == Turned(p.transform, p.shape) IN <<t.w, t.h>>

CursorSends(id, events) == [i \in DOMAIN events |-> [id |-> id, is |-> events[i]]]

\* A session's first events: what it would be captured into, and where the cursor is.
CursorOpening(p) ==
  <<[of |-> "done", size |-> SizeOf(p)], [of |-> "hotspot", at |-> p.shape.hotspot]>>
    \o (IF p.inside THEN <<[of |-> "enter"]>> ELSE <<>>)

\* start_cursor.
Started(w, p, c) ==
  IF ~w \/ c.id # 0 \/ ~p.pointer \/ c.stopped
  THEN cursorCapture' = c /\ UNCHANGED <<link, wire>>
  ELSE LET id == c.last + 1 IN
       /\ cursorCapture' = [c EXCEPT !.id = id, !.last = id, !.frame = FALSE, !.constraints = NoBuffer,
                               !.entered = FALSE, !.hotspot = <<0, 0>>, !.image = NoCursor]
       /\ link' = [id |-> id, asked |-> NoBuffer, damaged |-> TRUE, buffer |-> NoCursor]
       /\ wire' = wire \o CursorSends(id, CursorOpening(p))

\* stop_cursor, and what it leaves.
Unopened(c) == [c EXCEPT !.id = 0, !.retry = FALSE, !.frame = FALSE]

\* show_cursor.
ShowCursor(c) == shown' = IF c.id # 0 /\ c.entered THEN c.image ELSE NoCursor

\* capture_cursor: the next frame, where none is in flight and it is known into what.
CaptureCursor(c) ==
  IF c.id = 0 \/ c.frame \/ c.retry \/ c.constraints = NoBuffer
  THEN cursorCapture' = c /\ UNCHANGED link
  ELSE /\ cursorCapture' = [c EXCEPT !.frame = TRUE]
       /\ link' = [link EXCEPT !.asked = c.constraints]

-------------------------------------------------------------------------------
(* The compositor. *)

Changes == changes < MaxChanges /\ changes' = changes + 1

\* Another shape: its size announced and its hotspot, ahead of any frame of it.  None
\* does not show.
ShapeChanges ==
  /\ Changes
  /\ \E s \in (Shapes \cup {NoCursor}) \ {plane.shape} :
       LET now   == [plane EXCEPT !.shape = s, !.inside = @ /\ s.w > 0]
           done  == IF SizeOf(now) = SizeOf(plane) THEN <<>>
                    ELSE <<[of |-> "done", size |-> SizeOf(now)]>>
           leave == IF now.inside = plane.inside THEN <<>> ELSE <<[of |-> "leave"]>>
       IN  /\ plane' = now
           /\ wire' = IF link.id = 0 THEN wire
                      ELSE wire \o CursorSends(link.id,
                             done \o leave \o <<[of |-> "hotspot", at |-> s.hotspot]>>)
  /\ link' = [link EXCEPT !.damaged = TRUE]
  /\ UNCHANGED <<cursorCapture, watched, shown>>

Crosses ==
  /\ Changes /\ plane.shape.w > 0
  /\ plane' = [plane EXCEPT !.inside = ~@]
  /\ wire' = IF link.id = 0 THEN wire
             ELSE wire \o CursorSends(link.id, <<[of |-> IF plane.inside THEN "leave" ELSE "enter"]>>)
  /\ UNCHANGED <<link, cursorCapture, watched, shown>>

\* A frame asked for is answered once the cursor looks different, or cannot be.
FrameAnswered ==
  /\ link.id # 0 /\ link.asked # NoBuffer
  /\ \/ /\ link.asked # SizeOf(plane)
        /\ wire' = wire \o CursorSends(link.id, <<[of |-> "failed", constraints |-> TRUE]>>)
        /\ link' = [link EXCEPT !.asked = NoBuffer] /\ UNCHANGED changes
     \/ /\ link.asked = SizeOf(plane) /\ link.damaged
        /\ wire' = wire \o CursorSends(link.id, <<[of |-> "ready", transform |-> plane.transform]>>)
        /\ link' = [link EXCEPT !.asked = NoBuffer, !.damaged = FALSE,
                                !.buffer = Turned(plane.transform, plane.shape)]
        /\ UNCHANGED changes
     \/ /\ Changes
        /\ wire' = wire \o CursorSends(link.id, <<[of |-> "failed", constraints |-> FALSE]>>)
        /\ link' = [link EXCEPT !.asked = NoBuffer]
  /\ UNCHANGED <<plane, cursorCapture, watched, shown>>

SourceGoes ==
  /\ Changes /\ link.id # 0
  /\ wire' = wire \o CursorSends(link.id, <<[of |-> "stopped"]>>)
  /\ link' = [link EXCEPT !.id = 0, !.asked = NoBuffer]
  /\ UNCHANGED <<plane, cursorCapture, watched, shown>>

-------------------------------------------------------------------------------
(* The daemon. *)

\* The seat has its first pointer.
PointerComes ==
  /\ ~plane.pointer
  /\ plane' = [plane EXCEPT !.pointer = TRUE]
  /\ Started(watched, plane', cursorCapture)
  /\ UNCHANGED <<watched, shown, changes>>

\* A client joins or leaves, the capture started or stopped with it.
ClientJoins ==
  /\ ~watched /\ watched' = TRUE
  /\ Started(TRUE, plane, cursorCapture)
  /\ UNCHANGED <<plane, shown, changes>>

CaptureClosed(c) == shown' = IF c.id # 0 THEN NoCursor ELSE shown

ClientLeaves ==
  /\ Changes /\ watched /\ watched' = FALSE
  /\ CaptureClosed(cursorCapture)
  /\ cursorCapture' = Unopened(cursorCapture)
  /\ link' = [link EXCEPT !.id = 0, !.asked = NoBuffer]
  /\ UNCHANGED <<plane, wire>>

\* share_output: another, on whatever its cursor is.
Shares ==
  /\ Changes
  /\ \E t \in Transforms, in \in BOOLEAN :
       (in => plane.shape.w > 0) /\ plane' = [plane EXCEPT !.transform = t, !.inside = in]
  /\ CaptureClosed(cursorCapture)
  /\ LET left == [Unopened(cursorCapture) EXCEPT !.stopped = FALSE] IN
     IF watched /\ plane.pointer THEN Started(TRUE, plane', left)
     ELSE cursorCapture' = left /\ link' = [link EXCEPT !.id = 0, !.asked = NoBuffer] /\ UNCHANGED wire
  /\ UNCHANGED watched

(* Mutant: entering is shown by the next frame. *)
EntersWithFrame(c) == cursorCapture' = [c EXCEPT !.entered = TRUE] /\ UNCHANGED shown

\* Enter: an image captured while it was away is shown as it is.
Enters(c) ==
  LET in == [c EXCEPT !.entered = TRUE] IN cursorCapture' = in /\ ShowCursor(in)

\* The events of the session there is; those of another are nobody's.
EventRead ==
  /\ wire # <<>> /\ wire' = Tail(wire)
  /\ LET e == Head(wire).is
         c == cursorCapture IN
     IF Head(wire).id # c.id THEN UNCHANGED <<cursorCapture, link, shown>>
     ELSE
       \/ /\ e.of = "done"
          /\ CaptureCursor([c EXCEPT !.constraints = e.size]) /\ UNCHANGED shown
       \/ /\ e.of = "hotspot" /\ cursorCapture' = [c EXCEPT !.hotspot = e.at]
          /\ UNCHANGED <<link, shown>>
       \/ e.of = "enter" /\ Enters(c) /\ UNCHANGED link
       \/ /\ e.of = "leave"
          /\ LET out == [c EXCEPT !.entered = FALSE] IN cursorCapture' = out /\ ShowCursor(out)
          /\ UNCHANGED link
       \/ /\ e.of = "ready"
          /\ IF c.constraints = NoBuffer
             THEN cursorCapture' = [c EXCEPT !.frame = FALSE] /\ UNCHANGED <<link, shown>>
             ELSE LET now == [c EXCEPT !.frame = FALSE,
                               !.image = Cropped(Upright(e.transform, link.buffer), c.hotspot)]
                  IN  ShowCursor(now) /\ CaptureCursor(now)
       \/ /\ e.of = "failed" /\ e.constraints
          /\ CaptureCursor([c EXCEPT !.frame = FALSE]) /\ UNCHANGED shown
       \/ /\ e.of = "failed" /\ ~e.constraints
          /\ cursorCapture' = [c EXCEPT !.frame = FALSE, !.retry = TRUE] /\ UNCHANGED <<link, shown>>
       \/ /\ e.of = "stopped" /\ CaptureClosed(c)
          /\ cursorCapture' = [Unopened(c) EXCEPT !.stopped = TRUE] /\ UNCHANGED link
  /\ UNCHANGED <<plane, watched, changes>>

RetryComes ==
  /\ cursorCapture.retry
  /\ CaptureCursor([cursorCapture EXCEPT !.retry = FALSE])
  /\ UNCHANGED <<plane, wire, watched, shown, changes>>

CursorNext ==
  \/ ShapeChanges \/ Crosses \/ FrameAnswered \/ SourceGoes
  \/ PointerComes \/ ClientJoins \/ ClientLeaves \/ Shares \/ EventRead \/ RetryComes

CursorSpec == CursorInit /\ [][CursorNext]_cursorVars

-------------------------------------------------------------------------------
\* What an image paints, about its hotspot.
About(image, hotspot) ==
  {<<((i - 1) % image.w) - hotspot[1], (i - 1) \div image.w - hotspot[2], image.at[i]>> :
     i \in Painted(image)}

Clamped(s) == <<Clamp(s.hotspot[1], s.w - 1), Clamp(s.hotspot[2], s.h - 1)>>

\* What the compositor shows, or nothing where it is elsewhere.
OnTheOutput == IF plane.inside THEN About(plane.shape, Clamped(plane.shape)) ELSE {}

\* What the cursor is captured as: its image the way it was before the output's
\* transform, and cropped.
Captures(p) == Cropped(Upright(p.transform, Turned(p.transform, p.shape)), p.shape.hotspot)

(* Where no event is unread: nothing is shown that no session captures; of a     *)
(* cursor that has a size a frame is in flight, or a retry will ask for one; and *)
(* once the compositor has no frame to answer, what is shown is captured of the  *)
(* cursor as it looks, by the session there is and with the hotspot and the      *)
(* transform there are, exactly while it is on the output (cursor.rs:14-23).     *)
CursorIsCurrent ==
  wire = <<>> =>
    /\ cursorCapture.id = 0 => shown = NoCursor
    /\ cursorCapture.id # 0 /\ SizeOf(plane) # NoBuffer => cursorCapture.frame \/ cursorCapture.retry
    /\ cursorCapture.id # 0 /\ ~link.damaged =>
         shown = IF plane.inside THEN Captures(plane) ELSE NoCursor

(* A client is then shown just what the output's cursor paints, about its        *)
(* hotspot, whatever way the output is turned and whichever rectangle it takes   *)
(* (rfb/cursor.rs:10-21).                                                        *)
CursorIsDrawn ==
  wire = <<>> /\ cursorCapture.id # 0 /\ ~link.damaged =>
    /\ About(shown, shown.hotspot) = OnTheOutput
    /\ LET read == Masked(CursorRect(shown)) IN
       /\ read.hotspot = shown.hotspot
       /\ \A i \in DOMAIN shown.at :
            IF shown.at[i][2] < MASK_THRESHOLD THEN read.at[i] = <<0, 0>>
            ELSE /\ read.at[i][2] = 255
                 /\ (read.at[i][1] * shown.at[i][2] + 127) \div 255 = shown.at[i][1]
=============================================================================
