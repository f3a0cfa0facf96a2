------------------------------- MODULE MCDevices -------------------------------
(* Instances small enough for TLC of a session's transport, of its cursor and of *)
(* what it carries beside the picture.  They share no state, so each behaviour   *)
(* is of one of them.                                                            *)
EXTENDS Sound, Blocks, Camera, Microphone, Clipboard, Texts, Inputs, Motions,
        Cursor, Transport

CONSTANT Parts   \* Those that run: some of Part.

Part == {"sound", "blocks", "camera", "microphone", "clipboard", "texts", "input",
         "motions", "cursor", "transport"}

VARIABLE part    \* The one that runs.

devicesVars == <<soundVars, cameraVars, microphoneVars, clipboardVars, inputsVars,
                 cursorVars, transportVars, sounds, part>>

\* A keyboard layout with one Shift key, or one on either side.
OneShift   == <<1>>
BothShifts == <<1, 2>>

\* Shapes with an edge, a colour under no alpha and a byte of mask to spare.
FewShapes == {
  [w |-> 3, h |-> 2, hotspot |-> <<0, 1>>,
   at |-> <<<<0, 0>>, <<200, 255>>, <<0, 0>>, <<0, 0>>, <<77, 130>>, <<9, 40>>>>],
  [w |-> 2, h |-> 3, hotspot |-> <<1, 7>>,
   at |-> <<<<1, 255>>, <<0, 0>>, <<0, 0>>, <<0, 0>>, <<0, 0>>, <<0, 0>>>>],
  [w |-> 9, h |-> 1, hotspot |-> <<-1, 0>>,
   at |-> [i \in 1 .. 9 |-> IF i % 2 = 1 THEN <<i, 255>> ELSE <<0, 0>>]]}

\* Outputs beside and below one another, from the origin and from before it, at a
\* whole scale, a fractional one and none, one not laid out and two of no size.
Out(mode, at, size) ==
  [mode |-> mode, transform |-> <<FALSE, 0>>, box |-> {[at |-> at, size |-> size]}]
FewLayouts == {
  {Out(<<4, 3>>, <<0, 0>>, <<4, 3>>), Out(<<5, 6>>, <<4, 0>>, <<2, 2>>)},
  {Out(<<3, 4>>, <<-3, -2>>, <<3, 4>>), Out(<<4, 2>>, <<0, -1>>, <<2, 1>>),
   [Out(<<4, 4>>, <<0, 0>>, <<4, 4>>) EXCEPT !.box = {}]},
  {Out(<<4, 3>>, <<0, 0>>, <<0, 3>>), Out(<<0, 2>>, <<0, 0>>, <<4, 2>>)}}
FewExtents == {<<4, 3>>, <<0, 5>>}

AllTransforms == BOOLEAN \X (0 .. 3)

\* A name of one letter and a password of two.
OneAccount == {<<1, 2>>}

\* What a client says: well-formed messages of fixed and of told lengths, a fence
\* that says it carries too much, and a bit rate out of bounds.
M(k, n, g) == [kind |-> k, count |-> n, good |-> g]
FewSpeeches == {
  <<M("PointerEvent", 0, TRUE), M("Fence", 2, TRUE), M("CacheEmpty", 0, TRUE)>>,
  <<M("AudioSwitch", 0, TRUE), M("SetEncodings", 1, TRUE), M("Fence", 65, TRUE),
    M("CacheEmpty", 0, TRUE)>>,
  <<M("CutText", 1, TRUE), M("AudioBitrate", 0, FALSE), M("CacheEmpty", 0, TRUE)>>}

\* The edges of a sample's range, in buffers shorter than a block, longer, in the
\* midst of their memory, past its end, and of a frame and a half.
Edges == <<0, 127, 128, 255, 1, 254, 130, 5, 200, 64, 0, 33, 255>>
FewBuffers == {
  [bytes |-> SubSeq(Edges, 1, 4), offset |-> 0, size |-> 4],
  [bytes |-> Edges, offset |-> 0, size |-> 13],
  [bytes |-> Edges, offset |-> 3, size |-> 6],
  [bytes |-> SubSeq(Edges, 1, 9), offset |-> 1, size |-> 20]}

OneOf(S) == CHOOSE x \in S : TRUE

DevicesInit ==
  /\ part \in Parts
  /\ SoundInit /\ CameraInit /\ MicrophoneInit /\ ClipboardInit /\ InputsInit
  /\ CursorInit /\ TransportInit /\ BlocksInit
  /\ part # "clipboard" => /\ server.device
                           /\ client.caps = [notify |-> TRUE, provide |-> TRUE, request |-> TRUE]
  /\ client.caps.request \/ (client.caps.notify /\ client.caps.provide)   \* Bound.
  /\ part # "cursor" => plane.transform = <<FALSE, 0>>
  /\ part # "transport" =>
       /\ offered.types = OneOf(Offers) /\ offered.wants = OneOf(Wants)
       /\ learnt["client"].own # SHORT_KEY /\ said.all = OneOf(Speech)

DevicesNext ==
  \/ /\ part = "sound" /\ SoundNext
     /\ UNCHANGED <<cameraVars, microphoneVars, clipboardVars, inputsVars,
                    cursorVars, transportVars, sounds, part>>
  \/ /\ part = "camera" /\ CameraNext
     /\ UNCHANGED <<soundVars, microphoneVars, clipboardVars, inputsVars,
                    cursorVars, transportVars, sounds, part>>
  \/ /\ part = "microphone" /\ MicrophoneNext
     /\ UNCHANGED <<soundVars, cameraVars, clipboardVars, inputsVars,
                    cursorVars, transportVars, sounds, part>>
  \/ /\ part = "clipboard" /\ ClipboardNext
     /\ UNCHANGED <<soundVars, cameraVars, microphoneVars, inputsVars,
                    cursorVars, transportVars, sounds, part>>
  \/ /\ part = "input" /\ InputsNext
     /\ UNCHANGED <<soundVars, cameraVars, microphoneVars, clipboardVars,
                    cursorVars, transportVars, sounds, part>>
  \/ /\ part = "cursor" /\ CursorNext
     /\ UNCHANGED <<soundVars, cameraVars, microphoneVars, clipboardVars,
                    inputsVars, transportVars, sounds, part>>
  \/ /\ part = "transport" /\ TransportNext
     /\ UNCHANGED <<soundVars, cameraVars, microphoneVars, clipboardVars,
                    inputsVars, cursorVars, sounds, part>>
  \/ /\ part = "blocks" /\ BlocksNext
     /\ UNCHANGED <<soundVars, cameraVars, microphoneVars, clipboardVars,
                    inputsVars, cursorVars, transportVars, part>>

DevicesSpec == DevicesInit /\ [][DevicesNext]_devicesVars

-------------------------------------------------------------------------------
(* What crosses between the desktop and a client is what it was: the frames of    *)
(* sound are the samples captured, whatever buffers they came in; a text crosses *)
(* whole or not at all; a position lands where its client points; and the cursor *)
(* is drawn as it is painted.                                                    *)
ConversionsHold ==
  /\ BlocksAreCaptured
  /\ part = "texts" => TextsCross
  /\ part = "motions" => MotionsLand
  /\ CursorIsDrawn
=============================================================================
