--------------------------------- MODULE Camera ---------------------------------
(***************************************************************************)
(* A client's camera, lent to the desktop (src/camera.rs, and what the     *)
(* session does of it, src/session.rs).                                    *)
(*                                                                         *)
(* The session hands the client's samples to the camera's thread through a *)
(* queue that drops, the thread decodes them, and an H.264 stream is not   *)
(* decoded across a lost unit: whoever loses one asks for a keyframe,      *)
(* through one channel that the session reads.  PipeWire, the decoder and  *)
(* the client are external.  The client sends samples between start and    *)
(* stop, its first a keyframe, and one whenever it is asked.               *)
(***************************************************************************)
EXTENDS Integers, Sequences

CONSTANTS
  CAMERA_DEPTH,   \* Samples waiting for the camera's thread.
  MaxSignals,    \* Bound: decisions the session has not sent yet.
  MaxOnWire      \* Bound: messages on the wire each way.

ASSUME CameraAssumption ==
  CAMERA_DEPTH \in Nat \ {0} /\ MaxSignals \in Nat /\ MaxOnWire \in Nat

VARIABLES
  camera,   \* Session::camera, its thread's Feed, and what is between the two.
  cameraDown,     \* Written to the client and not read.
  cameraUp,       \* Written by the client and not read.
  sender    \* The client: whether it sends, and owes a keyframe.

cameraVars == <<camera, cameraDown, cameraUp, sender>>

Plugged ==
  [plugged |-> TRUE, gap |-> FALSE, queue |-> <<>>, signals |-> <<>>,
   streaming |-> FALSE, keyframeOwed |-> TRUE, failed |-> FALSE]

Unplugged == [Plugged EXCEPT !.plugged = FALSE]

CameraInit ==
  /\ camera = Unplugged
  /\ cameraDown = <<>> /\ cameraUp = <<>>
  /\ sender = [sending |-> FALSE, keyNext |-> FALSE]

-----------------------------------------------------------------------------
(* The client.                                                             *)

ClientSends(m) ==
  /\ Len(cameraUp) < MaxOnWire
  /\ cameraUp' = Append(cameraUp, m)
  /\ UNCHANGED <<camera, cameraDown>>

CameraPlugs   == ClientSends("plug") /\ UNCHANGED sender
CameraUnplugs == ClientSends("unplug") /\ UNCHANGED sender

CameraSample(keyframe) ==
  /\ sender.sending /\ (sender.keyNext => keyframe)
  /\ ClientSends(IF keyframe THEN "keyframe" ELSE "delta")
  /\ sender' = [sender EXCEPT !.keyNext = FALSE]

CameraReads ==
  /\ cameraDown # <<>>
  /\ cameraDown' = Tail(cameraDown)
  /\ sender' = [sending |-> CASE cameraDown[1] = "start" -> TRUE
                              [] cameraDown[1] = "stop" -> FALSE
                              [] OTHER -> sender.sending,
                keyNext |-> (cameraDown[1] # "stop" \/ sender.keyNext)]
  /\ UNCHANGED <<camera, cameraUp>>

-----------------------------------------------------------------------------
(* The session.                                                            *)

Signalled(c, s) == [c EXCEPT !.signals = Append(@, s)]

(* Mutant: a gap is reported once, whatever is lost in it.                 *)
SampledOnce(c, keyframe) ==
  IF ~keyframe /\ c.gap THEN c
  ELSE IF Len(c.queue) >= CAMERA_DEPTH
       THEN [(IF ~c.gap THEN Signalled(c, "keyframe") ELSE c) EXCEPT !.gap = TRUE]
       ELSE [c EXCEPT !.gap = FALSE, !.queue = Append(@, keyframe)]

\* Camera::sample: a full queue opens a gap, reported once and again for a
\* keyframe lost to it; a keyframe that finds room closes it.
Sampled(c, keyframe) ==
  IF ~keyframe /\ c.gap THEN c
  ELSE IF Len(c.queue) >= CAMERA_DEPTH
       THEN [(IF keyframe \/ ~c.gap THEN Signalled(c, "keyframe") ELSE c)
               EXCEPT !.gap = TRUE]
       ELSE [c EXCEPT !.gap = FALSE, !.queue = Append(@, keyframe)]

\* A message of the client's: a plug replaces a camera already plugged, and
\* may be refused; a sample without one is dropped.
CameraHandle ==
  /\ cameraUp # <<>> /\ Len(camera.signals) < MaxSignals
  /\ cameraUp' = Tail(cameraUp)
  /\ CASE cameraUp[1] = "plug"   -> camera' \in {Plugged, Unplugged}
       [] cameraUp[1] = "unplug" -> camera' = Unplugged
       [] OTHER -> camera' = IF camera.plugged
                             THEN Sampled(camera, cameraUp[1] = "keyframe") ELSE camera
  /\ UNCHANGED <<cameraDown, sender>>

\* send_camera_signal: a camera that failed is stopped and unplugged.
SendSignal ==
  /\ camera.signals # <<>> /\ Len(cameraDown) < MaxOnWire
  /\ LET s == camera.signals[1]
     IN /\ cameraDown' = Append(cameraDown, IF s = "failed" THEN "stop" ELSE s)
        /\ camera' = IF s = "failed" THEN Unplugged
                     ELSE [camera EXCEPT !.signals = Tail(@)]
  /\ UNCHANGED <<cameraUp, sender>>

-----------------------------------------------------------------------------
(* The camera's thread.                                                    *)

Thread(c) == camera' = c /\ UNCHANGED <<cameraDown, cameraUp, sender>>

\* An application opens the camera, or the last one closes it.
CameraState ==
  /\ camera.plugged /\ Len(camera.signals) < MaxSignals
  /\ Thread(IF camera.streaming
            THEN Signalled([camera EXCEPT !.streaming = FALSE], "stop")
            ELSE Signalled([camera EXCEPT !.streaming = TRUE, !.keyframeOwed = TRUE],
                           "start"))

\* Feed::take, a sample nothing is decoded of.
Skipped(keyframe) == camera.failed \/ (camera.keyframeOwed /\ ~keyframe)

\* Feed::take: a picture, one of another size, which is said once, or a unit
\* the decoder could not take.  Low delay: a keyframe completes its picture.
Take ==
  /\ camera.queue # <<>> /\ Len(camera.signals) < MaxSignals
  /\ LET keyframe == camera.queue[1]
         c == [camera EXCEPT !.queue = Tail(@)]
     IN IF Skipped(keyframe) THEN Thread(c)
        ELSE \/ Thread([c EXCEPT !.keyframeOwed = FALSE])
             \/ ~keyframe /\ Thread(c)
             \/ Thread(Signalled([c EXCEPT !.failed = TRUE], "failed"))
             \/ Thread(Signalled([c EXCEPT !.keyframeOwed = TRUE], "keyframe"))

CameraNext ==
  \/ CameraPlugs \/ CameraUnplugs \/ CameraReads
  \/ \E keyframe \in BOOLEAN : CameraSample(keyframe)
  \/ CameraHandle \/ SendSignal \/ CameraState \/ Take

CameraSpec == CameraInit /\ [][CameraNext]_cameraVars

-----------------------------------------------------------------------------
FrameHeld(s, m) == \E i \in 1 .. Len(s) : s[i] = m

\* A camera an application has open never waits for a keyframe that nobody was
\* asked for: while its thread or its session skips samples until one, one is
\* on its way, or asked for, whatever was lost, refused, closed and opened
\* again in between.
KeyframeIsComing ==
  camera.streaming /\ ~camera.failed /\ (camera.keyframeOwed \/ camera.gap) =>
    \/ FrameHeld(camera.queue, TRUE) \/ FrameHeld(cameraUp, "keyframe")
    \/ sender.sending /\ sender.keyNext
    \/ \E ask \in {"start", "keyframe"} : FrameHeld(camera.signals, ask) \/ FrameHeld(cameraDown, ask)
=============================================================================
