------------------------------- MODULE Microphone -------------------------------
(***************************************************************************)
(* A client's microphone, lent to the desktop (src/microphone.rs, and what *)
(* the session does of it, src/session.rs): samples that come at the       *)
(* network's pace wait in a Jitter buffer for the graph, which asks at its *)
(* own.  Sound is counted in frames; each is known by its recording, which *)
(* is when an application began it.                                        *)
(***************************************************************************)
EXTENDS Integers, Sequences

CONSTANTS
  PREFILL,        \* Frames held back before the node plays.
  MAX_BUFFERED,   \* Frames kept at most; the oldest go past it.
  Sizes,          \* The frames a message of the client's may hold, or a
                  \* quantum of the graph's.
  MaxWaiting      \* Bound: messages each way, and recordings.

ASSUME MicrophoneAssumption ==
  PREFILL \in Nat /\ MAX_BUFFERED \in Nat /\ Sizes \subseteq Nat /\ MaxWaiting \in Nat

VARIABLES
  jitter,      \* Session::microphone's Jitter; not plugged for none.
  recordings,  \* Recordings begun.
  news,        \* Signals, and what the client has not read of them.
  talking,     \* The client sends samples.
  micUp,          \* The client's messages not read yet: plug, or frames.
  quantum      \* The last one filled: the frames of it that were not silent,
               \* and what the buffer held and played from before.

microphoneVars == <<jitter, recordings, news, talking, micUp, quantum>>

New == [plugged |-> TRUE, queue |-> <<>>, streaming |-> FALSE, playing |-> FALSE]

Gone == [New EXCEPT !.plugged = FALSE]

NoQuantum == [taken |-> 0, held |-> 0, dry |-> TRUE]

MicrophoneInit ==
  /\ jitter = Gone
  /\ recordings = 0 /\ news = <<>> /\ talking = FALSE /\ micUp = <<>>
  /\ quantum = NoQuantum

\* Jitter::set_streaming: nothing queued belongs to what follows.
SetStreaming(j, streaming) ==
  [j EXCEPT !.streaming = streaming, !.queue = <<>>, !.playing = FALSE]

\* Jitter::push: the newest are kept.
Push(j, n) ==
  LET all  == j.queue \o [i \in 1 .. n |-> recordings]
      over == IF Len(all) > MAX_BUFFERED THEN Len(all) - MAX_BUFFERED ELSE 0
  IN IF j.streaming THEN [j EXCEPT !.queue = SubSeq(all, over + 1, Len(all))] ELSE j

Playing(j) == j.playing \/ Len(j.queue) >= PREFILL

Taken(j, n) ==
  IF ~Playing(j) THEN 0 ELSE IF Len(j.queue) < n THEN Len(j.queue) ELSE n

(* Mutant: a buffer that ran dry plays on with whatever comes.             *)
FilledPlayingOn(j, n) ==
  [j EXCEPT !.queue = SubSeq(@, Taken(j, n) + 1, Len(@)), !.playing = Playing(j)]

\* Jitter::fill: silence before the prefill has arrived, and after it ran dry.
Filled(j, n) ==
  [j EXCEPT !.queue = SubSeq(@, Taken(j, n) + 1, Len(@)),
            !.playing = Playing(j) /\ Taken(j, n) = n]

-----------------------------------------------------------------------------
Sends(m) ==
  /\ Len(micUp) < MaxWaiting
  /\ micUp' = Append(micUp, m)
  /\ UNCHANGED <<jitter, recordings, news, talking, quantum>>

MicPlugs   == Sends([plug |-> TRUE, frames |-> 0])
MicUnplugs == Sends([plug |-> FALSE, frames |-> 0])
MicSample(n) == talking /\ n > 0 /\ Sends([plug |-> FALSE, frames |-> n])

MicReads ==
  /\ news # <<>>
  /\ talking' = (news[1] = "start")
  /\ news' = Tail(news)
  /\ UNCHANGED <<jitter, recordings, micUp, quantum>>

\* MicrophonePlug, which replaces one that is plugged and may be refused,
\* MicrophoneUnplug, and MicrophoneSample.  Signals of one that goes and that
\* the session has not sent go with it.
MicHandle ==
  /\ micUp # <<>>
  /\ micUp' = Tail(micUp)
  /\ IF micUp[1].frames > 0
     THEN jitter' = Push(jitter, micUp[1].frames) /\ UNCHANGED <<news, quantum>>
     ELSE /\ jitter' \in (IF micUp[1].plug THEN {New, Gone} ELSE {Gone})
          /\ \E sent \in 0 .. Len(news) : news' = SubSeq(news, 1, sent)
          /\ quantum' = NoQuantum
  /\ UNCHANGED <<recordings, talking>>

\* state_changed: an application records, or the last one stopped.
MicState ==
  /\ jitter.plugged /\ Len(news) < MaxWaiting
  /\ jitter.streaming \/ recordings < MaxWaiting
  /\ jitter' = SetStreaming(jitter, ~jitter.streaming)
  /\ recordings' = IF jitter.streaming THEN recordings ELSE recordings + 1
  /\ news' = Append(news, IF jitter.streaming THEN "stop" ELSE "start")
  /\ quantum' = NoQuantum
  /\ UNCHANGED <<talking, micUp>>

\* process: the graph wants a quantum.
MicProcess(n) ==
  /\ jitter.streaming /\ n > 0
  /\ jitter' = Filled(jitter, n)
  /\ quantum' = [taken |-> Taken(jitter, n), held |-> Len(jitter.queue),
                 dry |-> Taken(jitter, n) < n]
  /\ UNCHANGED <<recordings, news, talking, micUp>>

MicrophoneNext ==
  \/ MicPlugs \/ MicUnplugs \/ MicReads \/ MicHandle \/ MicState
  \/ \E n \in Sizes : MicSample(n) \/ MicProcess(n)

MicrophoneSpec == MicrophoneInit /\ [][MicrophoneNext]_microphoneVars

-----------------------------------------------------------------------------
\* A late sample is one gap, and no stutter: a node that has been silent, even
\* for a part of a quantum, speaks again only once the prefill is there; and
\* what waits is of the recording there is, and no more than a client that
\* bursts after a stall may be late by.
GapsAreWhole ==
  [][ /\ (quantum.dry /\ (\E n \in Sizes : MicProcess(n)) /\ quantum'.taken > 0
            => quantum'.held >= PREFILL)
      /\ Len(jitter'.queue) <= MAX_BUFFERED
      /\ \A i \in 1 .. Len(jitter'.queue) : jitter'.queue[i] = recordings' ]_microphoneVars
=============================================================================
