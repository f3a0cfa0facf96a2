--------------------------------- MODULE Sound ---------------------------------
(***************************************************************************)
(* The desktop's sound for the clients that listen (src/audio.rs, and what *)
(* the sessions do of it, src/session.rs).                                 *)
(*                                                                         *)
(* A session is one task.  Opening and closing a capture, and taking a     *)
(* lease on the speaker, are jobs of threads of their own that the session *)
(* waits for; a takeover cancels the session at any wait, and a job goes   *)
(* on without it.  The speaker is one for all, under a lock.  PipeWire is  *)
(* external: it takes a stream, refuses it, or does not answer in time.    *)
(* A coded frame is its number in its stream; the samples are left out.    *)
(***************************************************************************)
EXTENDS Integers, Sequences, FiniteSets

CONSTANTS
  Listeners,     \* The clients' sessions.
  QUEUE_DEPTH,   \* Frames kept for a session slow to send them.
  MaxFrames      \* Bound: the frames of one stream.

ASSUME SoundAssumption == QUEUE_DEPTH \in Nat \ {0} /\ MaxFrames \in Nat

Codecs  == {"flac", "opus"}
Formats == {1, 2}

VARIABLES
  leases,   \* SPEAKER: how many hold it, 0 when there is none.
  asked,    \* What each client asked for: Session's audio fields.
  capture,  \* Session::audio, or NoCapture.
  job,      \* The job each session waits for.
  orphans,  \* The jobs a cancelled session left: yet to take a lease, and
            \* holding one.
  hold,     \* The lease a restart holds across.
  told      \* What the client was sent: begin, and the frames since.

soundVars == <<leases, asked, capture, job, orphans, hold, told>>

NoCapture == [open |-> FALSE, codec |-> "flac", format |-> 1, queue |-> <<>>, coded |-> 0]

Opened(c) == [open |-> TRUE, codec |-> asked[c].codec, format |-> asked[c].format,
              queue |-> <<>>, coded |-> 0]

\* Jobs: none, Lease::take of a restart, closing, opening with and without its
\* lease yet, and dropping the restart's lease.
Jobs == {"none", "lease", "close", "open", "connect", "drop", "gone"}

Silent == [begun |-> FALSE, codec |-> "flac", last |-> 0, step |-> TRUE]

SoundInit ==
  /\ leases = 0
  /\ asked = [c \in Listeners |->
                [listed |-> FALSE, codec |-> "flac", format |-> 1, rated |-> FALSE,
                 restart |-> FALSE]]
  /\ capture = [c \in Listeners |-> NoCapture]
  /\ job = [c \in Listeners |-> "none"]
  /\ orphans = [c \in Listeners |-> [pending |-> 0, holding |-> 0]]
  /\ hold = [c \in Listeners |-> FALSE]
  /\ told = [c \in Listeners |-> Silent]

Free(c) == job[c] = "none"

\* start_audio, from its first await.
Asks(c, a, j) ==
  /\ asked' = [asked EXCEPT ![c] = a]
  /\ job' = [job EXCEPT ![c] = j]

(* Mutant: the restart holds no lease across.                              *)
RestartJobBare(c) == IF capture[c].open THEN "close" ELSE "none"

\* restart_audio: nothing without a capture; otherwise a lease first.
RestartJob(c) == IF capture[c].open THEN "lease" ELSE "none"

Restarts(c, a) ==
  Asks(c, [a EXCEPT !.restart = capture[c].open], RestartJob(c))

(* Mutant: a list of another codec leaves the stream running as it was.     *)
ListsNoRestart(c, audio, codec) ==
  /\ Free(c)
  /\ LET a == [asked[c] EXCEPT !.listed = audio, !.codec = codec]
     IN IF ~audio /\ capture[c].open THEN Asks(c, a, "close") ELSE Asks(c, a, "none")
  /\ UNCHANGED <<leases, capture, orphans, hold, told>>

\* SetEncodings: a list without the extension ends the stream, and one of
\* another codec restarts it.
Lists(c, audio, codec) ==
  /\ Free(c)
  /\ LET a == [asked[c] EXCEPT !.listed = audio, !.codec = codec]
     IN IF ~audio THEN Asks(c, a, IF capture[c].open THEN "close" ELSE "none")
        ELSE IF codec # asked[c].codec THEN Restarts(c, a)
        ELSE Asks(c, a, "none")
  /\ UNCHANGED <<leases, capture, orphans, hold, told>>

AudioEnable(c) ==
  /\ Free(c) /\ asked[c].listed /\ ~capture[c].open
  /\ Asks(c, asked[c], "open")
  /\ UNCHANGED <<leases, capture, orphans, hold, told>>

AudioDisable(c) ==
  /\ Free(c) /\ asked[c].listed /\ capture[c].open
  /\ Asks(c, asked[c], "close")
  /\ UNCHANGED <<leases, capture, orphans, hold, told>>

AudioFormat(c, format) ==
  /\ Free(c) /\ asked[c].listed
  /\ Restarts(c, [asked[c] EXCEPT !.format = format])
  /\ UNCHANGED <<leases, capture, orphans, hold, told>>

\* A running stream moves to the rate with no restart.
AudioBitrate(c) ==
  /\ Free(c) /\ asked[c].listed
  /\ Asks(c, [asked[c] EXCEPT !.rated = TRUE], "none")
  /\ UNCHANGED <<leases, capture, orphans, hold, told>>

-----------------------------------------------------------------------------
(* The jobs.                                                               *)

\* A restart goes on to open again, or to drop its lease; an enable or a
\* disable is over.
After(c, j) == job' = [job EXCEPT ![c] = IF asked[c].restart THEN j ELSE "none"]

\* Lease::take for the restart: the speaker is there, as the capture holds it.
LeaseTaken(c) ==
  /\ job[c] = "lease"
  /\ leases' = leases + 1
  /\ hold' = [hold EXCEPT ![c] = TRUE]
  /\ job' = [job EXCEPT ![c] = "close"]
  /\ UNCHANGED <<asked, capture, orphans, told>>

\* Capture's drop: its thread is joined, then its lease goes, and the client
\* is told; frames still queued go with it.
Closed(c) ==
  /\ job[c] = "close"
  /\ leases' = leases - 1
  /\ capture' = [capture EXCEPT ![c] = NoCapture]
  /\ told' = [told EXCEPT ![c] = Silent]
  /\ After(c, "open")
  /\ UNCHANGED <<asked, orphans, hold>>

\* Capture::start: the encoder first, which Opus without a rate is not; then
\* the lease, which may need a speaker PipeWire has to take.
Opening(c) ==
  /\ job[c] = "open"
  /\ \/ /\ asked[c].codec = "flac" \/ asked[c].rated
        /\ leases' = leases + 1
        /\ job' = [job EXCEPT ![c] = "connect"]
        /\ UNCHANGED asked
     \/ /\ (asked[c].codec = "opus" /\ ~asked[c].rated) \/ leases = 0
        /\ After(c, "drop")
        /\ UNCHANGED <<asked, leases>>
  /\ UNCHANGED <<capture, orphans, hold, told>>

(* Mutant: a stream PipeWire did not take leaves its lease.                 *)
ConnectedOrNot(c) ==
  /\ job[c] = "connect"
  /\ \/ /\ capture' = [capture EXCEPT ![c] = Opened(c)]
        /\ told' = [told EXCEPT ![c] = [Silent EXCEPT !.begun = TRUE, !.codec = asked[c].codec]]
     \/ UNCHANGED <<capture, told>>
  /\ After(c, "drop")
  /\ UNCHANGED <<leases, asked, orphans, hold>>

\* Then the stream, which PipeWire takes, or refuses, or does not answer.
Connected(c) ==
  /\ job[c] = "connect"
  /\ \/ /\ capture' = [capture EXCEPT ![c] = Opened(c)]
        /\ told' = [told EXCEPT ![c] = [Silent EXCEPT !.begun = TRUE, !.codec = asked[c].codec]]
        /\ UNCHANGED leases
     \/ /\ leases' = leases - 1
        /\ UNCHANGED <<capture, told>>
  /\ After(c, "drop")
  /\ UNCHANGED <<asked, orphans, hold>>

LeaseDropped(c) ==
  /\ job[c] = "drop"
  /\ leases' = IF hold[c] THEN leases - 1 ELSE leases
  /\ hold' = [hold EXCEPT ![c] = FALSE]
  /\ Asks(c, [asked[c] EXCEPT !.restart = FALSE], "none")
  /\ UNCHANGED <<capture, orphans, told>>

-----------------------------------------------------------------------------
(* The sound.                                                              *)

\* Queue::put: a FLAC frame pushes the oldest out of a full queue.
Put(q, codec, n) ==
  IF codec = "flac" /\ Len(q) >= QUEUE_DEPTH THEN Append(Tail(q), n) ELSE Append(q, n)

\* Queue::skips: a full queue stops Opus from being coded at all.
Skips(q, codec) == codec = "opus" /\ Len(q) >= QUEUE_DEPTH

\* The capture thread is given a buffer, whatever its session waits for; it
\* completes a frame or two.
Process(c) ==
  /\ capture[c].open
  /\ ~Skips(capture[c].queue, capture[c].codec)
  /\ LET codec == capture[c].codec
         n     == capture[c].coded
         one   == Put(capture[c].queue, codec, n + 1)
     IN \E frames \in 1 .. 2 :
          /\ n + frames <= MaxFrames
          /\ capture' = [capture EXCEPT ![c].coded = n + frames,
               ![c].queue = IF frames = 1 THEN one ELSE Put(one, codec, n + 2)]
  /\ UNCHANGED <<leases, asked, job, orphans, hold, told>>

\* flush_audio, a frame at a time.
FlushAudio(c) ==
  /\ Free(c) /\ capture[c].open /\ capture[c].queue # <<>>
  /\ LET n == capture[c].queue[1]
     IN told' = [told EXCEPT ![c].last = n,
                             ![c].step = @ /\ (told[c].codec = "opus" => n = told[c].last + 1)]
  /\ capture' = [capture EXCEPT ![c].queue = Tail(@)]
  /\ UNCHANGED <<leases, asked, job, orphans, hold>>

-----------------------------------------------------------------------------
(* The session ends, between two messages or cancelled as it waits: a      *)
(* capture it holds is closed by a job of its own, a job under way runs to *)
(* its end and what it opened is dropped, and so is a restart's lease.     *)
Ends(c) ==
  /\ job[c] # "gone"
  /\ orphans' = [orphans EXCEPT ![c] =
       [pending |-> IF job[c] \in {"lease", "open"} THEN 1 ELSE 0,
        holding |-> (IF capture[c].open THEN 1 ELSE 0)
                      + (IF job[c] = "connect" THEN 1 ELSE 0)]]
  /\ leases' = IF hold[c] THEN leases - 1 ELSE leases
  /\ hold' = [hold EXCEPT ![c] = FALSE]
  /\ capture' = [capture EXCEPT ![c] = NoCapture]
  /\ job' = [job EXCEPT ![c] = "gone"]
  /\ told' = [told EXCEPT ![c] = Silent]
  /\ UNCHANGED asked

OrphanTakes(c) ==
  /\ orphans[c].pending > 0
  /\ \/ /\ orphans' = [orphans EXCEPT ![c].pending = @ - 1, ![c].holding = @ + 1]
        /\ leases' = leases + 1
     \/ /\ orphans' = [orphans EXCEPT ![c].pending = @ - 1]
        /\ UNCHANGED leases
  /\ UNCHANGED <<asked, capture, job, hold, told>>

OrphanEnds(c) ==
  /\ orphans[c].holding > 0
  /\ orphans' = [orphans EXCEPT ![c].holding = @ - 1]
  /\ leases' = leases - 1
  /\ UNCHANGED <<asked, capture, job, hold, told>>

SoundJobs(c) == \/ LeaseTaken(c) \/ Closed(c) \/ Opening(c) \/ Connected(c)
                \/ LeaseDropped(c) \/ OrphanTakes(c) \/ OrphanEnds(c)

SoundNext ==
  \E c \in Listeners :
    \/ \E audio \in BOOLEAN, codec \in Codecs : Lists(c, audio, codec)
    \/ AudioEnable(c) \/ AudioDisable(c) \/ AudioBitrate(c)
    \/ \E format \in Formats : AudioFormat(c, format)
    \/ SoundJobs(c) \/ Process(c) \/ FlushAudio(c) \/ Ends(c)

SoundSpec == SoundInit /\ [][SoundNext]_soundVars

-----------------------------------------------------------------------------
\* What holds the speaker: captures, restarts, streams being connected, and the
\* jobs a cancelled session left.
Capturing   == {c \in Listeners : capture[c].open}
Restarting  == {c \in Listeners : hold[c]}
Connecting  == {c \in Listeners : job[c] = "connect"}
OrphanHolds == UNION {{c} \X (1 .. orphans[c].holding) : c \in Listeners}

\* The speaker is there for exactly as long as something holds it, and every
\* hold is given back once, however a session is cancelled between taking a
\* lease, closing and opening: leases counts them.
LeasesAreHeld ==
  leases = Cardinality(Capturing) + Cardinality(Restarting)
             + Cardinality(Connecting) + Cardinality(OrphanHolds)

\* While a stream is restarted the desktop keeps playing into the speaker: the
\* host is not heard between the two captures (restart_audio).
HostStaysSilent ==
  \A c \in Listeners : asked[c].restart /\ job[c] # "gone" => leases > 0

\* A session that waits for nothing captures what its client last asked for,
\* and only for a client that lists the extension; and no Opus packet is lost
\* between the coder and the client, each decoding from the one before.
SoundIsAsAsked ==
  \A c \in Listeners :
    /\ Free(c) /\ capture[c].open
         => /\ asked[c].listed
            /\ capture[c].codec = asked[c].codec
            /\ capture[c].format = asked[c].format
            /\ told[c].begun
    /\ told[c].step
=============================================================================
