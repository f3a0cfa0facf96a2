---------------------------- MODULE DevicesProofs ----------------------------
(***************************************************************************)
(* The safety of what a session carries beside the picture, for any        *)
(* clients and bounds: the speaker is held by as many as its count says    *)
(* and a client hears what it asked for; a camera is never left waiting    *)
(* for a keyframe nobody was asked for; a scroll goes where it was aimed;  *)
(* a microphone that ran dry speaks again only from a full prefill; and    *)
(* what keys are down, two clients hold them.                              *)
(***************************************************************************)
EXTENDS Sound, Camera, Microphone, Inputs, FiniteSetTheorems, WellFoundedInduction, TLAPS

(* What a client can ask of the sound, and the rest of one session's.      *)
Asked ==
  [listed : BOOLEAN, codec : Codecs, format : Formats, rated : BOOLEAN, restart : BOOLEAN]
Captured ==
  [open : BOOLEAN, codec : Codecs, format : Formats, queue : Seq(Nat), coded : Nat]
Told   == [begun : BOOLEAN, codec : Codecs, last : Nat, step : BOOLEAN]
Orphan == [pending : Nat, holding : Nat]

SoundTypeOK ==
  /\ leases \in Int
  /\ asked \in [Listeners -> Asked]
  /\ capture \in [Listeners -> Captured]
  /\ job \in [Listeners -> Jobs]
  /\ orphans \in [Listeners -> Orphan]
  /\ hold \in [Listeners -> BOOLEAN]
  /\ told \in [Listeners -> Told]

(* Where one session stands, between the jobs of a restart: it holds a     *)
(* lease from the first to the last, a capture is closed before another is *)
(* opened, and only a listed client has one opened.                        *)
Stands(a, k, j, o, h) ==
  /\ h <=> a.restart /\ j \in {"close", "open", "connect", "drop"}
  /\ a.restart => j # "none"
  /\ j \in {"lease", "drop"} => a.restart
  /\ j \in {"lease", "close"} => k.open
  /\ j \in {"open", "connect", "gone"} => ~k.open
  /\ j \in {"lease", "open", "connect", "drop"} \/ (j = "close" /\ a.restart) => a.listed
  /\ j # "gone" => o.holding = 0 /\ o.pending = 0

(* The frames queued are those from the last sent to the last coded.       *)
Follows(q, last, coded) ==
  /\ \A i \in 1 .. Len(q) : q[i] = last + i
  /\ coded = last + Len(q)

(* What one session captures: what was asked, unless it is being closed;   *)
(* and an Opus stream's packets follow what was sent.                      *)
Streams(a, k, j, t) ==
  /\ k.open /\ j \in {"none", "drop"} =>
       a.listed /\ k.codec = a.codec /\ k.format = a.format
  /\ k.open => t.begun /\ t.codec = k.codec
  /\ k.open /\ k.codec = "opus" => Follows(k.queue, t.last, k.coded)
  /\ t.step

SoundInv ==
  /\ SoundTypeOK
  /\ \A c \in Listeners : Stands(asked[c], capture[c], job[c], orphans[c], hold[c])
  /\ \A c \in Listeners : Streams(asked[c], capture[c], job[c], told[c])
  /\ IsFiniteSet(Capturing) /\ IsFiniteSet(Restarting)
  /\ IsFiniteSet(Connecting) /\ IsFiniteSet(OrphanHolds)
  /\ LeasesAreHeld

-----------------------------------------------------------------------------
(* A step is one session's.                                                *)
Steps(c) ==
  \/ \E audio \in BOOLEAN, codec \in Codecs : Lists(c, audio, codec)
  \/ AudioEnable(c) \/ AudioDisable(c) \/ AudioBitrate(c)
  \/ \E format \in Formats : AudioFormat(c, format)
  \/ SoundJobs(c) \/ Process(c) \/ FlushAudio(c) \/ Ends(c)

(* One holder more, or, read the other way, one less.                      *)
LEMMA OneMore ==
  ASSUME NEW S, NEW x, x \notin S, NEW T, T = S \cup {x},
         IsFiniteSet(S) \/ IsFiniteSet(T)
  PROVE  /\ IsFiniteSet(S) /\ IsFiniteSet(T)
         /\ Cardinality(S) \in Nat
         /\ Cardinality(T) = Cardinality(S) + 1
<1>1. IsFiniteSet(S)
  BY FS_Subset
<1>2. QED
  BY <1>1, FS_AddElement, FS_CardinalityType

(* Of a set that a step changes at one element at most.                    *)
Num(b) == IF b THEN 1 ELSE 0

LEMMA OneMoves ==
  ASSUME NEW S, NEW T, NEW x, IsFiniteSet(S),
         \A y : y # x => (y \in S <=> y \in T)
  PROVE  /\ IsFiniteSet(T) /\ Cardinality(S) \in Nat /\ Cardinality(T) \in Nat
         /\ Cardinality(T) = Cardinality(S) + Num(x \in T) - Num(x \in S)
<1>1. CASE x \in S /\ x \notin T
  <2>1. S = T \cup {x}
    BY <1>1
  <2>2. QED
    BY <1>1, <2>1, OneMore, FS_CardinalityType DEF Num
<1>2. CASE x \notin S /\ x \in T
  <2>1. T = S \cup {x}
    BY <1>2
  <2>2. QED
    BY <1>2, <2>1, OneMore, FS_CardinalityType DEF Num
<1>3. CASE x \in S <=> x \in T
  <2>1. S = T
    BY <1>3
  <2>2. Cardinality(S) \in Nat
    BY FS_CardinalityType
  <2>3. QED
    BY <2>1, <2>2 DEF Num
<1>4. QED
  BY <1>1, <1>2, <1>3

LEMMA SoundInitially == SoundInit => SoundInv
<1> SUFFICES ASSUME SoundInit PROVE SoundInv
  OBVIOUS
<1> USE DEF SoundInit
<1>1. SoundTypeOK
  BY DEF SoundTypeOK, Asked, Captured, Told, Orphan, Jobs, Codecs, Formats,
         NoCapture, Silent
<1>2. \A c \in Listeners : Stands(asked[c], capture[c], job[c], orphans[c], hold[c])
  BY DEF Stands, NoCapture
<1>3. \A c \in Listeners : Streams(asked[c], capture[c], job[c], told[c])
  BY DEF Streams, NoCapture, Silent
<1>4. Capturing = {} /\ Restarting = {} /\ Connecting = {} /\ OrphanHolds = {}
  BY DEF Capturing, Restarting, Connecting, OrphanHolds, NoCapture
<1>5. IsFiniteSet({}) /\ Cardinality({}) = 0
  BY FS_EmptySet
<1>6. LeasesAreHeld
  BY <1>4, <1>5 DEF LeasesAreHeld
<1>7. QED
  BY <1>1, <1>2, <1>3, <1>4, <1>5, <1>6 DEF SoundInv

-----------------------------------------------------------------------------
(* What a session asks, and the job it waits for, are of their types, and  *)
(* are those of no other session.                                          *)
LEMMA AsksTyped ==
  ASSUME SoundTypeOK, NEW c \in Listeners, NEW b \in Asked, NEW j \in Jobs, Asks(c, b, j)
  PROVE  /\ asked' \in [Listeners -> Asked] /\ asked'[c] = b
         /\ job' \in [Listeners -> Jobs] /\ job'[c] = j
         /\ \A e \in Listeners \ {c} : asked'[e] = asked[e] /\ job'[e] = job[e]
BY DEF SoundTypeOK, Asks

LEMMA AfterTyped ==
  ASSUME SoundTypeOK, NEW c \in Listeners, NEW j \in Jobs, After(c, j)
  PROVE  /\ job' \in [Listeners -> Jobs]
         /\ job'[c] = IF asked[c].restart THEN j ELSE "none"
         /\ \A e \in Listeners \ {c} : job'[e] = job[e]
BY DEF SoundTypeOK, After, Jobs

(* What SetEncodings, and another format, ask.                             *)
LEMMA ListsAsks ==
  ASSUME SoundTypeOK, NEW c \in Listeners, NEW audio \in BOOLEAN, NEW codec \in Codecs,
         Lists(c, audio, codec)
  PROVE  \E b \in Asked, j \in Jobs :
           /\ Asks(c, b, j)
           /\ b.listed = audio /\ b.codec = codec
           /\ b.format = asked[c].format
           /\ b.restart = (IF audio /\ codec # asked[c].codec THEN capture[c].open
                           ELSE asked[c].restart)
           /\ j = IF ~capture[c].open THEN "none"
                  ELSE IF ~audio THEN "close"
                  ELSE IF codec # asked[c].codec THEN "lease" ELSE "none"
<1> DEFINE a == [asked[c] EXCEPT !.listed = audio, !.codec = codec]
           r == [a EXCEPT !.restart = capture[c].open]
<1>1. asked[c] \in Asked /\ capture[c].open \in BOOLEAN
  BY DEF SoundTypeOK, Captured
<1>2. a \in Asked /\ a.listed = audio /\ a.codec = codec /\ a.format = asked[c].format
      /\ a.restart = asked[c].restart
  BY <1>1 DEF Asked
<1>3. r \in Asked /\ r.listed = audio /\ r.codec = codec /\ r.format = asked[c].format
      /\ r.restart = capture[c].open
  BY <1>1, <1>2 DEF Asked
<1>4. CASE ~audio \/ codec = asked[c].codec
  <2> DEFINE j == IF ~audio /\ capture[c].open THEN "close" ELSE "none"
  <2>1. Asks(c, a, j) /\ j \in Jobs
    BY <1>4 DEF Lists, Jobs
  <2> HIDE DEF a
  <2>2. QED
    BY <1>1, <1>2, <1>4, <2>1
<1>5. CASE audio /\ codec # asked[c].codec
  <2>1. Asks(c, r, RestartJob(c)) /\ RestartJob(c) \in Jobs
    BY <1>5 DEF Lists, Restarts, RestartJob, Jobs
  <2> HIDE DEF r
  <2>2. QED
    BY <1>1, <1>3, <1>5, <2>1 DEF RestartJob
<1>6. QED
  BY <1>4, <1>5

LEMMA FormatAsks ==
  ASSUME SoundTypeOK, NEW c \in Listeners, NEW format \in Formats, AudioFormat(c, format)
  PROVE  \E b \in Asked, j \in Jobs :
           /\ Asks(c, b, j)
           /\ b.listed = asked[c].listed /\ b.codec = asked[c].codec /\ b.format = format
           /\ b.restart = capture[c].open
           /\ j = IF capture[c].open THEN "lease" ELSE "none"
<1> DEFINE r == [[asked[c] EXCEPT !.format = format] EXCEPT !.restart = capture[c].open]
<1>1. asked[c] \in Asked /\ capture[c].open \in BOOLEAN
  BY DEF SoundTypeOK, Captured
<1>2. r \in Asked /\ r.listed = asked[c].listed /\ r.codec = asked[c].codec
      /\ r.format = format /\ r.restart = capture[c].open
  BY <1>1 DEF Asked
<1>3. Asks(c, r, RestartJob(c)) /\ RestartJob(c) \in Jobs
  BY DEF AudioFormat, Restarts, RestartJob, Jobs
<1> HIDE DEF r
<1>4. QED
  BY <1>1, <1>2, <1>3 DEF RestartJob

(* The asks that leave what is captured as it is asked.                    *)
LEMMA PlainAsks ==
  ASSUME SoundTypeOK, NEW c \in Listeners,
         AudioEnable(c) \/ AudioDisable(c) \/ AudioBitrate(c)
  PROVE  \E b \in Asked, j \in Jobs :
           /\ Asks(c, b, j)
           /\ b.listed /\ asked[c].listed
           /\ b.codec = asked[c].codec /\ b.format = asked[c].format
           /\ b.restart = asked[c].restart
           /\ \/ j = "none"
              \/ j = "open" /\ ~capture[c].open
              \/ j = "close" /\ capture[c].open
<1> DEFINE b == [asked[c] EXCEPT !.rated = TRUE]
<1>1. asked[c] \in Asked
  BY DEF SoundTypeOK
<1>2. b \in Asked /\ b.listed = asked[c].listed /\ b.codec = asked[c].codec
      /\ b.format = asked[c].format /\ b.restart = asked[c].restart
  BY <1>1 DEF Asked
<1>3. CASE AudioEnable(c)
  BY <1>1, <1>3 DEF AudioEnable, Jobs
<1>4. CASE AudioDisable(c)
  BY <1>1, <1>4 DEF AudioDisable, Jobs
<1>5. CASE AudioBitrate(c)
  <2>1. Asks(c, b, "none") /\ asked[c].listed
    BY <1>5 DEF AudioBitrate
  <2> HIDE DEF b
  <2>2. QED
    BY <1>2, <2>1 DEF Jobs
<1>6. QED
  BY <1>3, <1>4, <1>5

(* A frame more, and one sent, of those that follow one another.           *)
LEMMA FollowsCoded ==
  ASSUME NEW q \in Seq(Nat), NEW l \in Nat, NEW n \in Nat, Follows(q, l, n)
  PROVE  Follows(Append(q, n + 1), l, n + 1)
BY DEF Follows

LEMMA FollowsSent ==
  ASSUME NEW q \in Seq(Nat), NEW l \in Nat, NEW n \in Nat, Follows(q, l, n), q # <<>>
  PROVE  q[1] = l + 1 /\ Follows(Tail(q), l + 1, n)
<1>1. Len(q) >= 1
  OBVIOUS
<1>2. Tail(q) \in Seq(Nat) /\ Len(Tail(q)) = Len(q) - 1
      /\ \A i \in 1 .. Len(q) - 1 : Tail(q)[i] = q[i + 1]
  BY <1>1
<1>3. QED
  BY <1>1, <1>2 DEF Follows

LEMMA PutTyped ==
  ASSUME NEW q \in Seq(Nat), NEW codec, NEW n \in Nat
  PROVE  Put(q, codec, n) \in Seq(Nat)
<1>1. q # <<>> => Tail(q) \in Seq(Nat)
  OBVIOUS
<1>2. CASE codec = "flac" /\ Len(q) >= QUEUE_DEPTH /\ q # <<>>
  BY <1>1, <1>2 DEF Put
<1>3. CASE q = <<>>
  BY <1>3 DEF Put
<1>4. CASE ~(codec = "flac" /\ Len(q) >= QUEUE_DEPTH)
  BY <1>4 DEF Put
<1>5. QED
  BY <1>2, <1>3, <1>4

(* A buffer of sound changes the queue of one capture.                     *)
LEMMA ProcessIs ==
  ASSUME SoundTypeOK, NEW c \in Listeners, Process(c)
  PROVE  \E q \in Seq(Nat), n \in Nat :
           /\ capture' = [capture EXCEPT ![c] = [@ EXCEPT !.coded = n, !.queue = q]]
           /\ \A l \in Nat : capture[c].codec = "opus"
                               /\ Follows(capture[c].queue, l, capture[c].coded)
                => Follows(q, l, n)
<1> DEFINE k == capture[c]
           one == Put(k.queue, k.codec, k.coded + 1)
           two == Put(one, k.codec, k.coded + 2)
<1>1. k \in Captured /\ k.queue \in Seq(Nat) /\ k.coded \in Nat
  BY DEF SoundTypeOK, Captured
<1>2. one \in Seq(Nat)
  BY <1>1, PutTyped
<1>3. two \in Seq(Nat)
  BY <1>1, <1>2, PutTyped
<1>4. ASSUME NEW l \in Nat, k.codec = "opus", Follows(k.queue, l, k.coded)
      PROVE  Follows(one, l, k.coded + 1) /\ Follows(two, l, k.coded + 2)
  <2>0. k.coded + 1 + 1 = k.coded + 2
    BY <1>1
  <2>1. one = Append(k.queue, k.coded + 1) /\ two = Append(one, k.coded + 1 + 1)
    BY <1>4, <2>0 DEF Put
  <2>2. Follows(one, l, k.coded + 1)
    BY <1>1, <1>4, <2>1, FollowsCoded
  <2>3. Follows(Append(one, k.coded + 1 + 1), l, k.coded + 1 + 1)
    <3> DEFINE m == k.coded + 1
    <3>1. one \in Seq(Nat) /\ m \in Nat /\ Follows(one, l, m)
      BY <1>1, <1>2, <2>2
    <3> HIDE DEF one, m
    <3>2. Follows(Append(one, m + 1), l, m + 1)
      BY <3>1, FollowsCoded
    <3>3. QED
      BY <3>2 DEF m
  <2>4. Follows(two, l, k.coded + 1 + 1)
    <3> HIDE DEF one, two
    <3>1. QED
      BY <2>1, <2>3
  <2> HIDE DEF one, two
  <2>5. QED
    BY <2>0, <2>2, <2>4
<1>5. PICK frames \in 1 .. 2 :
        capture' = [capture EXCEPT ![c].coded = k.coded + frames,
                                   ![c].queue = IF frames = 1 THEN one ELSE two]
  BY DEF Process
<1> DEFINE q == IF frames = 1 THEN one ELSE two
           n == k.coded + frames
<1>6. q \in Seq(Nat) /\ n \in Nat
  BY <1>1, <1>2, <1>3
<1>7. \A l \in Nat : k.codec = "opus" /\ Follows(k.queue, l, k.coded) => Follows(q, l, n)
  <2> HIDE DEF one, two
  <2>1. CASE frames = 1
    BY <1>4, <2>1
  <2>2. CASE frames = 2
    BY <1>4, <2>2
  <2>3. QED
    BY <2>1, <2>2
<1>8. capture' = [capture EXCEPT ![c] = [capture[c] EXCEPT !.coded = n, !.queue = q]]
  <2> HIDE DEF one, two
  <2>1. QED
    BY <1>5 DEF SoundTypeOK, Captured
<1> HIDE DEF q, n
<1>9. QED
  BY <1>6, <1>7, <1>8

(* Each step of a session keeps the types.                                 *)
LEMMA SoundTyped ==
  ASSUME SoundInv, SoundAssumption, SoundNext
  PROVE  SoundTypeOK'
<1> USE DEF SoundTypeOK
<1>0. SoundTypeOK
  BY DEF SoundInv
<1>1. PICK c \in Listeners : Steps(c)
  BY DEF SoundNext, Steps
<1>2. asked[c] \in Asked /\ capture[c] \in Captured /\ told[c] \in Told
      /\ orphans[c] \in Orphan /\ hold[c] \in BOOLEAN
  BY <1>0
<1>3. NoCapture \in Captured /\ Silent \in Told
  BY DEF NoCapture, Silent, Captured, Told, Codecs, Formats
<1>4. ASSUME NEW audio \in BOOLEAN, NEW codec \in Codecs, Lists(c, audio, codec)
      PROVE  SoundTypeOK'
  <2>1. asked' \in [Listeners -> Asked] /\ job' \in [Listeners -> Jobs]
    <3>1. PICK b \in Asked, j \in Jobs : Asks(c, b, j)
      BY <1>0, <1>4, ListsAsks
    <3>2. QED
      BY <1>0, <3>1, AsksTyped
  <2>2. QED
    BY <1>0, <1>4, <2>1 DEF Lists
<1>5. CASE AudioEnable(c) \/ AudioDisable(c) \/ AudioBitrate(c)
  <2>1. asked' \in [Listeners -> Asked] /\ job' \in [Listeners -> Jobs]
    <3>1. PICK b \in Asked, j \in Jobs : Asks(c, b, j)
      BY <1>0, <1>5, PlainAsks
    <3>2. QED
      BY <1>0, <3>1, AsksTyped
  <2>2. QED
    BY <1>0, <1>5, <2>1 DEF AudioEnable, AudioDisable, AudioBitrate
<1>6. ASSUME NEW format \in Formats, AudioFormat(c, format)
      PROVE  SoundTypeOK'
  <2>1. asked' \in [Listeners -> Asked] /\ job' \in [Listeners -> Jobs]
    <3>1. PICK b \in Asked, j \in Jobs : Asks(c, b, j)
      BY <1>0, <1>6, FormatAsks
    <3>2. QED
      BY <1>0, <3>1, AsksTyped
  <2>2. QED
    BY <1>0, <1>6, <2>1 DEF AudioFormat
<1>7. CASE LeaseTaken(c) \/ Closed(c) \/ Opening(c) \/ LeaseDropped(c)
  <2>1. CASE LeaseTaken(c)
    BY <1>0, <2>1 DEF LeaseTaken, Jobs
  <2>2. CASE Closed(c)
    BY <1>0, <1>3, <2>2, AfterTyped DEF Closed, Jobs
  <2>3. CASE Opening(c)
    BY <1>0, <2>3 DEF Opening, After, Jobs
  <2>4. CASE LeaseDropped(c)
    <3>1. [asked[c] EXCEPT !.restart = FALSE] \in Asked
      BY <1>2 DEF Asked
    <3>2. asked' \in [Listeners -> Asked] /\ job' \in [Listeners -> Jobs]
      BY <1>0, <2>4, <3>1, AsksTyped DEF LeaseDropped, Jobs
    <3>3. leases' \in Int /\ hold' \in [Listeners -> BOOLEAN]
      BY <1>0, <2>4 DEF LeaseDropped
    <3>4. QED
      BY <1>0, <2>4, <3>2, <3>3 DEF LeaseDropped
  <2>5. QED
    BY <1>7, <2>1, <2>2, <2>3, <2>4
<1>8. CASE Connected(c)
  <2>1. Opened(c) \in Captured /\ [Silent EXCEPT !.begun = TRUE, !.codec = asked[c].codec] \in Told
    <3>1. Opened(c) \in Captured
      BY <1>2 DEF Opened, Captured, Asked
    <3>2. asked[c].codec \in Codecs
      BY <1>2 DEF Asked
    <3>3. QED
      BY <3>1, <3>2 DEF Silent, Told
  <2>2. QED
    BY <1>0, <2>1, <1>8 DEF Connected, After, Jobs
<1>9. CASE OrphanTakes(c) \/ OrphanEnds(c)
  BY <1>0, <1>2, <1>9 DEF OrphanTakes, OrphanEnds, Orphan
<1>10. CASE Process(c)
  <2>1. PICK q \in Seq(Nat), n \in Nat :
          capture' = [capture EXCEPT ![c] = [@ EXCEPT !.coded = n, !.queue = q]]
    BY <1>0, <1>10, ProcessIs
  <2>2. [capture[c] EXCEPT !.coded = n, !.queue = q] \in Captured
    BY <1>2 DEF Captured
  <2>3. QED
    BY <1>0, <1>10, <2>1, <2>2 DEF Process
<1>11. CASE FlushAudio(c)
  <2>1. /\ capture[c].queue \in Seq(Nat) /\ capture[c].queue # <<>>
        /\ told[c].last \in Nat /\ told[c].step \in BOOLEAN
    BY <1>2, <1>11 DEF Captured, Told, FlushAudio
  <2>2. capture[c].queue[1] \in Nat /\ Tail(capture[c].queue) \in Seq(Nat)
    BY <2>1
  <2>3. [capture[c] EXCEPT !.queue = Tail(@)] \in Captured
    BY <1>2, <2>2 DEF Captured
  <2>4. capture' \in [Listeners -> Captured]
    BY <1>0, <1>11, <2>3 DEF FlushAudio
  <2>5. told' \in [Listeners -> Told]
    BY <1>0, <1>2, <1>11, <2>1, <2>2 DEF FlushAudio, Told
  <2>6. QED
    BY <1>0, <1>11, <2>4, <2>5 DEF FlushAudio
<1>12. CASE Ends(c)
  BY <1>0, <1>2, <1>3, <1>12 DEF Ends, Orphan, Jobs
<1>13. QED
  BY <1>1, <1>4, <1>5, <1>6, <1>7, <1>8, <1>9, <1>10, <1>11, <1>12 DEF Steps, SoundJobs

-----------------------------------------------------------------------------
(* A step leaves every other session as it was.                            *)
LEMMA OthersStay ==
  ASSUME SoundTypeOK, NEW c \in Listeners, Steps(c), NEW e \in Listeners \ {c}
  PROVE  /\ asked'[e] = asked[e] /\ capture'[e] = capture[e] /\ job'[e] = job[e]
         /\ orphans'[e] = orphans[e] /\ hold'[e] = hold[e] /\ told'[e] = told[e]
<1> USE DEF SoundTypeOK
<1>1. ASSUME NEW audio \in BOOLEAN, NEW codec \in Codecs, Lists(c, audio, codec)
      PROVE  asked'[e] = asked[e] /\ job'[e] = job[e]
  BY <1>1 DEF Lists, Asks, Restarts
<1>2. ASSUME NEW format \in Formats, AudioFormat(c, format)
      PROVE  asked'[e] = asked[e] /\ job'[e] = job[e]
  BY <1>2 DEF AudioFormat, Asks, Restarts
<1>3. (\E audio \in BOOLEAN, codec \in Codecs : Lists(c, audio, codec))
        \/ (\E format \in Formats : AudioFormat(c, format))
        => /\ asked'[e] = asked[e] /\ job'[e] = job[e]
           /\ UNCHANGED <<capture, orphans, hold, told>>
  BY <1>1, <1>2 DEF Lists, AudioFormat
<1>4. CASE AudioEnable(c) \/ AudioDisable(c) \/ AudioBitrate(c)
  BY <1>4 DEF AudioEnable, AudioDisable, AudioBitrate, Asks
<1>5. CASE LeaseTaken(c) \/ Closed(c) \/ Opening(c) \/ Connected(c)
  BY <1>5 DEF LeaseTaken, Closed, Opening, Connected, After
<1>6. CASE LeaseDropped(c) \/ OrphanTakes(c) \/ OrphanEnds(c)
  BY <1>6 DEF LeaseDropped, Asks, OrphanTakes, OrphanEnds
<1>7. CASE Process(c)
  <2>1. PICK q \in Seq(Nat), n \in Nat :
          capture' = [capture EXCEPT ![c] = [@ EXCEPT !.coded = n, !.queue = q]]
    BY <1>7, ProcessIs
  <2>2. QED
    BY <1>7, <2>1 DEF Process
<1>8. CASE FlushAudio(c) \/ Ends(c)
  BY <1>8 DEF FlushAudio, Ends
<1>9. QED
  BY <1>3, <1>4, <1>5, <1>6, <1>7, <1>8 DEF Steps, SoundJobs

(* Where the session of a step stands after it.                            *)
LEMMA StandsStill ==
  ASSUME SoundInv, NEW c \in Listeners, Steps(c)
  PROVE  Stands(asked'[c], capture'[c], job'[c], orphans'[c], hold'[c])
<1> DEFINE Still == Stands(asked'[c], capture'[c], job'[c], orphans'[c], hold'[c])
<1>0. SoundTypeOK /\ Stands(asked[c], capture[c], job[c], orphans[c], hold[c])
  BY DEF SoundInv
<1>1. /\ capture[c].open \in BOOLEAN /\ hold[c] \in BOOLEAN
      /\ asked[c].restart \in BOOLEAN /\ asked[c].listed \in BOOLEAN
  BY <1>0 DEF SoundTypeOK, Captured, Asked
<1> USE DEF SoundTypeOK
<1>2. ASSUME NEW audio \in BOOLEAN, NEW codec \in Codecs, Lists(c, audio, codec)
      PROVE  Still
  <2>1. PICK b \in Asked, j \in Jobs :
           /\ Asks(c, b, j)
           /\ b.listed = audio
           /\ b.restart = (IF audio /\ codec # asked[c].codec THEN capture[c].open
                           ELSE asked[c].restart)
           /\ j = IF ~capture[c].open THEN "none"
                  ELSE IF ~audio THEN "close"
                  ELSE IF codec # asked[c].codec THEN "lease" ELSE "none"
    BY <1>0, <1>2, ListsAsks
  <2>2. asked'[c] = b /\ job'[c] = j
    BY <1>0, <2>1, AsksTyped
  <2>3. job[c] = "none" /\ UNCHANGED <<capture, orphans, hold>>
    BY <1>2 DEF Lists, Free
  <2>4. QED
    BY <1>0, <1>1, <2>1, <2>2, <2>3 DEF Stands
<1>3. ASSUME NEW format \in Formats, AudioFormat(c, format)
      PROVE  Still
  <2>1. PICK b \in Asked, j \in Jobs :
           /\ Asks(c, b, j)
           /\ b.listed = asked[c].listed
           /\ b.restart = capture[c].open
           /\ j = IF capture[c].open THEN "lease" ELSE "none"
    BY <1>0, <1>3, FormatAsks
  <2>2. asked'[c] = b /\ job'[c] = j
    BY <1>0, <2>1, AsksTyped
  <2>3. job[c] = "none" /\ asked[c].listed /\ UNCHANGED <<capture, orphans, hold>>
    BY <1>3 DEF AudioFormat, Free
  <2>4. QED
    BY <1>0, <1>1, <2>1, <2>2, <2>3 DEF Stands
<1>4. CASE AudioEnable(c) \/ AudioDisable(c) \/ AudioBitrate(c)
  <2>1. PICK b \in Asked, j \in Jobs :
           /\ Asks(c, b, j)
           /\ b.listed
           /\ b.restart = asked[c].restart
           /\ \/ j = "none"
              \/ j = "open" /\ ~capture[c].open
              \/ j = "close" /\ capture[c].open
    BY <1>0, <1>4, PlainAsks
  <2>2. asked'[c] = b /\ job'[c] = j
    BY <1>0, <2>1, AsksTyped
  <2>3. job[c] = "none" /\ UNCHANGED <<capture, orphans, hold>>
    BY <1>4 DEF AudioEnable, AudioDisable, AudioBitrate, Free
  <2>4. QED
    BY <1>0, <1>1, <2>1, <2>2, <2>3 DEF Stands
<1>5. CASE LeaseTaken(c)
  BY <1>0, <1>1, <1>5 DEF LeaseTaken, Stands
<1>6. CASE Closed(c)
  <2>1. capture'[c] = NoCapture /\ UNCHANGED <<asked, orphans, hold>> /\ job[c] = "close"
    BY <1>0, <1>6 DEF Closed
  <2>2. job'[c] = IF asked[c].restart THEN "open" ELSE "none"
    BY <1>0, <1>6, AfterTyped DEF Closed, Jobs
  <2>3. QED
    BY <1>0, <1>1, <2>1, <2>2 DEF Stands, NoCapture
<1>7. CASE Opening(c)
  <2>1. UNCHANGED <<asked, capture, orphans, hold>> /\ job[c] = "open"
    BY <1>0, <1>7 DEF Opening
  <2>2. \/ job'[c] = "connect"
        \/ job'[c] = IF asked[c].restart THEN "drop" ELSE "none"
    BY <1>0, <1>7 DEF Opening, After
  <2>3. QED
    BY <1>0, <1>1, <2>1, <2>2 DEF Stands
<1>8. CASE Connected(c)
  <2>1. UNCHANGED <<asked, orphans, hold>> /\ job[c] = "connect"
    BY <1>0, <1>8 DEF Connected
  <2>2. job'[c] = IF asked[c].restart THEN "drop" ELSE "none"
    BY <1>0, <1>8 DEF Connected, After
  <2>3. QED
    BY <1>0, <1>1, <2>1, <2>2 DEF Stands
<1>9. CASE LeaseDropped(c)
  <2>1. [asked[c] EXCEPT !.restart = FALSE] \in Asked
        /\ ~[asked[c] EXCEPT !.restart = FALSE].restart
    BY <1>0 DEF Asked
  <2>2. UNCHANGED <<capture, orphans>> /\ ~hold'[c] /\ job[c] = "drop"
    BY <1>0, <1>9 DEF LeaseDropped
  <2>3. job'[c] = "none" /\ ~asked'[c].restart
    BY <1>0, <1>9, <2>1, AsksTyped DEF LeaseDropped, Jobs
  <2>4. QED
    BY <1>0, <1>1, <2>2, <2>3 DEF Stands
<1>10. CASE OrphanTakes(c) \/ OrphanEnds(c)
  <2>1. UNCHANGED <<asked, capture, job, hold>>
    BY <1>10 DEF OrphanTakes, OrphanEnds
  <2>2. job[c] = "gone"
    BY <1>0, <1>10 DEF OrphanTakes, OrphanEnds, Stands
  <2>3. QED
    BY <1>0, <1>1, <2>1, <2>2 DEF Stands
<1>11. CASE Process(c)
  <2>1. PICK q \in Seq(Nat), n \in Nat :
          capture' = [capture EXCEPT ![c] = [@ EXCEPT !.coded = n, !.queue = q]]
    BY <1>0, <1>11, ProcessIs
  <2>2. capture'[c].open = capture[c].open
    BY <1>0, <2>1 DEF Captured
  <2>3. UNCHANGED <<asked, job, orphans, hold>>
    BY <1>11 DEF Process
  <2>4. QED
    BY <1>0, <2>2, <2>3 DEF Stands
<1>12. CASE FlushAudio(c)
  <2>1. capture'[c].open = capture[c].open
    BY <1>0, <1>12 DEF FlushAudio, Captured
  <2>2. UNCHANGED <<asked, job, orphans, hold>>
    BY <1>12 DEF FlushAudio
  <2>3. QED
    BY <1>0, <2>1, <2>2 DEF Stands
<1>13. CASE Ends(c)
  <2>1. capture'[c] = NoCapture /\ job'[c] = "gone" /\ ~hold'[c] /\ UNCHANGED asked
    BY <1>0, <1>13 DEF Ends
  <2>2. QED
    BY <1>0, <1>1, <2>1 DEF Stands, NoCapture
<1>14. QED
  BY <1>2, <1>3, <1>4, <1>5, <1>6, <1>7, <1>8, <1>9, <1>10, <1>11, <1>12, <1>13
     DEF Steps, SoundJobs

(* What the session of a step captures, and what it has sent, after it.    *)
LEMMA StreamsStill ==
  ASSUME SoundInv, NEW c \in Listeners, Steps(c)
  PROVE  Streams(asked'[c], capture'[c], job'[c], told'[c])
<1> DEFINE Still == Streams(asked'[c], capture'[c], job'[c], told'[c])
<1>0. /\ SoundTypeOK /\ Stands(asked[c], capture[c], job[c], orphans[c], hold[c])
      /\ Streams(asked[c], capture[c], job[c], told[c])
  BY DEF SoundInv
<1>1. capture[c].open \in BOOLEAN /\ asked[c].listed \in BOOLEAN
  BY <1>0 DEF SoundTypeOK, Captured, Asked
<1> USE DEF SoundTypeOK
<1>2. ASSUME NEW audio \in BOOLEAN, NEW codec \in Codecs, Lists(c, audio, codec)
      PROVE  Still
  <2>1. PICK b \in Asked, j \in Jobs :
           /\ Asks(c, b, j)
           /\ b.listed = audio /\ b.codec = codec /\ b.format = asked[c].format
           /\ j = IF ~capture[c].open THEN "none"
                  ELSE IF ~audio THEN "close"
                  ELSE IF codec # asked[c].codec THEN "lease" ELSE "none"
    BY <1>0, <1>2, ListsAsks
  <2>2. asked'[c] = b /\ job'[c] = j
    BY <1>0, <2>1, AsksTyped
  <2>3. job[c] = "none" /\ UNCHANGED <<capture, told>>
    BY <1>2 DEF Lists, Free
  <2>4. QED
    BY <1>0, <1>1, <2>1, <2>2, <2>3 DEF Streams
<1>3. ASSUME NEW format \in Formats, AudioFormat(c, format)
      PROVE  Still
  <2>1. PICK b \in Asked, j \in Jobs :
           Asks(c, b, j) /\ j = IF capture[c].open THEN "lease" ELSE "none"
    BY <1>0, <1>3, FormatAsks
  <2>2. asked'[c] = b /\ job'[c] = j
    BY <1>0, <2>1, AsksTyped
  <2>3. job[c] = "none" /\ UNCHANGED <<capture, told>>
    BY <1>3 DEF AudioFormat, Free
  <2>4. QED
    BY <1>0, <1>1, <2>1, <2>2, <2>3 DEF Streams
<1>4. CASE AudioEnable(c) \/ AudioDisable(c) \/ AudioBitrate(c)
  <2>1. PICK b \in Asked, j \in Jobs :
           /\ Asks(c, b, j)
           /\ b.listed
           /\ b.codec = asked[c].codec /\ b.format = asked[c].format
           /\ \/ j = "none"
              \/ j = "open" /\ ~capture[c].open
              \/ j = "close" /\ capture[c].open
    BY <1>0, <1>4, PlainAsks
  <2>2. asked'[c] = b /\ job'[c] = j
    BY <1>0, <2>1, AsksTyped
  <2>3. job[c] = "none" /\ UNCHANGED <<capture, told>>
    BY <1>4 DEF AudioEnable, AudioDisable, AudioBitrate, Free
  <2>4. QED
    BY <1>0, <1>1, <2>1, <2>2, <2>3 DEF Streams
<1>5. CASE LeaseTaken(c)
  BY <1>0, <1>1, <1>5 DEF LeaseTaken, Streams
<1>6. CASE Closed(c) \/ Ends(c)
  <2>1. capture'[c] = NoCapture /\ told'[c] = Silent
    BY <1>0, <1>6 DEF Closed, Ends
  <2>2. QED
    BY <2>1 DEF Streams, NoCapture, Silent
<1>7. CASE Opening(c)
  <2>1. UNCHANGED <<asked, capture, told>> /\ ~capture[c].open
    BY <1>0, <1>7 DEF Opening, Stands
  <2>2. QED
    BY <1>0, <2>1 DEF Streams
<1>8. CASE Connected(c)
  <2>1. UNCHANGED asked /\ ~capture[c].open /\ asked[c].listed
    BY <1>0, <1>8 DEF Connected, Stands
  <2>2. CASE UNCHANGED <<capture, told>>
    BY <1>0, <2>1, <2>2 DEF Streams
  <2>3. CASE /\ capture' = [capture EXCEPT ![c] = Opened(c)]
             /\ told' = [told EXCEPT ![c] =
                           [Silent EXCEPT !.begun = TRUE, !.codec = asked[c].codec]]
    <3>1. capture'[c] = Opened(c)
      BY <1>0, <2>3
    <3>2. /\ told'[c].begun /\ told'[c].step
          /\ told'[c].codec = asked[c].codec /\ told'[c].last = 0
      BY <1>0, <2>3 DEF Silent
    <3>3. Follows(Opened(c).queue, 0, Opened(c).coded)
      BY DEF Opened, Follows
    <3>4. /\ Opened(c).codec = asked[c].codec
          /\ Opened(c).format = asked[c].format
      BY DEF Opened
    <3>5. QED
      BY <2>1, <3>1, <3>2, <3>3, <3>4 DEF Streams
  <2>4. QED
    BY <1>8, <2>2, <2>3 DEF Connected
<1>9. CASE LeaseDropped(c)
  <2> DEFINE b == [asked[c] EXCEPT !.restart = FALSE]
  <2>1. b \in Asked /\ b.listed = asked[c].listed /\ b.codec = asked[c].codec
        /\ b.format = asked[c].format
    BY <1>0 DEF Asked
  <2>2. Asks(c, b, "none") /\ UNCHANGED <<capture, told>> /\ job[c] = "drop"
    BY <1>0, <1>9 DEF LeaseDropped
  <2> HIDE DEF b
  <2>3. job'[c] = "none" /\ asked'[c] = b
    BY <1>0, <2>1, <2>2, AsksTyped DEF Jobs
  <2>4. QED
    BY <1>0, <1>1, <2>1, <2>2, <2>3 DEF Streams
<1>10. CASE OrphanTakes(c) \/ OrphanEnds(c)
  <2>1. UNCHANGED <<asked, capture, job, told>>
    BY <1>10 DEF OrphanTakes, OrphanEnds
  <2>2. QED
    BY <1>0, <2>1
<1>11. CASE Process(c)
  <2>1. PICK q \in Seq(Nat), n \in Nat :
          /\ capture' = [capture EXCEPT ![c] = [@ EXCEPT !.coded = n, !.queue = q]]
          /\ \A l \in Nat : capture[c].codec = "opus"
                              /\ Follows(capture[c].queue, l, capture[c].coded)
               => Follows(q, l, n)
    BY <1>0, <1>11, ProcessIs
  <2>2. /\ capture'[c].open = capture[c].open /\ capture'[c].codec = capture[c].codec
        /\ capture'[c].format = capture[c].format
        /\ capture'[c].queue = q /\ capture'[c].coded = n
    BY <1>0, <2>1 DEF Captured
  <2>3. UNCHANGED <<asked, job, told>> /\ told[c].last \in Nat
    BY <1>0, <1>11 DEF Process, Told
  <2>4. QED
    BY <1>0, <2>1, <2>2, <2>3 DEF Streams
<1>12. CASE FlushAudio(c)
  <2> DEFINE q == capture[c].queue
  <2>1. /\ q \in Seq(Nat) /\ capture[c].coded \in Nat
        /\ told[c].last \in Nat /\ told[c].step
    BY <1>0 DEF Captured, Told, Streams
  <2>2. /\ q # <<>> /\ capture[c].open /\ UNCHANGED <<asked, job>>
        /\ capture' = [capture EXCEPT ![c].queue = Tail(@)]
        /\ told' = [told EXCEPT ![c].last = q[1],
                     ![c].step = @ /\ (told[c].codec = "opus" => q[1] = told[c].last + 1)]
    BY <1>12 DEF FlushAudio
  <2>3. /\ capture'[c].open = capture[c].open /\ capture'[c].codec = capture[c].codec
        /\ capture'[c].format = capture[c].format
        /\ capture'[c].queue = Tail(q) /\ capture'[c].coded = capture[c].coded
    BY <1>0, <2>2 DEF Captured
  <2>4. /\ told'[c].begun = told[c].begun /\ told'[c].codec = told[c].codec
        /\ told'[c].last = q[1]
        /\ told'[c].step = (told[c].codec = "opus" => q[1] = told[c].last + 1)
    BY <1>0, <2>1, <2>2 DEF Told
  <2>5. capture[c].codec = "opus" =>
          /\ q[1] = told[c].last + 1
          /\ Follows(Tail(q), told[c].last + 1, capture[c].coded)
    BY <1>0, <2>1, <2>2, FollowsSent DEF Streams
  <2> HIDE DEF q
  <2>6. QED
    BY <1>0, <2>1, <2>2, <2>3, <2>4, <2>5 DEF Streams
<1>13. QED
  BY <1>2, <1>3, <1>4, <1>5, <1>6, <1>7, <1>8, <1>9, <1>10, <1>11, <1>12
     DEF Steps, SoundJobs

-----------------------------------------------------------------------------
(* What holds the speaker moves with the session of the step alone.        *)
LEMMA HoldersMove ==
  ASSUME SoundInv, NEW c \in Listeners, Steps(c)
  PROVE  /\ IsFiniteSet(Capturing') /\ IsFiniteSet(Restarting') /\ IsFiniteSet(Connecting')
         /\ Cardinality(Capturing) \in Nat /\ Cardinality(Capturing') \in Nat
         /\ Cardinality(Restarting) \in Nat /\ Cardinality(Restarting') \in Nat
         /\ Cardinality(Connecting) \in Nat /\ Cardinality(Connecting') \in Nat
         /\ Cardinality(Capturing') =
              Cardinality(Capturing) + Num(capture'[c].open) - Num(capture[c].open)
         /\ Cardinality(Restarting') =
              Cardinality(Restarting) + Num(hold'[c]) - Num(hold[c])
         /\ Cardinality(Connecting') =
              Cardinality(Connecting) + Num(job'[c] = "connect") - Num(job[c] = "connect")
<1>0. /\ SoundTypeOK
      /\ IsFiniteSet(Capturing) /\ IsFiniteSet(Restarting) /\ IsFiniteSet(Connecting)
  BY DEF SoundInv
<1>1. \A e : e # c => /\ e \in Capturing <=> e \in Capturing'
                      /\ e \in Restarting <=> e \in Restarting'
                      /\ e \in Connecting <=> e \in Connecting'
  BY <1>0, OthersStay DEF Capturing, Restarting, Connecting
<1>2. /\ c \in Capturing <=> capture[c].open
      /\ c \in Capturing' <=> capture'[c].open
      /\ c \in Restarting <=> hold[c]
      /\ c \in Restarting' <=> hold'[c]
      /\ c \in Connecting <=> job[c] = "connect"
      /\ c \in Connecting' <=> job'[c] = "connect"
  BY DEF Capturing, Restarting, Connecting
<1>3. /\ IsFiniteSet(Capturing')
      /\ Cardinality(Capturing) \in Nat /\ Cardinality(Capturing') \in Nat
      /\ Cardinality(Capturing') =
           Cardinality(Capturing) + Num(c \in Capturing') - Num(c \in Capturing)
  BY <1>0, <1>1, OneMoves
<1>4. /\ IsFiniteSet(Restarting')
      /\ Cardinality(Restarting) \in Nat /\ Cardinality(Restarting') \in Nat
      /\ Cardinality(Restarting') =
           Cardinality(Restarting) + Num(c \in Restarting') - Num(c \in Restarting)
  BY <1>0, <1>1, OneMoves
<1>5. /\ IsFiniteSet(Connecting')
      /\ Cardinality(Connecting) \in Nat /\ Cardinality(Connecting') \in Nat
      /\ Cardinality(Connecting') =
           Cardinality(Connecting) + Num(c \in Connecting') - Num(c \in Connecting)
  BY <1>0, <1>1, OneMoves
<1>6. QED
  BY <1>2, <1>3, <1>4, <1>5 DEF Num

LEMMA OrphanHoldsAre ==
  ASSUME SoundTypeOK, NEW y
  PROVE  y \in OrphanHolds <=>
           \E e \in Listeners : \E i \in 1 .. orphans[e].holding : y = <<e, i>>
BY DEF OrphanHolds

LEMMA OrphanHoldsArePrimed ==
  ASSUME SoundTypeOK', NEW y
  PROVE  y \in OrphanHolds' <=>
           \E e \in Listeners : \E i \in 1 .. orphans'[e].holding : y = <<e, i>>
BY DEF OrphanHolds

(* A job left holding the speaker is one more, and one that ends one less. *)
LEMMA OrphansMove ==
  ASSUME SoundInv, SoundTypeOK', NEW c \in Listeners, Steps(c),
         orphans'[c].holding - orphans[c].holding \in {-1, 0, 1}
  PROVE  /\ IsFiniteSet(OrphanHolds')
         /\ Cardinality(OrphanHolds) \in Nat /\ Cardinality(OrphanHolds') \in Nat
         /\ Cardinality(OrphanHolds') =
              Cardinality(OrphanHolds) + orphans'[c].holding - orphans[c].holding
<1> DEFINE h == orphans[c].holding
           g == orphans'[c].holding
<1>0. SoundTypeOK /\ IsFiniteSet(OrphanHolds) /\ h \in Nat /\ g \in Nat
  BY DEF SoundInv, SoundTypeOK, Orphan
<1>1. \A e \in Listeners \ {c} : orphans'[e] = orphans[e]
  BY <1>0, OthersStay
<1>2. PICK x : x = IF g > h THEN <<c, g>> ELSE <<c, h>>
  OBVIOUS
<1>3. \A i \in Nat : /\ <<c, i>> \in OrphanHolds <=> i \in 1 .. h
                     /\ <<c, i>> \in OrphanHolds' <=> i \in 1 .. g
  BY <1>0, OrphanHoldsAre, OrphanHoldsArePrimed
<1>4. \A y : y # x => (y \in OrphanHolds <=> y \in OrphanHolds')
  <2>1. TAKE y
  <2>2. HAVE y # x
  <2>3. ASSUME NEW e \in Listeners, NEW i \in Nat, y = <<e, i>>
        PROVE  i \in 1 .. orphans[e].holding <=> i \in 1 .. orphans'[e].holding
    <3>1. CASE e # c
      BY <1>1, <3>1
    <3>2. CASE e = c
      <4>1. i # IF g > h THEN g ELSE h
        BY <1>2, <2>2, <2>3, <3>2
      <4>2. QED
        BY <1>0, <2>3, <3>2, <4>1
    <3>3. QED
      BY <3>1, <3>2
  <2>4. \A e \in Listeners : \A i \in 1 .. orphans[e].holding : i \in Nat
    OBVIOUS
  <2>5. \A e \in Listeners : \A i \in 1 .. orphans'[e].holding : i \in Nat
    OBVIOUS
  <2>6. QED
    BY <1>0, <2>3, <2>4, <2>5, OrphanHoldsAre, OrphanHoldsArePrimed
<1>5. /\ IsFiniteSet(OrphanHolds')
      /\ Cardinality(OrphanHolds) \in Nat /\ Cardinality(OrphanHolds') \in Nat
      /\ Cardinality(OrphanHolds') =
           Cardinality(OrphanHolds) + Num(x \in OrphanHolds') - Num(x \in OrphanHolds)
  BY <1>0, <1>4, OneMoves
<1>6. Num(x \in OrphanHolds') - Num(x \in OrphanHolds) = g - h
  BY <1>0, <1>2, <1>3 DEF Num
<1>7. QED
  BY <1>0, <1>5, <1>6 DEF Num

(* The speaker's count moves as those that hold it do.                     *)
LEMMA LeasesMove ==
  ASSUME SoundInv, SoundTypeOK', NEW c \in Listeners, Steps(c)
  PROVE  /\ orphans'[c].holding - orphans[c].holding \in {-1, 0, 1}
         /\ leases' - leases =
              Num(capture'[c].open) - Num(capture[c].open)
                + Num(hold'[c]) - Num(hold[c])
                + Num(job'[c] = "connect") - Num(job[c] = "connect")
                + orphans'[c].holding - orphans[c].holding
<1> DEFINE Moved == /\ orphans'[c].holding - orphans[c].holding \in {-1, 0, 1}
                    /\ leases' - leases =
                         Num(capture'[c].open) - Num(capture[c].open)
                           + Num(hold'[c]) - Num(hold[c])
                           + Num(job'[c] = "connect") - Num(job[c] = "connect")
                           + orphans'[c].holding - orphans[c].holding
<1>0. SoundTypeOK /\ Stands(asked[c], capture[c], job[c], orphans[c], hold[c])
  BY DEF SoundInv
<1>1. /\ capture[c].open \in BOOLEAN /\ hold[c] \in BOOLEAN /\ leases \in Int
      /\ orphans[c].holding \in Nat /\ orphans'[c].holding \in Nat
  BY <1>0 DEF SoundTypeOK, Captured, Orphan
<1> USE DEF SoundTypeOK
<1>2. ASSUME job[c] = "none", job'[c] # "connect",
             UNCHANGED <<leases, capture, orphans, hold>>
      PROVE  Moved
  BY <1>1, <1>2 DEF Num
<1>3. ASSUME NEW audio \in BOOLEAN, NEW codec \in Codecs, Lists(c, audio, codec)
      PROVE  Moved
  <2>1. job'[c] # "connect"
    <3>1. PICK b \in Asked, j \in Jobs : Asks(c, b, j) /\ j # "connect"
      BY <1>0, <1>3, ListsAsks
    <3>2. QED
      BY <1>0, <3>1, AsksTyped
  <2>2. QED
    BY <1>2, <1>3, <2>1 DEF Lists, Free
<1>4. ASSUME NEW format \in Formats, AudioFormat(c, format)
      PROVE  Moved
  <2>1. job'[c] # "connect"
    <3>1. PICK b \in Asked, j \in Jobs : Asks(c, b, j) /\ j # "connect"
      BY <1>0, <1>4, FormatAsks
    <3>2. QED
      BY <1>0, <3>1, AsksTyped
  <2>2. QED
    BY <1>2, <1>4, <2>1 DEF AudioFormat, Free
<1>5. CASE AudioEnable(c) \/ AudioDisable(c) \/ AudioBitrate(c)
  <2>1. job'[c] # "connect"
    <3>1. PICK b \in Asked, j \in Jobs : Asks(c, b, j) /\ j # "connect"
      BY <1>0, <1>5, PlainAsks
    <3>2. QED
      BY <1>0, <3>1, AsksTyped
  <2>2. QED
    BY <1>2, <1>5, <2>1 DEF AudioEnable, AudioDisable, AudioBitrate, Free
<1>6. CASE LeaseTaken(c)
  BY <1>0, <1>1, <1>6 DEF LeaseTaken, Stands, Num
<1>7. CASE Closed(c)
  <2>1. /\ ~capture'[c].open /\ capture[c].open
        /\ job[c] = "close" /\ UNCHANGED <<orphans, hold>> /\ leases' = leases - 1
    BY <1>0, <1>7 DEF Closed, Stands, NoCapture
  <2>2. job'[c] # "connect"
    BY <1>0, <1>7, AfterTyped DEF Closed, Jobs
  <2>3. QED
    BY <1>1, <2>1, <2>2 DEF Num
<1>8. CASE Opening(c)
  <2>1. UNCHANGED <<capture, orphans, hold>> /\ job[c] = "open"
    BY <1>8 DEF Opening
  <2>2. \/ leases' = leases + 1 /\ job'[c] = "connect"
        \/ leases' = leases /\ job'[c] # "connect"
    BY <1>0, <1>8 DEF Opening, After
  <2>3. QED
    BY <1>1, <2>1, <2>2 DEF Num
<1>9. CASE Connected(c)
  <2>1. UNCHANGED <<orphans, hold>> /\ job[c] = "connect" /\ ~capture[c].open
    BY <1>0, <1>9 DEF Connected, Stands
  <2>2. job'[c] # "connect"
    BY <1>0, <1>9 DEF Connected, After
  <2>3. Opened(c).open
    BY DEF Opened
  <2>4. \/ leases' = leases /\ capture'[c].open
        \/ leases' = leases - 1 /\ capture'[c] = capture[c]
    BY <1>0, <1>9, <2>3 DEF Connected
  <2>5. QED
    BY <1>1, <2>1, <2>2, <2>4 DEF Num
<1>10. CASE LeaseDropped(c)
  <2>1. /\ UNCHANGED <<capture, orphans>> /\ job[c] = "drop" /\ ~hold'[c]
        /\ leases' = IF hold[c] THEN leases - 1 ELSE leases
    BY <1>0, <1>10 DEF LeaseDropped
  <2>2. job'[c] = "none"
    BY <1>0, <1>10 DEF LeaseDropped, Asks
  <2>3. QED
    BY <1>1, <2>1, <2>2 DEF Num
<1>11. CASE OrphanTakes(c)
  <2>1. UNCHANGED <<capture, job, hold>>
    BY <1>11 DEF OrphanTakes
  <2>2. \/ leases' = leases + 1 /\ orphans'[c].holding = orphans[c].holding + 1
        \/ leases' = leases /\ orphans'[c].holding = orphans[c].holding
    BY <1>0, <1>11 DEF OrphanTakes, Orphan
  <2>3. QED
    BY <1>1, <2>1, <2>2 DEF Num
<1>12. CASE OrphanEnds(c)
  <2>1. UNCHANGED <<capture, job, hold>>
    BY <1>12 DEF OrphanEnds
  <2>2. leases' = leases - 1 /\ orphans'[c].holding = orphans[c].holding - 1
    BY <1>0, <1>12 DEF OrphanEnds, Orphan
  <2>3. QED
    BY <1>1, <2>1, <2>2 DEF Num
<1>13. CASE Process(c)
  <2>1. PICK q \in Seq(Nat), n \in Nat :
          capture' = [capture EXCEPT ![c] = [@ EXCEPT !.coded = n, !.queue = q]]
    BY <1>0, <1>13, ProcessIs
  <2>2. capture'[c].open = capture[c].open
    BY <1>0, <2>1 DEF Captured
  <2>3. UNCHANGED <<leases, job, orphans, hold>>
    BY <1>13 DEF Process
  <2>4. QED
    BY <1>1, <2>2, <2>3 DEF Num
<1>14. CASE FlushAudio(c)
  <2>1. capture'[c].open = capture[c].open
    BY <1>0, <1>14 DEF FlushAudio, Captured
  <2>2. UNCHANGED <<leases, job, orphans, hold>>
    BY <1>14 DEF FlushAudio
  <2>3. QED
    BY <1>1, <2>1, <2>2 DEF Num
<1>15. CASE Ends(c)
  <2>1. /\ ~capture'[c].open /\ job'[c] = "gone" /\ job[c] # "gone" /\ ~hold'[c]
        /\ leases' = IF hold[c] THEN leases - 1 ELSE leases
    BY <1>0, <1>15 DEF Ends, NoCapture
  <2>2. orphans'[c].holding = Num(capture[c].open) + Num(job[c] = "connect")
    BY <1>0, <1>15 DEF Ends, Num
  <2>3. orphans[c].holding = 0 /\ ~(capture[c].open /\ job[c] = "connect")
    BY <1>0, <2>1 DEF Stands
  <2>4. QED
    BY <1>1, <2>1, <2>2, <2>3 DEF Num
<1>16. QED
  BY <1>3, <1>4, <1>5, <1>6, <1>7, <1>8, <1>9, <1>10, <1>11, <1>12, <1>13, <1>14, <1>15
     DEF Steps, SoundJobs

(* The speaker's count is of those that hold it, each session stands where *)
(* its job says, and what it captures is as asked: of Sound, for any       *)
(* listeners and however deep the queue.                                   *)
THEOREM SoundSafe == SoundSpec => []SoundInv
<1>1. SoundInit => SoundInv
  BY SoundInitially
<1>2. SoundInv /\ [SoundNext]_soundVars => SoundInv'
  <2> SUFFICES ASSUME SoundInv, [SoundNext]_soundVars PROVE SoundInv'
    OBVIOUS
  <2>1. CASE UNCHANGED soundVars
    BY <2>1 DEF soundVars, SoundInv, SoundTypeOK, Capturing, Restarting, Connecting,
                OrphanHolds, LeasesAreHeld
  <2>2. CASE SoundNext
    <3>1. PICK c \in Listeners : Steps(c)
      BY <2>2 DEF SoundNext, Steps
    <3>2. SoundTypeOK /\ SoundTypeOK'
      BY <2>2, SoundTyped, SoundAssumption DEF SoundInv
    <3>3. \A e \in Listeners :
             /\ Stands(asked'[e], capture'[e], job'[e], orphans'[e], hold'[e])
             /\ Streams(asked'[e], capture'[e], job'[e], told'[e])
      <4>1. TAKE e \in Listeners
      <4>2. CASE e = c
        BY <3>1, <4>2, StandsStill, StreamsStill
      <4>3. CASE e # c
        <5>1. e \in Listeners \ {c}
          BY <4>3
        <5>2. /\ asked'[e] = asked[e] /\ capture'[e] = capture[e] /\ job'[e] = job[e]
              /\ orphans'[e] = orphans[e] /\ hold'[e] = hold[e] /\ told'[e] = told[e]
          BY <3>1, <3>2, <5>1, OthersStay
        <5>3. /\ Stands(asked[e], capture[e], job[e], orphans[e], hold[e])
              /\ Streams(asked[e], capture[e], job[e], told[e])
          BY DEF SoundInv
        <5>4. QED
          BY <5>2, <5>3
      <4>4. QED
        BY <4>2, <4>3
    <3>4. LeasesAreHeld'
      <4>1. orphans[c].holding \in Nat /\ orphans'[c].holding \in Nat
            /\ leases \in Int /\ leases' \in Int
        BY <3>2 DEF SoundTypeOK, Orphan
      <4>2. \A b : Num(b) \in Int
        BY DEF Num
      <4>3. /\ orphans'[c].holding - orphans[c].holding \in {-1, 0, 1}
            /\ leases' - leases =
                 Num(capture'[c].open) - Num(capture[c].open)
                   + Num(hold'[c]) - Num(hold[c])
                   + Num(job'[c] = "connect") - Num(job[c] = "connect")
                   + orphans'[c].holding - orphans[c].holding
        BY <3>1, <3>2, LeasesMove
      <4>4. /\ Cardinality(OrphanHolds) \in Nat /\ Cardinality(OrphanHolds') \in Nat
            /\ Cardinality(OrphanHolds') =
                 Cardinality(OrphanHolds) + orphans'[c].holding - orphans[c].holding
        BY <3>1, <3>2, <4>3, OrphansMove
      <4>5. /\ Cardinality(Capturing) \in Nat /\ Cardinality(Capturing') \in Nat
            /\ Cardinality(Restarting) \in Nat /\ Cardinality(Restarting') \in Nat
            /\ Cardinality(Connecting) \in Nat /\ Cardinality(Connecting') \in Nat
            /\ Cardinality(Capturing') =
                 Cardinality(Capturing) + Num(capture'[c].open) - Num(capture[c].open)
            /\ Cardinality(Restarting') =
                 Cardinality(Restarting) + Num(hold'[c]) - Num(hold[c])
            /\ Cardinality(Connecting') =
                 Cardinality(Connecting) + Num(job'[c] = "connect") - Num(job[c] = "connect")
        BY <3>1, HoldersMove
      <4>6. leases = Cardinality(Capturing) + Cardinality(Restarting)
                       + Cardinality(Connecting) + Cardinality(OrphanHolds)
        BY DEF SoundInv, LeasesAreHeld
      <4>7. leases' = Cardinality(Capturing') + Cardinality(Restarting')
                        + Cardinality(Connecting') + Cardinality(OrphanHolds')
        <5> DEFINE k == Num(capture[c].open)
                   kk == Num(capture'[c].open)
                   r == Num(hold[c])
                   rr == Num(hold'[c])
                   n == Num(job[c] = "connect")
                   nn == Num(job'[c] = "connect")
        <5>1. /\ k \in Int /\ kk \in Int /\ r \in Int /\ rr \in Int
              /\ n \in Int /\ nn \in Int
          BY <4>2, Zenon
        <5>2. /\ leases' - leases =
                   kk - k + rr - r + nn - n + orphans'[c].holding - orphans[c].holding
              /\ Cardinality(Capturing') = Cardinality(Capturing) + kk - k
              /\ Cardinality(Restarting') = Cardinality(Restarting) + rr - r
              /\ Cardinality(Connecting') = Cardinality(Connecting) + nn - n
          BY <4>3, <4>5, Zenon
        <5> HIDE DEF k, kk, r, rr, n, nn
        <5>3. QED
          BY <4>1, <4>4, <4>5, <4>6, <5>1, <5>2
      <4>8. QED
        BY <4>7 DEF LeasesAreHeld
    <3>5. QED
      BY <3>1, <3>2, <3>3, <3>4, LeasesMove, HoldersMove, OrphansMove DEF SoundInv
  <2>3. QED
    BY <2>1, <2>2
<1>3. QED
  BY <1>1, <1>2, PTL DEF SoundSpec

(* The speaker is there for exactly as long as something holds it: every   *)
(* lease taken by a capture, a restart, a stream being connected or a job  *)
(* of a cancelled session is counted, and given back once (audio.rs).      *)
THEOREM EveryLeaseIsHeld == SoundSpec => []LeasesAreHeld
<1>1. SoundInv => LeasesAreHeld
  BY DEF SoundInv
<1>2. QED
  BY <1>1, SoundSafe, PTL

(* While a stream is restarted the speaker stays, so the host is not heard *)
(* between the two captures (restart_audio).                               *)
THEOREM SilentWhileRestarting == SoundSpec => []HostStaysSilent
<1>1. SoundInv => HostStaysSilent
  <2> SUFFICES ASSUME SoundInv, NEW c \in Listeners, asked[c].restart, job[c] # "gone"
               PROVE  leases > 0
    BY DEF HostStaysSilent
  <2>1. c \in Capturing \/ c \in Restarting
    BY DEF SoundInv, SoundTypeOK, Jobs, Stands, Capturing, Restarting
  <2>2. /\ Cardinality(Capturing) \in Nat /\ Cardinality(Restarting) \in Nat
        /\ Cardinality(Connecting) \in Nat /\ Cardinality(OrphanHolds) \in Nat
    BY FS_CardinalityType DEF SoundInv
  <2>3. Cardinality(Capturing) # 0 \/ Cardinality(Restarting) # 0
    BY <2>1, FS_EmptySet DEF SoundInv
  <2>4. QED
    BY <2>2, <2>3 DEF SoundInv, LeasesAreHeld
<1>2. QED
  BY <1>1, SoundSafe, PTL

(* A session that waits for nothing captures what its client last asked    *)
(* for, and no Opus packet is lost between the coder and the client.       *)
THEOREM HeardAsAsked == SoundSpec => []SoundIsAsAsked
<1>1. SoundInv => SoundIsAsAsked
  BY DEF SoundInv, Streams, SoundIsAsAsked, Free
<1>2. QED
  BY <1>1, SoundSafe, PTL

-----------------------------------------------------------------------------
(* The camera.  Of the starts and stops in a queue, a start is the last.   *)
StartsLast(s) ==
  \E i \in 1 .. Len(s) : s[i] = "start" /\ \A j \in i .. Len(s) : s[j] # "stop"

(* The client sends, once it has read all that is queued for it.           *)
SendsOn(signals, down, sending) ==
  \/ StartsLast(signals)
  \/ /\ ~FrameHeld(signals, "stop")
     /\ StartsLast(down) \/ (~FrameHeld(down, "stop") /\ sending)

(* A keyframe on its way, asked for, or owed by the client.                *)
Coming(signals, down, up, keyNext) ==
  \/ FrameHeld(up, "keyframe") \/ keyNext
  \/ FrameHeld(signals, "start") \/ FrameHeld(signals, "keyframe")
  \/ FrameHeld(down, "start") \/ FrameHeld(down, "keyframe")

Signal == {"start", "stop", "keyframe", "failed"}

Cameras ==
  [plugged : BOOLEAN, gap : BOOLEAN, queue : Seq(BOOLEAN), signals : Seq(Signal),
   streaming : BOOLEAN, keyframeOwed : BOOLEAN, failed : BOOLEAN]

CameraTypeOK ==
  /\ camera \in Cameras
  /\ cameraDown \in Seq(Signal)
  /\ cameraUp \in Seq({"plug", "unplug", "keyframe", "delta"})
  /\ sender \in [sending : BOOLEAN, keyNext : BOOLEAN]

(* What keeps KeyframeIsComing: a gap is closed by a keyframe still to     *)
(* come, whatever the queue holds; only the decoder takes the queue's.     *)
Awaited(k, down, up, s) ==
  k.streaming /\ ~k.failed =>
    /\ SendsOn(k.signals, down, s.sending)
    /\ k.gap => Coming(k.signals, down, up, s.keyNext)
    /\ k.keyframeOwed => \/ FrameHeld(k.queue, TRUE)
                         \/ Coming(k.signals, down, up, s.keyNext)

CameraInv ==
  /\ CameraTypeOK
  /\ camera.streaming => camera.plugged
  /\ Awaited(camera, cameraDown, cameraUp, sender)

(* A message more, and one taken.                                          *)
LEMMA HeldAppend ==
  ASSUME NEW S, NEW s \in Seq(S), NEW m \in S, NEW x
  PROVE  FrameHeld(Append(s, m), x) <=> m = x \/ FrameHeld(s, x)
BY DEF FrameHeld

LEMMA HeldTail ==
  ASSUME NEW S, NEW s \in Seq(S), s # <<>>, NEW x
  PROVE  FrameHeld(s, x) <=> s[1] = x \/ FrameHeld(Tail(s), x)
<1>1. Len(s) >= 1 /\ Len(Tail(s)) = Len(s) - 1
      /\ \A i \in 1 .. Len(s) - 1 : Tail(s)[i] = s[i + 1]
  OBVIOUS
<1>2. ASSUME FrameHeld(s, x), s[1] # x
      PROVE  FrameHeld(Tail(s), x)
  <2>1. PICK i \in 1 .. Len(s) : s[i] = x
    BY <1>2 DEF FrameHeld
  <2>2. i - 1 \in 1 .. Len(s) - 1 /\ s[(i - 1) + 1] = x
    BY <1>1, <1>2, <2>1
  <2>3. QED
    BY <1>1, <2>2 DEF FrameHeld
<1>3. ASSUME FrameHeld(Tail(s), x)
      PROVE  FrameHeld(s, x)
  <2>1. PICK i \in 1 .. Len(s) - 1 : s[i + 1] = x
    BY <1>1, <1>3 DEF FrameHeld
  <2>2. QED
    BY <1>1, <2>1 DEF FrameHeld
<1>4. s[1] = x => FrameHeld(s, x)
  BY <1>1 DEF FrameHeld
<1>5. QED
  BY <1>2, <1>3, <1>4

LEMMA LastAppend ==
  ASSUME NEW s \in Seq(Signal), NEW m \in Signal
  PROVE  StartsLast(Append(s, m)) <=> m = "start" \/ (m # "stop" /\ StartsLast(s))
<1> DEFINE u == Append(s, m)
           n == Len(s) + 1
<1>1. /\ Len(s) \in Nat /\ Len(u) = n /\ u[n] = m
      /\ \A i \in 1 .. Len(s) : u[i] = s[i]
  OBVIOUS
<1> HIDE DEF u
<1>2. ASSUME StartsLast(u), m # "start"
      PROVE  m # "stop" /\ StartsLast(s)
  <2>1. PICK i \in 1 .. n : u[i] = "start" /\ \A j \in i .. n : u[j] # "stop"
    BY <1>1, <1>2 DEF StartsLast
  <2>2. n \in i .. n /\ i # n
    BY <1>1, <1>2, <2>1
  <2>3. QED
    BY <1>1, <2>1, <2>2 DEF StartsLast
<1>3. ASSUME m = "start"
      PROVE  StartsLast(u)
  <2>1. n \in 1 .. Len(u) /\ \A j \in n .. Len(u) : j = n
    BY <1>1
  <2>2. QED
    BY <1>1, <1>3, <2>1 DEF StartsLast
<1>4. ASSUME m # "stop", StartsLast(s)
      PROVE  StartsLast(u)
  <2>1. PICK i \in 1 .. Len(s) : s[i] = "start" /\ \A j \in i .. Len(s) : s[j] # "stop"
    BY <1>4 DEF StartsLast
  <2>2. \A j \in i .. n : u[j] # "stop"
    BY <1>1, <1>4, <2>1
  <2>3. i \in 1 .. Len(u) /\ u[i] = "start"
    BY <1>1, <2>1
  <2>4. QED
    BY <1>1, <2>2, <2>3 DEF StartsLast
<1>5. QED
  BY <1>2, <1>3, <1>4 DEF u

LEMMA LastTail ==
  ASSUME NEW s \in Seq(Signal), s # <<>>
  PROVE  StartsLast(s) <=> \/ StartsLast(Tail(s))
                           \/ s[1] = "start" /\ ~FrameHeld(Tail(s), "stop")
<1> DEFINE u == Tail(s)
           n == Len(s) - 1
<1>1. /\ n \in Nat /\ Len(u) = n
      /\ \A i \in 1 .. n : u[i] = s[i + 1]
  OBVIOUS
<1> HIDE DEF u
<1>2. ASSUME StartsLast(s)
      PROVE  StartsLast(u) \/ (s[1] = "start" /\ ~FrameHeld(u, "stop"))
  <2>1. PICK i \in 1 .. n + 1 : s[i] = "start" /\ \A j \in i .. n + 1 : s[j] # "stop"
    BY <1>1, <1>2 DEF StartsLast
  <2>2. CASE i = 1
    BY <1>1, <2>1, <2>2 DEF FrameHeld
  <2>3. CASE i # 1
    <3>1. i - 1 \in 1 .. n /\ u[i - 1] = "start"
      BY <1>1, <2>1, <2>3
    <3>2. \A j \in (i - 1) .. n : u[j] # "stop"
      BY <1>1, <2>1, <2>3
    <3>3. QED
      BY <1>1, <3>1, <3>2 DEF StartsLast
  <2>4. QED
    BY <2>2, <2>3
<1>3. ASSUME StartsLast(u)
      PROVE  StartsLast(s)
  <2>1. PICK i \in 1 .. n : u[i] = "start" /\ \A j \in i .. n : u[j] # "stop"
    BY <1>1, <1>3 DEF StartsLast
  <2>2. i + 1 \in 1 .. Len(s) /\ s[i + 1] = "start"
    BY <1>1, <2>1
  <2>3. \A j \in (i + 1) .. Len(s) : s[j] # "stop"
    <3>1. TAKE j \in (i + 1) .. Len(s)
    <3>2. j - 1 \in i .. n /\ j - 1 \in 1 .. n /\ (j - 1) + 1 = j
      BY <1>1, <2>1
    <3>3. QED
      BY <1>1, <2>1, <3>2
  <2>4. QED
    BY <2>2, <2>3 DEF StartsLast
<1>4. ASSUME s[1] = "start", ~FrameHeld(u, "stop")
      PROVE  StartsLast(s)
  <2>1. \A j \in 1 .. Len(s) : s[j] # "stop"
    <3>1. TAKE j \in 1 .. Len(s)
    <3>2. CASE j = 1
      BY <1>4, <3>2
    <3>3. CASE j # 1
      <4>1. j - 1 \in 1 .. n /\ (j - 1) + 1 = j
        BY <1>1, <3>3
      <4>2. QED
        BY <1>1, <1>4, <4>1 DEF FrameHeld
    <3>4. QED
      BY <3>2, <3>3
  <2>2. 1 \in 1 .. Len(s)
    BY <1>1
  <2>3. QED
    BY <1>4, <2>1, <2>2 DEF StartsLast
<1>5. QED
  BY <1>2, <1>3, <1>4 DEF u

(* A signal more: a request is one that comes, and a start is the last.    *)
LEMMA AskedMore ==
  ASSUME NEW q \in Seq(Signal), NEW d, NEW u, NEW sending, NEW keyNext, NEW m \in Signal
  PROVE  /\ m \in {"start", "keyframe"} => Coming(Append(q, m), d, u, keyNext)
         /\ Coming(q, d, u, keyNext) => Coming(Append(q, m), d, u, keyNext)
         /\ m = "start" => SendsOn(Append(q, m), d, sending)
         /\ m # "stop" /\ SendsOn(q, d, sending) => SendsOn(Append(q, m), d, sending)
<1>1. /\ FrameHeld(Append(q, m), "start") <=> m = "start" \/ FrameHeld(q, "start")
      /\ FrameHeld(Append(q, m), "keyframe") <=> m = "keyframe" \/ FrameHeld(q, "keyframe")
      /\ FrameHeld(Append(q, m), "stop") <=> m = "stop" \/ FrameHeld(q, "stop")
  BY HeldAppend
<1>2. StartsLast(Append(q, m)) <=> m = "start" \/ (m # "stop" /\ StartsLast(q))
  BY LastAppend
<1>3. QED
  BY <1>1, <1>2, Zenon DEF Coming, SendsOn

(* A signal sent is one told.                                              *)
LEMMA AskedSent ==
  ASSUME NEW q \in Seq(Signal), q # <<>>, NEW d \in Seq(Signal), NEW u,
         NEW sending, NEW keyNext
  PROVE  /\ Coming(q, d, u, keyNext) =>
              Coming(Tail(q), Append(d, q[1]), u, keyNext)
         /\ SendsOn(q, d, sending) => SendsOn(Tail(q), Append(d, q[1]), sending)
<1>0. q[1] \in Signal
  OBVIOUS
<1>1. \A x : FrameHeld(q, x) <=> q[1] = x \/ FrameHeld(Tail(q), x)
  BY HeldTail
<1>2. \A x : FrameHeld(Append(d, q[1]), x) <=> q[1] = x \/ FrameHeld(d, x)
  BY <1>0, HeldAppend
<1>3. StartsLast(q) <=> \/ StartsLast(Tail(q))
                        \/ q[1] = "start" /\ ~FrameHeld(Tail(q), "stop")
  BY LastTail
<1>4. StartsLast(Append(d, q[1])) <=> q[1] = "start" \/ (q[1] # "stop" /\ StartsLast(d))
  BY <1>0, LastAppend
<1>5. Coming(q, d, u, keyNext) => Coming(Tail(q), Append(d, q[1]), u, keyNext)
  BY <1>1, <1>2 DEF Coming
<1>6. SendsOn(q, d, sending) => SendsOn(Tail(q), Append(d, q[1]), sending)
  BY <1>1, <1>2, <1>3, <1>4 DEF SendsOn
<1>7. QED
  BY <1>5, <1>6

(* What is read is what the client does: it sends after a start, and owes  *)
(* a keyframe after any request.                                           *)
LEMMA AskedRead ==
  ASSUME NEW q, NEW d \in Seq(Signal), d # <<>>, NEW u,
         NEW sending, NEW s, NEW keyNext, NEW n,
         d[1] = "start" => s,
         d[1] \notin {"start", "stop"} /\ sending => s,
         d[1] # "stop" \/ keyNext => n
  PROVE  /\ Coming(q, d, u, keyNext) => Coming(q, Tail(d), u, n)
         /\ SendsOn(q, d, sending) => SendsOn(q, Tail(d), s)
<1>1. \A x : FrameHeld(d, x) <=> d[1] = x \/ FrameHeld(Tail(d), x)
  BY HeldTail
<1>2. StartsLast(d) <=> \/ StartsLast(Tail(d))
                        \/ d[1] = "start" /\ ~FrameHeld(Tail(d), "stop")
  BY LastTail
<1>3. Coming(q, d, u, keyNext) => Coming(q, Tail(d), u, n)
  BY <1>1 DEF Coming
<1>4. SendsOn(q, d, sending) => SendsOn(q, Tail(d), s)
  BY <1>1, <1>2 DEF SendsOn
<1>5. QED
  BY <1>3, <1>4

LEMMA SampledIs ==
  ASSUME NEW k \in Cameras, NEW keyframe \in BOOLEAN
  PROVE  LET r == Sampled(k, keyframe)
         IN /\ r \in Cameras
            /\ r.plugged = k.plugged /\ r.streaming = k.streaming
            /\ r.keyframeOwed = k.keyframeOwed /\ r.failed = k.failed
            /\ \/ r = k /\ ~keyframe
               \/ r.queue = k.queue /\ r.signals = Append(k.signals, "keyframe")
               \/ ~r.gap /\ r.queue = Append(k.queue, keyframe) /\ r.signals = k.signals
<1>0. k.signals \in Seq(Signal) /\ k.queue \in Seq(BOOLEAN) /\ k.gap \in BOOLEAN
  BY DEF Cameras
<1>1. Append(k.signals, "keyframe") \in Seq(Signal) /\ Append(k.queue, keyframe) \in Seq(BOOLEAN)
  BY <1>0 DEF Signal
<1>2. CASE ~keyframe /\ k.gap
  BY <1>2 DEF Sampled
<1>3. CASE ~(~keyframe /\ k.gap) /\ Len(k.queue) >= CAMERA_DEPTH
  <2>1. Sampled(k, keyframe) = [Signalled(k, "keyframe") EXCEPT !.gap = TRUE]
    BY <1>0, <1>3 DEF Sampled
  <2>2. Signalled(k, "keyframe") = [k EXCEPT !.signals = Append(k.signals, "keyframe")]
    BY DEF Signalled
  <2>3. QED
    BY <1>1, <2>1, <2>2 DEF Cameras
<1>4. CASE ~(~keyframe /\ k.gap) /\ ~(Len(k.queue) >= CAMERA_DEPTH)
  <2>1. Sampled(k, keyframe) = [k EXCEPT !.gap = FALSE, !.queue = Append(k.queue, keyframe)]
    BY <1>4 DEF Sampled
  <2>2. QED
    BY <1>1, <2>1 DEF Cameras
<1>5. QED
  BY <1>2, <1>3, <1>4

LEMMA NothingQueued == ASSUME NEW S PROVE <<>> \in Seq(S)
OBVIOUS

LEMMA FirstOf ==
  ASSUME NEW S, NEW s \in Seq(S), s # <<>>
  PROVE  s[1] \in S /\ Tail(s) \in Seq(S)
OBVIOUS

LEMMA PluggedIs ==
  /\ Plugged \in Cameras /\ ~Plugged.streaming
  /\ Unplugged \in Cameras /\ ~Unplugged.streaming
<1>1. <<>> \in Seq(BOOLEAN) /\ <<>> \in Seq(Signal)
  BY NothingQueued, Zenon
<1>2. Plugged \in Cameras /\ ~Plugged.streaming
  BY <1>1 DEF Plugged, Cameras
<1>3. QED
  BY <1>2 DEF Unplugged, Cameras

LEMMA CameraInitially == CameraInit => CameraInv
<1>1. CameraInit => CameraTypeOK
  <2>1. <<>> \in Seq(Signal) /\ <<>> \in Seq({"plug", "unplug", "keyframe", "delta"})
    BY NothingQueued, Zenon
  <2>2. QED
    BY <2>1, PluggedIs DEF CameraInit, CameraTypeOK
<1>2. CameraInit => Awaited(camera, cameraDown, cameraUp, sender)
  BY PluggedIs DEF CameraInit, Awaited
<1>3. QED
  BY <1>1, <1>2, PluggedIs DEF CameraInit, CameraInv

(* Every step of the client, of the session and of the camera's thread     *)
(* keeps what is asked and what is to come.                                *)
LEMMA CameraSteps ==
  ASSUME CameraInv, CameraNext
  PROVE  CameraInv'
<1>0. /\ CameraTypeOK /\ camera \in Cameras
      /\ cameraDown \in Seq(Signal) /\ cameraUp \in Seq({"plug", "unplug", "keyframe", "delta"})
      /\ sender \in [sending : BOOLEAN, keyNext : BOOLEAN]
      /\ sender.sending \in BOOLEAN /\ sender.keyNext \in BOOLEAN
      /\ camera.streaming => camera.plugged
      /\ Awaited(camera, cameraDown, cameraUp, sender)
  BY DEF CameraInv, CameraTypeOK
<1>1. /\ camera.queue \in Seq(BOOLEAN) /\ camera.signals \in Seq(Signal)
      /\ camera.streaming \in BOOLEAN /\ camera.failed \in BOOLEAN
      /\ camera.gap \in BOOLEAN /\ camera.keyframeOwed \in BOOLEAN
  BY <1>0 DEF Cameras
<1> DEFINE Ups == {"plug", "unplug", "keyframe", "delta"}
<1>2. ASSUME NEW m \in Ups, ClientSends(m), sender'.sending = sender.sending,
             sender' \in [sending : BOOLEAN, keyNext : BOOLEAN],
             sender.keyNext => sender'.keyNext \/ m = "keyframe"
      PROVE  CameraInv'
  <2>1. cameraUp' = Append(cameraUp, m) /\ UNCHANGED <<camera, cameraDown>>
    BY <1>2 DEF ClientSends
  <2>2. cameraUp' \in Seq(Ups)
    BY <1>0, <2>1
  <2>3. FrameHeld(cameraUp', "keyframe") <=> m = "keyframe" \/ FrameHeld(cameraUp, "keyframe")
    BY <1>0, <2>1, HeldAppend
  <2>4. Awaited(camera, cameraDown, cameraUp', sender')
    BY <1>0, <1>2, <2>3, Zenon DEF Awaited, Coming
  <2>5. QED
    BY <1>0, <1>2, <2>1, <2>2, <2>4 DEF CameraInv, CameraTypeOK
<1>3. CASE CameraPlugs \/ CameraUnplugs
  BY <1>0, <1>2, <1>3 DEF CameraPlugs, CameraUnplugs
<1>4. ASSUME NEW keyframe \in BOOLEAN, CameraSample(keyframe)
      PROVE  CameraInv'
  <2> DEFINE m == IF keyframe THEN "keyframe" ELSE "delta"
  <2>1. ClientSends(m) /\ m \in Ups /\ (sender.keyNext => m = "keyframe")
    BY <1>4 DEF CameraSample
  <2>2. sender' = [sender EXCEPT !.keyNext = FALSE]
    BY <1>4 DEF CameraSample
  <2>3. sender' \in [sending : BOOLEAN, keyNext : BOOLEAN] /\ sender'.sending = sender.sending
    BY <1>0, <2>2
  <2> HIDE DEF m
  <2>4. QED
    BY <1>2, <2>1, <2>3
<1>5. CASE CameraReads
  <2> DEFINE s == CASE cameraDown[1] = "start" -> TRUE
                    [] cameraDown[1] = "stop" -> FALSE
                    [] OTHER -> sender.sending
             n == (cameraDown[1] # "stop" \/ sender.keyNext)
  <2>1. /\ cameraDown # <<>> /\ cameraDown' = Tail(cameraDown) /\ UNCHANGED <<camera, cameraUp>>
        /\ sender' = [sending |-> s, keyNext |-> n]
    BY <1>5 DEF CameraReads
  <2>2. s \in BOOLEAN
    BY <1>0
  <2>3. n \in BOOLEAN /\ (cameraDown[1] # "stop" \/ sender.keyNext => n)
    BY <1>0, Zenon
  <2>4. /\ cameraDown[1] = "start" => s
        /\ cameraDown[1] \notin {"start", "stop"} /\ sender.sending => s
    BY <1>0
  <2> HIDE DEF s, n
  <2>5. /\ sender' \in [sending : BOOLEAN, keyNext : BOOLEAN]
        /\ sender'.sending = s /\ sender'.keyNext = n
    BY <2>1, <2>2, <2>3
  <2>6. cameraDown' \in Seq(Signal)
    BY <1>0, <2>1
  <2>7. /\ Coming(camera.signals, cameraDown, cameraUp, sender.keyNext) =>
             Coming(camera.signals, Tail(cameraDown), cameraUp, n)
        /\ SendsOn(camera.signals, cameraDown, sender.sending) =>
             SendsOn(camera.signals, Tail(cameraDown), s)
    BY <1>0, <2>1, <2>3, <2>4, AskedRead
  <2>8. Awaited(camera, cameraDown', cameraUp, sender')
    BY <1>0, <2>1, <2>5, <2>7 DEF Awaited
  <2>9. QED
    BY <1>0, <2>1, <2>5, <2>6, <2>8 DEF CameraInv, CameraTypeOK
<1>6. ASSUME UNCHANGED <<cameraDown, cameraUp, sender>>, camera' \in Cameras,
             camera'.streaming => camera'.plugged,
             Awaited(camera', cameraDown, cameraUp, sender)
      PROVE  CameraInv'
  BY <1>0, <1>6 DEF CameraInv, CameraTypeOK
<1>7. CASE CameraHandle
  <2> DEFINE up == Tail(cameraUp)
             keyframe == cameraUp[1] = "keyframe"
  <2>1. /\ cameraUp # <<>> /\ cameraUp' = up /\ UNCHANGED <<cameraDown, sender>>
        /\ up \in Seq(Ups)
    BY <1>0, <1>7 DEF CameraHandle
  <2>2. FrameHeld(cameraUp, "keyframe") <=> keyframe \/ FrameHeld(up, "keyframe")
    BY <1>0, <2>1, HeldTail
  <2> HIDE DEF up
  <2>3. \/ camera' \in {Plugged, Unplugged}
        \/ ~camera.plugged /\ camera' = camera
        \/ camera.plugged /\ camera' = Sampled(camera, keyframe)
    BY <1>7 DEF CameraHandle
  <2>4. ASSUME camera' \in Cameras, camera'.streaming => camera'.plugged,
               Awaited(camera', cameraDown, up, sender)
        PROVE  CameraInv'
    BY <1>0, <2>1, <2>4 DEF CameraInv, CameraTypeOK
  <2>5. CASE camera' \in {Plugged, Unplugged}
    BY <2>4, <2>5, PluggedIs DEF Awaited
  <2>6. CASE ~camera.plugged /\ camera' = camera
    BY <1>0, <2>4, <2>6 DEF Awaited
  <2>7. CASE camera.plugged /\ camera' = Sampled(camera, keyframe)
    <3>1. /\ camera' \in Cameras
          /\ camera'.plugged = camera.plugged /\ camera'.streaming = camera.streaming
          /\ camera'.keyframeOwed = camera.keyframeOwed /\ camera'.failed = camera.failed
          /\ \/ camera' = camera /\ ~keyframe
             \/ /\ camera'.queue = camera.queue
                /\ camera'.signals = Append(camera.signals, "keyframe")
             \/ /\ ~camera'.gap /\ camera'.queue = Append(camera.queue, keyframe)
                /\ camera'.signals = camera.signals
      <4>1. keyframe \in BOOLEAN
        OBVIOUS
      <4> HIDE DEF keyframe
      <4>2. QED
        BY <1>0, <2>7, <4>1, SampledIs
    <3>2. CASE camera' = camera /\ ~keyframe
      <4>1. Awaited(camera', cameraDown, up, sender)
        BY <1>0, <2>2, <3>2, Zenon DEF Awaited, Coming
      <4>2. QED
        BY <1>0, <2>4, <3>2, <4>1
    <3>3. CASE /\ camera'.queue = camera.queue
               /\ camera'.signals = Append(camera.signals, "keyframe")
      <4>1. /\ Coming(Append(camera.signals, "keyframe"), cameraDown, up, sender.keyNext)
            /\ SendsOn(camera.signals, cameraDown, sender.sending) =>
                 SendsOn(Append(camera.signals, "keyframe"), cameraDown, sender.sending)
        BY <1>1, AskedMore DEF Signal
      <4>2. Awaited(camera', cameraDown, up, sender)
        BY <1>0, <3>1, <3>3, <4>1 DEF Awaited
      <4>3. QED
        BY <1>0, <2>4, <3>1, <4>2
    <3>4. CASE /\ ~camera'.gap /\ camera'.queue = Append(camera.queue, keyframe)
               /\ camera'.signals = camera.signals
      <4>1. FrameHeld(camera'.queue, TRUE) <=> keyframe \/ FrameHeld(camera.queue, TRUE)
        <5>1. keyframe \in BOOLEAN
          OBVIOUS
        <5> HIDE DEF keyframe
        <5>2. FrameHeld(Append(camera.queue, keyframe), TRUE)
                <=> keyframe = TRUE \/ FrameHeld(camera.queue, TRUE)
          BY <1>1, <5>1, HeldAppend
        <5>3. QED
          BY <3>4, <5>1, <5>2
      <4>2. Coming(camera.signals, cameraDown, cameraUp, sender.keyNext) =>
              keyframe \/ Coming(camera.signals, cameraDown, up, sender.keyNext)
        BY <2>2 DEF Coming
      <4>3. Awaited(camera', cameraDown, up, sender)
        BY <1>0, <3>1, <3>4, <4>1, <4>2 DEF Awaited
      <4>4. QED
        BY <1>0, <2>4, <3>1, <4>3
    <3>5. QED
      BY <3>1, <3>2, <3>3, <3>4
  <2>8. QED
    BY <2>3, <2>5, <2>6, <2>7
<1>8. CASE SendSignal
  <2>1. /\ camera.signals # <<>> /\ UNCHANGED <<cameraUp, sender>>
        /\ \/ cameraDown' = Append(cameraDown, "stop") /\ camera' = Unplugged
           \/ /\ cameraDown' = Append(cameraDown, camera.signals[1])
              /\ camera' = [camera EXCEPT !.signals = Tail(camera.signals)]
    BY <1>8 DEF SendSignal
  <2>2. camera.signals[1] \in Signal /\ Tail(camera.signals) \in Seq(Signal)
    BY <1>1, <2>1
  <2>3. cameraDown' \in Seq(Signal)
    <3>1. "stop" \in Signal
      BY DEF Signal
    <3>2. QED
      BY <1>0, <2>1, <2>2, <3>1
  <2>4. ASSUME camera' \in Cameras, camera'.streaming => camera'.plugged,
               Awaited(camera', cameraDown', cameraUp, sender)
        PROVE  CameraInv'
    BY <1>0, <2>1, <2>3, <2>4 DEF CameraInv, CameraTypeOK
  <2>5. CASE camera' = Unplugged
    BY <2>4, <2>5, PluggedIs DEF Awaited
  <2>6. CASE /\ cameraDown' = Append(cameraDown, camera.signals[1])
             /\ camera' = [camera EXCEPT !.signals = Tail(camera.signals)]
    <3>1. /\ camera' \in Cameras /\ camera'.signals = Tail(camera.signals)
          /\ camera'.plugged = camera.plugged /\ camera'.streaming = camera.streaming
          /\ camera'.keyframeOwed = camera.keyframeOwed /\ camera'.failed = camera.failed
          /\ camera'.gap = camera.gap /\ camera'.queue = camera.queue
      BY <1>0, <2>2, <2>6 DEF Cameras
    <3>2. /\ Coming(camera.signals, cameraDown, cameraUp, sender.keyNext) =>
               Coming(Tail(camera.signals), cameraDown', cameraUp, sender.keyNext)
          /\ SendsOn(camera.signals, cameraDown, sender.sending) =>
               SendsOn(Tail(camera.signals), cameraDown', sender.sending)
      BY <1>0, <1>1, <2>1, <2>6, AskedSent
    <3>3. Awaited(camera', cameraDown', cameraUp, sender)
      BY <1>0, <3>1, <3>2 DEF Awaited
    <3>4. QED
      BY <1>0, <2>4, <3>1, <3>3
  <2>7. QED
    BY <2>1, <2>5, <2>6
<1>9. CASE CameraState
  <2>1. UNCHANGED <<cameraDown, cameraUp, sender>> /\ camera.plugged
    BY <1>9 DEF CameraState, Thread
  <2>2. CASE camera.streaming
    <3>1. camera' = [[camera EXCEPT !.streaming = FALSE]
                       EXCEPT !.signals = Append(camera.signals, "stop")]
      BY <1>0, <1>9, <2>2 DEF CameraState, Thread, Signalled, Cameras
    <3>2. Append(camera.signals, "stop") \in Seq(Signal)
      BY <1>1 DEF Signal
    <3>3. camera' \in Cameras /\ ~camera'.streaming
      BY <1>0, <3>1, <3>2 DEF Cameras
    <3>4. QED
      BY <1>6, <2>1, <3>3 DEF Awaited
  <2>3. CASE ~camera.streaming
    <3>1. camera' = [[camera EXCEPT !.streaming = TRUE, !.keyframeOwed = TRUE]
                       EXCEPT !.signals = Append(camera.signals, "start")]
      BY <1>0, <1>9, <2>3 DEF CameraState, Thread, Signalled, Cameras
    <3>2. Append(camera.signals, "start") \in Seq(Signal)
      BY <1>1 DEF Signal
    <3>3. camera' \in Cameras /\ camera'.signals = Append(camera.signals, "start")
          /\ camera'.plugged = camera.plugged
      BY <1>0, <3>1, <3>2 DEF Cameras
    <3>4. /\ Coming(Append(camera.signals, "start"), cameraDown, cameraUp, sender.keyNext)
          /\ SendsOn(Append(camera.signals, "start"), cameraDown, sender.sending)
      BY <1>1, AskedMore DEF Signal
    <3>5. Awaited(camera', cameraDown, cameraUp, sender)
      BY <3>3, <3>4 DEF Awaited
    <3>6. QED
      BY <1>6, <2>1, <3>3, <3>5
  <2>4. QED
    BY <2>2, <2>3
<1>10. CASE Take
  <2> DEFINE keyframe == camera.queue[1]
             k == [camera EXCEPT !.queue = Tail(@)]
  <2>1. /\ UNCHANGED <<cameraDown, cameraUp, sender>> /\ camera.queue # <<>>
        /\ \/ Skipped(keyframe) /\ camera' = k
           \/ camera' = [k EXCEPT !.keyframeOwed = FALSE]
           \/ ~keyframe /\ camera' = k
           \/ camera' = Signalled([k EXCEPT !.failed = TRUE], "failed")
           \/ camera' = Signalled([k EXCEPT !.keyframeOwed = TRUE], "keyframe")
    BY <1>10 DEF Take, Thread
  <2>2. keyframe \in BOOLEAN /\ Tail(camera.queue) \in Seq(BOOLEAN)
    BY <1>1, <2>1, FirstOf, Zenon
  <2>3. FrameHeld(camera.queue, TRUE) <=> keyframe = TRUE \/ FrameHeld(Tail(camera.queue), TRUE)
    BY <1>1, <2>1, HeldTail
  <2>4. /\ k \in Cameras /\ k.queue = Tail(camera.queue) /\ k.signals = camera.signals
        /\ k.plugged = camera.plugged /\ k.streaming = camera.streaming
        /\ k.keyframeOwed = camera.keyframeOwed /\ k.failed = camera.failed
        /\ k.gap = camera.gap
    BY <1>0, <2>2 DEF Cameras
  <2> HIDE DEF k, keyframe
  <2>5. CASE camera' = k /\ (Skipped(keyframe) \/ ~keyframe)
    <3>1. camera.failed \/ ~keyframe
      BY <2>5 DEF Skipped
    <3>2. Awaited(camera', cameraDown, cameraUp, sender)
      BY <1>0, <2>2, <2>3, <2>4, <2>5, <3>1 DEF Awaited
    <3>3. QED
      BY <1>0, <1>6, <2>1, <2>4, <2>5, <3>2
  <2>6. CASE camera' = [k EXCEPT !.keyframeOwed = FALSE]
    <3>1. /\ camera' \in Cameras /\ camera'.signals = k.signals /\ camera'.gap = k.gap
          /\ camera'.plugged = k.plugged /\ camera'.streaming = k.streaming
          /\ camera'.failed = k.failed /\ ~camera'.keyframeOwed
      BY <2>4, <2>6 DEF Cameras
    <3>2. Awaited(camera', cameraDown, cameraUp, sender)
      BY <1>0, <2>4, <3>1 DEF Awaited
    <3>3. QED
      BY <1>0, <1>6, <2>1, <2>4, <3>1, <3>2
  <2>7. CASE camera' = Signalled([k EXCEPT !.failed = TRUE], "failed")
    <3>1. Append(camera.signals, "failed") \in Seq(Signal)
      BY <1>1 DEF Signal
    <3>2. /\ camera' \in Cameras /\ camera'.failed
          /\ camera'.plugged = k.plugged /\ camera'.streaming = k.streaming
      BY <2>4, <2>7, <3>1 DEF Cameras, Signalled
    <3>3. QED
      BY <1>0, <1>6, <2>1, <2>4, <3>2 DEF Awaited
  <2>8. CASE camera' = Signalled([k EXCEPT !.keyframeOwed = TRUE], "keyframe")
    <3>1. Append(camera.signals, "keyframe") \in Seq(Signal)
      BY <1>1 DEF Signal
    <3>2. /\ camera' \in Cameras /\ camera'.failed = k.failed
          /\ camera'.plugged = k.plugged /\ camera'.streaming = k.streaming
          /\ camera'.signals = Append(camera.signals, "keyframe")
      BY <2>4, <2>8, <3>1 DEF Cameras, Signalled
    <3>3. /\ Coming(Append(camera.signals, "keyframe"), cameraDown, cameraUp, sender.keyNext)
          /\ SendsOn(camera.signals, cameraDown, sender.sending) =>
               SendsOn(Append(camera.signals, "keyframe"), cameraDown, sender.sending)
      BY <1>1, AskedMore DEF Signal
    <3>4. Awaited(camera', cameraDown, cameraUp, sender)
      BY <1>0, <2>4, <3>2, <3>3 DEF Awaited
    <3>5. QED
      BY <1>0, <1>6, <2>1, <2>4, <3>2, <3>4
  <2>9. QED
    BY <2>1, <2>5, <2>6, <2>7, <2>8
<1>11. QED
  BY <1>3, <1>4, <1>5, <1>7, <1>8, <1>9, <1>10 DEF CameraNext

(* What is asked of a camera's client, told it and done by it, never       *)
(* leaves a gap or a decoder waiting for a keyframe that is not to come.   *)
THEOREM CameraSafe == CameraSpec => []CameraInv
<1>1. CameraInv /\ UNCHANGED cameraVars => CameraInv'
  BY DEF cameraVars, CameraInv, CameraTypeOK
<1>2. CameraInv /\ [CameraNext]_cameraVars => CameraInv'
  BY <1>1, CameraSteps
<1>3. QED
  BY <1>2, CameraInitially, PTL DEF CameraSpec

(* A camera an application has open never waits for a keyframe that nobody *)
(* was asked for, whatever was lost, refused, closed and opened again      *)
(* (camera.rs, and the session's part).                                    *)
THEOREM KeyframesCome == CameraSpec => []KeyframeIsComing
<1>1. CameraInv => KeyframeIsComing
  <2> SUFFICES ASSUME CameraInv, camera.streaming, ~camera.failed,
                      camera.keyframeOwed \/ camera.gap
               PROVE  \/ FrameHeld(camera.queue, TRUE) \/ FrameHeld(cameraUp, "keyframe")
                      \/ sender.sending /\ sender.keyNext
                      \/ \E ask \in {"start", "keyframe"} :
                           FrameHeld(camera.signals, ask) \/ FrameHeld(cameraDown, ask)
    BY DEF KeyframeIsComing
  <2>1. /\ SendsOn(camera.signals, cameraDown, sender.sending)
        /\ \/ FrameHeld(camera.queue, TRUE)
           \/ Coming(camera.signals, cameraDown, cameraUp, sender.keyNext)
    BY DEF CameraInv, Awaited
  <2>2. \A s : StartsLast(s) => FrameHeld(s, "start")
    BY DEF StartsLast, FrameHeld
  <2>3. QED
    BY <2>1, <2>2 DEF SendsOn, Coming
<1>2. QED
  BY <1>1, CameraSafe, PTL

-----------------------------------------------------------------------------
(* The pointers, with what keys are typed left aside.                      *)
PointerTypeOK ==
  /\ pointers \in [Desks -> [made : BOOLEAN, aimed : Places \cup {NoPlace},
                             buttons : SUBSET Buttons]]
  /\ seat \in [by : Desks \cup {NoDesk}, at : Places \cup {NoPlace},
               down : [Desks -> SUBSET Buttons]]
  /\ cursor \in Desks \cup {NoDesk}

PointersInv == PointerTypeOK /\ ScrollsWhereAimed

(* The buttons of a desk set on the seat are those its client holds.       *)
LEMMA ButtonsSet ==
  ASSUME PointersInv, NEW d \in Desks, NEW after \in SUBSET Buttons
  PROVE  /\ SetButtons(seat.down, d, pointers[d].buttons, after)
              = [seat.down EXCEPT ![d] = after]
         /\ SetButtons(seat.down, d, pointers[d].buttons, after)
              \in [Desks -> SUBSET Buttons]
<1> DEFINE before == pointers[d].buttons
<1>1. seat.down \in [Desks -> SUBSET Buttons] /\ seat.down[d] = before
  BY DEF PointersInv, PointerTypeOK, ScrollsWhereAimed
<1>2. (before \ (before \ after)) \cup (after \ before) = after
  OBVIOUS
<1>3. SetButtons(seat.down, d, before, after) = [seat.down EXCEPT ![d] = after]
  BY <1>1, <1>2 DEF SetButtons
<1>4. QED
  BY <1>1, <1>3

PointerState ==
  [made : BOOLEAN, aimed : Places \cup {NoPlace}, buttons : SUBSET Buttons]

(* A desk's pointer and the seat's cursor set together.                    *)
LEMMA PointerSet ==
  ASSUME PointersInv, NEW d \in Desks, NEW p \in PointerState,
         NEW by \in Desks \cup {NoDesk}, NEW at \in Places \cup {NoPlace},
         pointers' = [pointers EXCEPT ![d] = p],
         seat' = [by |-> by, at |-> at,
                  down |-> SetButtons(seat.down, d, pointers[d].buttons, p.buttons)],
         p.buttons # {} => p.aimed # NoPlace,
         cursor' \in Desks \cup {NoDesk},
         cursor' = d => by = d /\ at = p.aimed /\ at # NoPlace,
         cursor' \notin {d, NoDesk} => cursor' = cursor /\ by = seat.by /\ at = seat.at
  PROVE  PointersInv'
<1>1. /\ pointers \in [Desks -> PointerState] /\ seat.down \in [Desks -> SUBSET Buttons]
      /\ ScrollsWhereAimed
  BY DEF PointersInv, PointerTypeOK, PointerState
<1>2. p.buttons \in SUBSET Buttons
  BY DEF PointerState
<1>3. /\ seat'.by = by /\ seat'.at = at
      /\ seat'.down = [seat.down EXCEPT ![d] = p.buttons]
      /\ seat'.down \in [Desks -> SUBSET Buttons]
  BY <1>2, ButtonsSet
<1>4. PointerTypeOK'
  <2>1. pointers' \in [Desks -> PointerState]
    BY <1>1
  <2>2. seat' \in [by : Desks \cup {NoDesk}, at : Places \cup {NoPlace},
                   down : [Desks -> SUBSET Buttons]]
    BY <1>3
  <2>3. QED
    BY <2>1, <2>2 DEF PointerTypeOK, PointerState
<1>5. \A e \in Desks : /\ seat'.down[e] = pointers'[e].buttons
                       /\ seat'.down[e] # {} => pointers'[e].aimed # NoPlace
  BY <1>1, <1>3 DEF ScrollsWhereAimed
<1>6. cursor' # NoDesk => /\ seat'.by = cursor' /\ seat'.at = pointers'[cursor'].aimed
                          /\ seat'.at # NoPlace
  <2>1. CASE cursor' = d
    BY <1>1, <1>3, <2>1
  <2>2. CASE cursor' \notin {d, NoDesk}
    BY <1>1, <1>3, <2>2 DEF ScrollsWhereAimed
  <2>3. QED
    BY <2>1, <2>2
<1>7. QED
  BY <1>4, <1>5, <1>6 DEF PointersInv, ScrollsWhereAimed

LEMMA PointerSteps ==
  ASSUME PointersInv, InputsAssumption, InputsNext
  PROVE  PointersInv'
<1>1. PICK d \in Desks :
        \/ \E keysym \in Keysyms, down \in BOOLEAN : Key(d, keysym, down)
        \/ \E buttons \in SUBSET Buttons :
             PointerNowhere(d, buttons) \/ \E at \in Places : PointerTo(d, at, buttons)
        \/ Scroll(d) \/ Point(d) \/ LetGoOfDesk(d) \/ Unpoint(d)
  BY DEF InputsNext
<1> DEFINE own == pointers[d]
<1>2. /\ own \in PointerState /\ own.buttons \in SUBSET Buttons
      /\ own.aimed \in Places \cup {NoPlace}
      /\ seat.by \in Desks \cup {NoDesk} /\ seat.at \in Places \cup {NoPlace}
      /\ cursor \in Desks \cup {NoDesk}
      /\ pointers \in [Desks -> PointerState]
      /\ seat.down \in [Desks -> SUBSET Buttons]
      /\ seat \in [by : Desks \cup {NoDesk}, at : Places \cup {NoPlace},
                   down : [Desks -> SUBSET Buttons]]
  BY DEF PointersInv, PointerTypeOK, PointerState
<1>3. /\ cursor # NoDesk => /\ seat.by = cursor /\ seat.at = pointers[cursor].aimed
                            /\ seat.at # NoPlace
      /\ own.buttons # {} => own.aimed # NoPlace
      /\ NoDesk \notin Desks /\ NoPlace \notin Places
  BY DEF PointersInv, ScrollsWhereAimed, NoDesk, Desks, InputsAssumption
<1>4. ASSUME NEW keysym \in Keysyms, NEW down \in BOOLEAN, Key(d, keysym, down)
      PROVE  PointersInv'
  <2>1. UNCHANGED <<pointers, cursor, seat>>
    BY <1>4 DEF Key
  <2>2. QED
    BY <2>1 DEF PointersInv, PointerTypeOK, ScrollsWhereAimed
<1>5. ASSUME NEW buttons \in SUBSET Buttons, PointerNowhere(d, buttons)
      PROVE  PointersInv'
  <2> DEFINE p == [own EXCEPT !.buttons = own.buttons \cap buttons]
  <2>1. p \in PointerState /\ p.buttons = own.buttons \cap buttons /\ p.aimed = own.aimed
    BY <1>2 DEF PointerState
  <2>2. /\ pointers' = [pointers EXCEPT ![d] = p] /\ cursor' = cursor
        /\ seat' = [seat EXCEPT !.down = SetButtons(seat.down, d, own.buttons, p.buttons)]
    BY <1>2, <1>5, <2>1 DEF PointerNowhere
  <2>3. seat' = [by |-> seat.by, at |-> seat.at,
                 down |-> SetButtons(seat.down, d, own.buttons, p.buttons)]
    BY <1>2, <2>2
  <2> HIDE DEF p
  <2>4. QED
    BY <1>2, <1>3, <2>1, <2>2, <2>3, PointerSet
<1>6. ASSUME NEW buttons \in SUBSET Buttons, NEW at \in Places, PointerTo(d, at, buttons)
      PROVE  PointersInv'
  <2> DEFINE p == [own EXCEPT !.aimed = at, !.buttons = buttons]
  <2>1. p \in PointerState /\ p.buttons = buttons /\ p.aimed = at
    BY <1>2 DEF PointerState
  <2>2. /\ pointers' = [pointers EXCEPT ![d] = p] /\ cursor' = d
        /\ seat' = [by |-> d, at |-> at,
                    down |-> SetButtons(seat.down, d, own.buttons, p.buttons)]
    BY <1>2, <1>6, <2>1 DEF PointerTo, PointerState
  <2> HIDE DEF p
  <2>3. QED
    BY <1>2, <1>3, <2>1, <2>2, PointerSet
<1>7. CASE Scroll(d)
  <2>1. SetButtons(seat.down, d, own.buttons, own.buttons) = seat.down
    BY <1>2 DEF SetButtons
  <2>2. PICK by \in Desks \cup {NoDesk}, at \in Places \cup {NoPlace} :
          /\ seat' = [seat EXCEPT !.by = by, !.at = at]
          /\ by = d /\ at = own.aimed /\ at # NoPlace
    <3>1. CASE cursor = d
      BY <1>2, <1>3, <1>7, <3>1 DEF Scroll
    <3>2. CASE cursor # d
      BY <1>2, <1>7, <3>2 DEF Scroll
    <3>3. QED
      BY <3>1, <3>2
  <2>3. seat' = [by |-> by, at |-> at,
                 down |-> SetButtons(seat.down, d, own.buttons, own.buttons)]
    BY <1>2, <2>1, <2>2
  <2>4. pointers' = [pointers EXCEPT ![d] = own] /\ cursor' = d
    BY <1>2, <1>7 DEF Scroll
  <2> HIDE DEF own
  <2>5. QED
    BY <1>2, <1>3, <2>2, <2>3, <2>4, PointerSet DEF own
<1>8. ASSUME NEW p \in PointerState, pointers' = [pointers EXCEPT ![d] = p],
             p.buttons = {}, ReleaseAll(d),
             \/ LeaveCursor(d)
             \/ cursor' = cursor /\ p.aimed = own.aimed
      PROVE  PointersInv'
  <2>1. seat' = [seat EXCEPT !.down = SetButtons(seat.down, d, own.buttons, p.buttons)]
    BY <1>2, <1>8 DEF ReleaseAll
  <2>2. seat' = [by |-> seat.by, at |-> seat.at,
                 down |-> SetButtons(seat.down, d, own.buttons, p.buttons)]
    BY <1>2, <2>1
  <2>3. /\ cursor' \in Desks \cup {NoDesk}
        /\ cursor' = d => seat.by = d /\ seat.at = p.aimed /\ seat.at # NoPlace
        /\ cursor' \notin {d, NoDesk} => cursor' = cursor
    BY <1>2, <1>3, <1>8 DEF LeaveCursor
  <2>4. QED
    BY <1>2, <1>8, <2>2, <2>3, PointerSet
<1>9. CASE Point(d) \/ Unpoint(d)
  <2>1. /\ NoPointer \in PointerState /\ NoPointer.buttons = {}
        /\ [NoPointer EXCEPT !.made = TRUE] \in PointerState
        /\ [NoPointer EXCEPT !.made = TRUE].buttons = {}
    BY DEF NoPointer, PointerState
  <2>2. QED
    BY <1>8, <1>9, <2>1 DEF Point, Unpoint
<1>10. CASE LetGoOfDesk(d)
  <2> DEFINE p == [own EXCEPT !.buttons = {}]
  <2>1. p \in PointerState /\ p.buttons = {} /\ p.aimed = own.aimed
    BY <1>2 DEF PointerState
  <2>2. pointers' = [pointers EXCEPT ![d] = p] /\ cursor' = cursor /\ ReleaseAll(d)
    BY <1>2, <1>10 DEF LetGoOfDesk
  <2> HIDE DEF p
  <2>3. QED
    BY <1>8, <2>1, <2>2
<1>11. QED
  BY <1>1, <1>4, <1>5, <1>6, <1>7, <1>9, <1>10

(* Each desk's pointer and the seat's cursor keep their types, and agree.  *)
THEOREM PointersSafe == InputsSpec => []PointersInv
<1>1. InputsInit => PointersInv
  BY DEF InputsInit, PointersInv, PointerTypeOK, ScrollsWhereAimed, NoPointer
<1>2. PointersInv /\ UNCHANGED inputsVars => PointersInv'
  BY DEF inputsVars, PointersInv, PointerTypeOK, ScrollsWhereAimed
<1>3. PointersInv /\ [InputsNext]_inputsVars => PointersInv'
  BY <1>2, PointerSteps, InputsAssumption
<1>4. QED
  BY <1>1, <1>3, PTL DEF InputsSpec

(* A scroll goes where the client of its desk last put the cursor, and a   *)
(* button is down for the client that holds it, on the output it was aimed *)
(* at: for any places and buttons, whoever moved the cursor since and      *)
(* whatever output either client took in between (input.rs).               *)
THEOREM ScrollsLand == InputsSpec => []ScrollsWhereAimed
<1>1. PointersInv => ScrollsWhereAimed
  BY DEF PointersInv
<1>2. QED
  BY <1>1, PointersSafe, PTL

-----------------------------------------------------------------------------
(* The microphone.  What waits is of the recording there is, never too     *)
(* much, and nothing plays of a buffer the last quantum found too little   *)
(* in, until the prefill is there.                                         *)

\* A Jitter that keeps what is of one recording, r.
Buffers(j, r) ==
  /\ j \in [plugged : BOOLEAN, queue : Seq(Nat), streaming : BOOLEAN, playing : BOOLEAN]
  /\ Len(j.queue) <= MAX_BUFFERED
  /\ \A i \in 1 .. Len(j.queue) : j.queue[i] = r

MicrophoneInv ==
  /\ recordings \in Nat
  /\ Buffers(jitter, recordings)
  /\ quantum.dry => ~jitter.playing
  /\ micUp \in Seq([plug : BOOLEAN, frames : Nat])

\* What is read of a sequence, and what is left.
LEMMA NextOfSeq ==
  ASSUME NEW S, NEW q \in Seq(S), q # <<>>
  PROVE  Tail(q) \in Seq(S) /\ q[1] \in S
OBVIOUS

\* The end of a sequence of one value holds no other.
LEMMA EndOf ==
  ASSUME NEW q \in Seq(Nat), NEW r \in Nat, \A i \in 1 .. Len(q) : q[i] = r,
         NEW k \in 0 .. Len(q)
  PROVE  /\ SubSeq(q, k + 1, Len(q)) \in Seq(Nat)
         /\ Len(SubSeq(q, k + 1, Len(q))) = Len(q) - k
         /\ \A i \in 1 .. Len(SubSeq(q, k + 1, Len(q))) : SubSeq(q, k + 1, Len(q))[i] = r
<1>1. Len(q) \in Nat /\ k \in Nat  OBVIOUS
<1>2. \A i \in k + 1 .. Len(q) : q[i] \in Nat  OBVIOUS
<1>3. /\ SubSeq(q, k + 1, Len(q)) \in Seq(Nat)
      /\ Len(SubSeq(q, k + 1, Len(q))) = Len(q) - k
  BY <1>1, <1>2
<1>4. \A i \in 1 .. Len(q) - k : SubSeq(q, k + 1, Len(q))[i] = q[i + k]
  BY <1>1
<1>5. \A i \in 1 .. Len(q) - k : i + k \in 1 .. Len(q)  BY <1>1
<1>. QED  BY <1>3, <1>4, <1>5

\* Jitter::push keeps the newest, of the recording there is.
LEMMA PushBuffers ==
  ASSUME NEW j, recordings \in Nat, Buffers(j, recordings), NEW n \in Nat
  PROVE  Buffers(Push(j, n), recordings) /\ Push(j, n).playing = j.playing
<1>1. PICK r \in Nat : r = recordings  OBVIOUS
<1>2. PICK q \in Seq(Nat) : q = j.queue  BY DEF Buffers
<1>3. PICK new : new = [i \in 1 .. n |-> r]  OBVIOUS
<1>4. new \in Seq(Nat) /\ Len(new) = n /\ \A i \in 1 .. n : new[i] = r  BY <1>3
<1>5. PICK all : all = q \o new  OBVIOUS
<1>6. all \in Seq(Nat) /\ Len(all) = Len(q) + n
  <2>1. q \o new \in Seq(Nat)  BY <1>4
  <2>2. Len(q \o new) = Len(q) + Len(new)  BY <1>4
  <2>. QED  BY <2>1, <2>2, <1>4, <1>5
<1>7. \A i \in 1 .. Len(all) : all[i] = r
  <2>1. TAKE i \in 1 .. Len(all)
  <2>2. CASE i <= Len(q)
    BY <2>1, <2>2, <1>1, <1>2, <1>4, <1>5, <1>6 DEF Buffers
  <2>3. CASE i > Len(q)
    <3>1. i - Len(q) \in 1 .. n /\ all[i] = new[i - Len(q)]
      BY <2>1, <2>3, <1>4, <1>5, <1>6
    <3>. QED  BY <3>1, <1>4
  <2>. QED  BY <2>2, <2>3, <2>1, <1>6
<1>8. PICK over : over = IF Len(all) > MAX_BUFFERED THEN Len(all) - MAX_BUFFERED ELSE 0
  OBVIOUS
<1>9. over \in 0 .. Len(all) /\ Len(all) - over <= MAX_BUFFERED
  BY <1>6, <1>8, MicrophoneAssumption
<1>10. PICK kept : kept = SubSeq(all, over + 1, Len(all))  OBVIOUS
<1>11. /\ kept \in Seq(Nat) /\ Len(kept) = Len(all) - over
       /\ \A i \in 1 .. Len(kept) : kept[i] = r
  BY <1>6, <1>7, <1>9, <1>10, EndOf
<1>12. Push(j, n) = IF j.streaming THEN [j EXCEPT !.queue = kept] ELSE j
  BY <1>1, <1>2, <1>3, <1>5, <1>8, <1>10 DEF Push
<1>13. j \in [plugged : BOOLEAN, queue : Seq(Nat), streaming : BOOLEAN, playing : BOOLEAN]
  BY DEF Buffers
<1>14. PICK f : f = [j EXCEPT !.queue = kept]  OBVIOUS
<1>15. /\ f \in [plugged : BOOLEAN, queue : Seq(Nat), streaming : BOOLEAN,
                 playing : BOOLEAN]
       /\ f.queue = kept /\ f.playing = j.playing
  BY <1>11, <1>13, <1>14
<1>16. Buffers(f, r) /\ f.playing = j.playing  BY <1>9, <1>11, <1>15 DEF Buffers
<1>. QED  BY <1>1, <1>12, <1>14, <1>16

\* Jitter::fill takes what it has of a quantum, or silence, and plays on only if
\* it had all of it.
LEMMA FilledBuffers ==
  ASSUME NEW j, NEW r \in Nat, Buffers(j, r), NEW n \in Nat
  PROVE  /\ Buffers(Filled(j, n), r)
         /\ Taken(j, n) < n => ~Filled(j, n).playing
         /\ ~j.playing /\ Taken(j, n) > 0 => Len(j.queue) >= PREFILL
<1>1. j \in [plugged : BOOLEAN, queue : Seq(Nat), streaming : BOOLEAN, playing : BOOLEAN]
  BY DEF Buffers
<1>2. PICK q \in Seq(Nat) : q = j.queue  BY <1>1
<1>3. Len(q) <= MAX_BUFFERED /\ \A i \in 1 .. Len(q) : q[i] = r
  BY <1>2 DEF Buffers
<1>4. PICK k : k = Taken(j, n)  OBVIOUS
<1>5. k \in 0 .. Len(q)  BY <1>2, <1>4 DEF Taken
<1>6. PICK rest : rest = SubSeq(q, k + 1, Len(q))  OBVIOUS
<1>7. /\ rest \in Seq(Nat) /\ Len(rest) = Len(q) - k
      /\ \A i \in 1 .. Len(rest) : rest[i] = r
  BY <1>3, <1>5, <1>6, EndOf
<1>8. PICK p \in BOOLEAN : p <=> (Playing(j) /\ k = n)  OBVIOUS
<1>9. PICK f : f = Filled(j, n)  OBVIOUS
<1>10. /\ f \in [plugged : BOOLEAN, queue : Seq(Nat), streaming : BOOLEAN,
                 playing : BOOLEAN]
       /\ f.queue = rest /\ (f.playing <=> Playing(j) /\ k = n)
  BY <1>1, <1>2, <1>4, <1>6, <1>7, <1>8, <1>9 DEF Filled
<1>11. Len(rest) <= MAX_BUFFERED
  BY <1>2, <1>3, <1>5, <1>7, MicrophoneAssumption
<1>12. Buffers(f, r)  BY <1>7, <1>10, <1>11 DEF Buffers
<1>13. Taken(j, n) < n => ~f.playing  BY <1>4, <1>5, <1>10
<1>14. ~j.playing /\ Taken(j, n) > 0 => Len(j.queue) >= PREFILL
  BY DEF Taken, Playing
<1>. QED  BY <1>9, <1>12, <1>13, <1>14

LEMMA EmptyBuffers ==
  ASSUME NEW r
  PROVE  /\ Buffers(New, r) /\ ~New.playing
         /\ Buffers(Gone, r) /\ ~Gone.playing
<1>1. Len(<<>>) = 0 /\ <<>> \in Seq(Nat) /\ MAX_BUFFERED \in Nat
  BY MicrophoneAssumption
<1>2. /\ Gone \in [plugged : BOOLEAN, queue : Seq(Nat), streaming : BOOLEAN,
                    playing : BOOLEAN]
      /\ Gone.queue = <<>> /\ ~Gone.playing
  BY <1>1 DEF Gone, New
<1>3. /\ New \in [plugged : BOOLEAN, queue : Seq(Nat), streaming : BOOLEAN,
                   playing : BOOLEAN]
      /\ New.queue = <<>> /\ ~New.playing
  BY <1>1 DEF New
<1>. QED  BY <1>1, <1>2, <1>3 DEF Buffers

LEMMA MicrophoneBegins == MicrophoneInit => MicrophoneInv
BY EmptyBuffers DEF MicrophoneInit, MicrophoneInv

GapIsWhole ==
  /\ quantum.dry /\ (\E n \in Sizes : MicProcess(n)) /\ quantum'.taken > 0
       => quantum'.held >= PREFILL
  /\ Len(jitter'.queue) <= MAX_BUFFERED
  /\ \A i \in 1 .. Len(jitter'.queue) : jitter'.queue[i] = recordings'

LEMMA MicrophoneStep ==
  ASSUME MicrophoneInv, [MicrophoneNext]_microphoneVars
  PROVE  MicrophoneInv'
<1>1. /\ recordings \in Nat /\ Buffers(jitter, recordings)
      /\ quantum.dry => ~jitter.playing
      /\ micUp \in Seq([plug : BOOLEAN, frames : Nat])
  BY DEF MicrophoneInv
<1>2. ASSUME NEW m \in [plug : BOOLEAN, frames : Nat], Sends(m) PROVE MicrophoneInv'
  BY <1>1, <1>2 DEF Sends, MicrophoneInv
<1>3. CASE MicPlugs \/ MicUnplugs
  <2>1. /\ [plug |-> TRUE, frames |-> 0] \in [plug : BOOLEAN, frames : Nat]
        /\ [plug |-> FALSE, frames |-> 0] \in [plug : BOOLEAN, frames : Nat]
    OBVIOUS
  <2>. QED  BY <1>2, <1>3, <2>1 DEF MicPlugs, MicUnplugs
<1>4. ASSUME NEW n \in Sizes, MicSample(n) PROVE MicrophoneInv'
  <2>1. [plug |-> FALSE, frames |-> n] \in [plug : BOOLEAN, frames : Nat]
    BY MicrophoneAssumption
  <2>. QED  BY <1>2, <1>4, <2>1 DEF MicSample
<1>5. CASE MicReads
  BY <1>1, <1>5 DEF MicReads, MicrophoneInv
<1>6. CASE MicHandle
  <2>1. micUp # <<>> /\ micUp' = Tail(micUp) /\ recordings' = recordings
    BY <1>6 DEF MicHandle
  <2>2. /\ micUp' \in Seq([plug : BOOLEAN, frames : Nat])
        /\ micUp[1] \in [plug : BOOLEAN, frames : Nat]
    BY <1>1, <2>1, NextOfSeq
  <2>3. CASE micUp[1].frames > 0
    <3>1. jitter' = Push(jitter, micUp[1].frames) /\ quantum' = quantum
      BY <1>6, <2>3 DEF MicHandle
    <3>2. PICK n \in Nat : n = micUp[1].frames  BY <2>2
    <3>3. Buffers(Push(jitter, n), recordings) /\ Push(jitter, n).playing = jitter.playing
      BY <1>1, PushBuffers
    <3>. QED  BY <1>1, <2>1, <2>2, <3>1, <3>2, <3>3 DEF MicrophoneInv
  <2>4. CASE ~(micUp[1].frames > 0)
    <3>1. jitter' \in {New, Gone}  BY <1>6, <2>4 DEF MicHandle
    <3>2. Buffers(jitter', recordings) /\ ~jitter'.playing
      BY <3>1, EmptyBuffers
    <3>. QED  BY <1>1, <2>1, <2>2, <3>2 DEF MicrophoneInv
  <2>. QED  BY <2>3, <2>4
<1>7. CASE MicState
  <2>1. PICK r \in Nat : r = recordings'  BY <1>1, <1>7 DEF MicState
  <2>2. jitter' = SetStreaming(jitter, ~jitter.streaming) /\ micUp' = micUp
    BY <1>7 DEF MicState
  <2>3. Len(<<>>) = 0 /\ <<>> \in Seq(Nat) /\ MAX_BUFFERED \in Nat
    BY MicrophoneAssumption
  <2>4. PICK b \in BOOLEAN : b <=> ~jitter.streaming  OBVIOUS
  <2>5. /\ jitter' \in [plugged : BOOLEAN, queue : Seq(Nat), streaming : BOOLEAN,
                        playing : BOOLEAN]
        /\ jitter'.queue = <<>> /\ ~jitter'.playing
    BY <1>1, <2>2, <2>3, <2>4 DEF SetStreaming, Buffers
  <2>6. Buffers(jitter', r) /\ ~jitter'.playing
    BY <2>3, <2>5 DEF Buffers
  <2>. QED  BY <1>1, <2>1, <2>2, <2>6 DEF MicrophoneInv
<1>8. ASSUME NEW n \in Sizes, MicProcess(n) PROVE MicrophoneInv'
  <2>1. n \in Nat  BY MicrophoneAssumption
  <2>2. /\ jitter' = Filled(jitter, n) /\ recordings' = recordings /\ micUp' = micUp
        /\ quantum'.dry <=> Taken(jitter, n) < n
    BY <1>8 DEF MicProcess
  <2>3. /\ Buffers(Filled(jitter, n), recordings)
        /\ Taken(jitter, n) < n => ~Filled(jitter, n).playing
    BY <1>1, <2>1, FilledBuffers
  <2>. QED  BY <1>1, <2>2, <2>3 DEF MicrophoneInv
<1>9. CASE UNCHANGED microphoneVars
  BY <1>1, <1>9 DEF microphoneVars, MicrophoneInv
<1>. QED
  BY <1>3, <1>4, <1>5, <1>6, <1>7, <1>8, <1>9 DEF MicrophoneNext

\* A quantum that follows one that was partly silent.
LEMMA GapStep ==
  ASSUME MicrophoneInv, MicrophoneInv'
  PROVE  GapIsWhole
<1>1. ASSUME quantum.dry, NEW n \in Sizes, MicProcess(n), quantum'.taken > 0
      PROVE  quantum'.held >= PREFILL
  <2>1. /\ ~jitter.playing /\ recordings \in Nat /\ Buffers(jitter, recordings) /\ n \in Nat
    BY <1>1, MicrophoneAssumption DEF MicrophoneInv
  <2>2. quantum'.taken = Taken(jitter, n) /\ quantum'.held = Len(jitter.queue)
    BY <1>1 DEF MicProcess
  <2>. QED  BY <1>1, <2>1, <2>2, FilledBuffers
<1>2. /\ Len(jitter'.queue) <= MAX_BUFFERED
      /\ \A i \in 1 .. Len(jitter'.queue) : jitter'.queue[i] = recordings'
  BY DEF MicrophoneInv, Buffers
<1>. QED  BY <1>1, <1>2 DEF GapIsWhole

\* What waits in the buffer is of the recording there is and no more than may be
\* kept, and after a dry quantum the buffer is not playing (Jitter::push, fill).
THEOREM MicrophoneSafe == MicrophoneSpec => []MicrophoneInv
BY MicrophoneBegins, MicrophoneStep, PTL DEF MicrophoneSpec

\* Of any sizes, a late sample is one gap and no stutter, and what waits is of
\* the recording there is and no more than may be kept (Jitter).
THEOREM LateIsOneGap == MicrophoneSpec => GapsAreWhole
<1>1. MicrophoneInv /\ MicrophoneInv' => [GapIsWhole]_microphoneVars
  BY GapStep
<1>. QED  BY <1>1, MicrophoneSafe, PTL DEF MicrophoneSpec, GapsAreWhole, GapIsWhole

-----------------------------------------------------------------------------
\* What holds at first and after each step holds at all of them: the least at
\* which it did not would have one before it.
LEMMA StepByStep ==
  ASSUME NEW S, NEW n \in Nat, 0 \in S, \A i \in 0 .. n - 1 : i \in S => i + 1 \in S
  PROVE  \A i \in 0 .. n : i \in S
<1>. DEFINE T == {j \in 0 .. n : j \notin S}
            R == {ss \in Nat \X Nat : ss[1] < ss[2]}
<1>1. SUFFICES ASSUME T # {} PROVE FALSE  OBVIOUS
<1>2. T \subseteq Nat  OBVIOUS
<1>3. IsWellFoundedOn(R, Nat)  BY NatLessThanWellFounded DEF OpToRel
<1>4. PICK x \in T : \A y \in T : ~ (<<y, x>> \in R)
  <2>. HIDE DEF T, R
  <2>. QED  BY ONLY <1>1, <1>2, <1>3, WFMin
<1>5. \A y \in T : ~ (y < x)  BY <1>2, <1>4
<1>6. x # 0 /\ x \in 0 .. n /\ x \notin S  OBVIOUS
<1>7. x - 1 \in 0 .. n - 1 /\ x - 1 \notin T  BY <1>5, <1>6
<1>8. x - 1 \in S  BY <1>7
<1>. QED  BY <1>6, <1>7, <1>8

-----------------------------------------------------------------------------
(* The keys.  What a desk left holds is let go of one after the other, so *)
(* the steps between are an induction over its keys.                        *)

Fixes == [shift : {"none", "pressed", "released"}, codes : SUBSET ShiftCodes]

KeysTypes ==
  [down : SUBSET Codes, held : SUBSET Codes, owners : [Desks -> SUBSET Codes],
   fixes : [Codes -> Fixes]]

(* What is down for what is held, as Shift was fixed.                      *)
Fits(down, held, fixes) ==
  /\ \A c \in Letters : c \in down <=> c \in held
  /\ \A c \in Codes : fixes[c].shift = "pressed" =>
       \A s, t \in fixes[c].codes : s = t
  /\ \A s \in down \cap ShiftCodes : s \in held \/
       \E l \in Letters \cap held : fixes[l].shift = "pressed" /\ s \in fixes[l].codes
  /\ \A s \in (ShiftCodes \cap held) \ down :
       \E l \in Letters \cap held : fixes[l].shift = "released" /\ s \in fixes[l].codes

KeysOk(k) == k \in KeysTypes /\ Fits(k.down, k.held, k.fixes)

\* A keycode is a letter's or a Shift key's.
LEMMA CodesApart ==
  /\ Codes = Letters \union ShiftCodes
  /\ \A c \in Codes : c \in Letters <=> c \notin ShiftCodes
  /\ Shifts # <<>> => Shifts[1] \in ShiftCodes
BY InputsAssumption DEF Codes, ShiftCodes, Range

\* fix_shift is one of three.
LEMMA FixShiftIs ==
  ASSUME NEW k \in KeysTypes, NEW code \in Codes, NEW level \in {0, 1}
  PROVE  \/ FixShift(k, code, level) = k
         \/ /\ code \in Letters
            /\ \E s \in ShiftCodes :
                 /\ k.down \cap ShiftCodes = {}
                 /\ FixShift(k, code, level) =
                      [k EXCEPT !.down = @ \union {s},
                                !.fixes = [@ EXCEPT ![code] = [shift |-> "pressed", codes |-> {s}]]]
         \/ /\ code \in Letters
            /\ FixShift(k, code, level) =
                 [k EXCEPT !.down = @ \ (ShiftCodes \cap k.held),
                           !.fixes = [@ EXCEPT ![code] =
                             [shift |-> "released", codes |-> ShiftCodes \cap k.held]]]
<1>1. CASE code \in ShiftCodes  BY <1>1 DEF FixShift
<1>2. CASE code \notin ShiftCodes /\ level = 1 /\ Level(k) = 0 /\ Shifts # <<>>
  <2>1. FixShift(k, code, level) = Fixed(k, code, "pressed", {Shifts[1]})
    BY <1>2 DEF FixShift
  <2>2. k.down \cap ShiftCodes = {}  BY <1>2 DEF Level
  <2>. QED  BY <1>2, <2>1, <2>2, CodesApart DEF Fixed, SendKeys, KeysTypes
<1>3. CASE code \notin ShiftCodes /\ level = 0 /\ Level(k) = 1 /\ ShiftCodes \cap k.held # {}
  <2>1. FixShift(k, code, level) = Fixed(k, code, "released", ShiftCodes \cap k.held)
    BY <1>3 DEF FixShift
  <2>. QED  BY <1>3, <2>1, CodesApart DEF Fixed, SendKeys, KeysTypes
<1>4. CASE /\ ~(level = 1 /\ Level(k) = 0 /\ Shifts # <<>>)
           /\ ~(level = 0 /\ Level(k) = 1 /\ ShiftCodes \cap k.held # {})
  BY <1>4 DEF FixShift
<1>. QED  BY <1>1, <1>2, <1>3, <1>4

\* A press keeps what is down as it is held, whichever way Shift is fixed.
LEMMA FixedFits ==
  ASSUME NEW D \in SUBSET Codes, NEW H \in SUBSET Codes, NEW F \in [Codes -> Fixes],
         Fits(D, H, F), NEW code \in Codes \ H
  PROVE  /\ Fits(D \union {code}, H \union {code}, F)
         /\ code \in Letters =>
              /\ \A s \in ShiftCodes : D \cap ShiftCodes = {} =>
                   Fits((D \union {s}) \union {code}, H \union {code},
                        [F EXCEPT ![code] = [shift |-> "pressed", codes |-> {s}]])
              /\ Fits((D \ (ShiftCodes \cap (H \union {code}))) \union {code}, H \union {code},
                      [F EXCEPT ![code] =
                         [shift |-> "released", codes |-> ShiftCodes \cap (H \union {code})]])
<1>1. Fits(D \union {code}, H \union {code}, F)
  BY CodesApart DEF Fits
<1>2. ASSUME code \in Letters, NEW s \in ShiftCodes, D \cap ShiftCodes = {}
      PROVE  Fits((D \union {s}) \union {code}, H \union {code},
                  [F EXCEPT ![code] = [shift |-> "pressed", codes |-> {s}]])
  <2>. DEFINE G == [F EXCEPT ![code] = [shift |-> "pressed", codes |-> {s}]]
  <2>1. G[code].shift = "pressed" /\ G[code].codes = {s}
    OBVIOUS
  <2>2. \A c \in Codes \ {code} : G[c] = F[c]  OBVIOUS
  <2>. HIDE DEF G
  <2>3. Fits((D \union {s}) \union {code}, H \union {code}, G)
    BY <1>2, <2>1, <2>2, CodesApart DEF Fits
  <2>. QED  BY <2>3 DEF G
<1>3. ASSUME code \in Letters
      PROVE  Fits((D \ (ShiftCodes \cap (H \union {code}))) \union {code}, H \union {code},
                  [F EXCEPT ![code] =
                     [shift |-> "released", codes |-> ShiftCodes \cap (H \union {code})]])
  <2>. DEFINE L == ShiftCodes \cap (H \union {code})
              G == [F EXCEPT ![code] = [shift |-> "released", codes |-> L]]
  <2>1. G[code].shift = "released" /\ G[code].codes = L
    OBVIOUS
  <2>2. \A c \in Codes \ {code} : G[c] = F[c]  OBVIOUS
  <2>. HIDE DEF G
  <2>3. Fits((D \ L) \union {code}, H \union {code}, G)
    BY <1>3, <2>1, <2>2, CodesApart DEF Fits
  <2>. QED  BY <2>3 DEF G
<1>. QED  BY <1>1, <1>2, <1>3

LEMMA PressKeeps ==
  ASSUME NEW k, KeysOk(k), NEW code \in Codes, NEW level \in {0, 1}
  PROVE  /\ KeysOk(Press(k, code, level))
         /\ Press(k, code, level).held = k.held \union {code}
         /\ Press(k, code, level).owners = k.owners
<1>1. CASE code \in k.held  BY <1>1 DEF Press, KeysOk, KeysTypes
<1>2. CASE code \notin k.held
  <2>. DEFINE h == [k EXCEPT !.held = @ \union {code}]
              f == FixShift(h, code, level)
  <2>1. /\ h \in KeysTypes /\ h.down = k.down /\ h.held = k.held \union {code}
        /\ h.fixes = k.fixes /\ h.owners = k.owners
    BY DEF KeysOk, KeysTypes
  <2>2. Press(k, code, level) = [f EXCEPT !.down = @ \union {code}]
    BY <1>2 DEF Press, SendKey
  <2>3. /\ k.down \in SUBSET Codes /\ k.held \in SUBSET Codes /\ k.fixes \in [Codes -> Fixes]
        /\ Fits(k.down, k.held, k.fixes) /\ k.owners \in [Desks -> SUBSET Codes]
    BY DEF KeysOk, KeysTypes
  <2>. HIDE DEF h
  <2>4. PICK D \in SUBSET Codes, G \in [Codes -> Fixes] :
          /\ Fits(D \union {code}, k.held \union {code}, G)
          /\ f = [h EXCEPT !.down = D, !.fixes = G]
    <3>1. \/ f = h
          \/ /\ code \in Letters
             /\ \E s \in ShiftCodes :
                  /\ k.down \cap ShiftCodes = {}
                  /\ f = [h EXCEPT !.down = @ \union {s},
                          !.fixes = [@ EXCEPT ![code] = [shift |-> "pressed", codes |-> {s}]]]
          \/ /\ code \in Letters
             /\ f = [h EXCEPT !.down = @ \ (ShiftCodes \cap h.held),
                     !.fixes = [@ EXCEPT ![code] =
                        [shift |-> "released", codes |-> ShiftCodes \cap h.held]]]
      <4>1. h.down = k.down /\ h \in KeysTypes  BY <2>1
      <4>2. \/ FixShift(h, code, level) = h
            \/ /\ code \in Letters
               /\ \E s \in ShiftCodes :
                    /\ h.down \cap ShiftCodes = {}
                    /\ FixShift(h, code, level) =
                         [h EXCEPT !.down = @ \union {s},
                            !.fixes = [@ EXCEPT ![code] = [shift |-> "pressed", codes |-> {s}]]]
            \/ /\ code \in Letters
               /\ FixShift(h, code, level) =
                    [h EXCEPT !.down = @ \ (ShiftCodes \cap h.held),
                       !.fixes = [@ EXCEPT ![code] =
                          [shift |-> "released", codes |-> ShiftCodes \cap h.held]]]
        BY ONLY <4>1, FixShiftIs, code \in Codes, level \in {0, 1}
      <4>. QED  BY ONLY <4>1, <4>2
    <3>. HIDE DEF f
    <3>2. CASE f = h
      <4>1. Fits(k.down \union {code}, k.held \union {code}, k.fixes)
        BY <1>2, <2>3, FixedFits
      <4>2. f = [h EXCEPT !.down = k.down, !.fixes = k.fixes]
        BY <2>1, <3>2 DEF KeysTypes
      <4>. QED  BY <2>3, <4>1, <4>2
    <3>3. ASSUME code \in Letters, NEW s \in ShiftCodes, k.down \cap ShiftCodes = {},
                 f = [h EXCEPT !.down = @ \union {s},
                         !.fixes = [@ EXCEPT ![code] = [shift |-> "pressed", codes |-> {s}]]]
          PROVE  \E D \in SUBSET Codes, G \in [Codes -> Fixes] :
                   /\ Fits(D \union {code}, k.held \union {code}, G)
                   /\ f = [h EXCEPT !.down = D, !.fixes = G]
      <4>. DEFINE G == [k.fixes EXCEPT ![code] = [shift |-> "pressed", codes |-> {s}]]
      <4>1. Fits((k.down \union {s}) \union {code}, k.held \union {code}, G)
        BY <1>2, <2>3, <3>3, FixedFits
      <4>2. G \in [Codes -> Fixes] /\ k.down \union {s} \in SUBSET Codes
        BY <2>3, <3>3, CodesApart DEF Fixes
      <4>3. f = [h EXCEPT !.down = k.down \union {s}, !.fixes = G]  BY <2>1, <3>3
      <4>. HIDE DEF G
      <4>. QED  BY <4>1, <4>2, <4>3
    <3>4. ASSUME code \in Letters,
                 f = [h EXCEPT !.down = @ \ (ShiftCodes \cap h.held),
                         !.fixes = [@ EXCEPT ![code] =
                            [shift |-> "released", codes |-> ShiftCodes \cap h.held]]]
          PROVE  \E D \in SUBSET Codes, G \in [Codes -> Fixes] :
                   /\ Fits(D \union {code}, k.held \union {code}, G)
                   /\ f = [h EXCEPT !.down = D, !.fixes = G]
      <4>. DEFINE L == ShiftCodes \cap (k.held \union {code})
                  G == [k.fixes EXCEPT ![code] = [shift |-> "released", codes |-> L]]
      <4>1. Fits((k.down \ L) \union {code}, k.held \union {code}, G)
        BY <1>2, <2>3, <3>4, FixedFits
      <4>2. G \in [Codes -> Fixes] /\ k.down \ L \in SUBSET Codes
        BY <2>3, <3>4, CodesApart DEF Fixes
      <4>3. f = [h EXCEPT !.down = k.down \ L, !.fixes = G]  BY <2>1, <3>4
      <4>. HIDE DEF G, L
      <4>. QED  BY <4>1, <4>2, <4>3
    <3>. QED  BY <3>1, <3>2, <3>3, <3>4
  <2>. HIDE DEF f
  <2>5. Press(k, code, level) = [h EXCEPT !.down = D \union {code}, !.fixes = G]
    BY <2>1, <2>2, <2>4 DEF KeysTypes
  <2>. QED  BY <2>1, <2>3, <2>4, <2>5 DEF KeysOk, KeysTypes
<1>. QED  BY <1>1, <1>2

\* A key let go of takes no other key's Shift with it.
LEMMA ReleaseKeeps ==
  ASSUME NEW k \in KeysTypes, NEW code \in k.held, Fits(k.down, k.held, k.fixes)
  PROVE  LET now == Release([k EXCEPT !.held = @ \ {code}], code)
         IN KeysOk(now) /\ now.held = k.held \ {code} /\ now.owners = k.owners
<1>. DEFINE h == [k EXCEPT !.held = @ \ {code}]
            kept == [c \in Codes |->
                       IF k.fixes[c].shift = "pressed" /\ code \in k.fixes[c].codes
                       THEN NoFix ELSE k.fixes[c]]
            G == [kept EXCEPT ![code] = NoFix]
            fix == kept[code]
            D == IF fix.shift = "pressed" THEN (k.down \ {code}) \ (fix.codes \ (k.held \ {code}))
                 ELSE IF fix.shift = "released"
                      THEN (k.down \ {code}) \union (fix.codes \cap (k.held \ {code}))
                 ELSE k.down \ {code}
<1>1. /\ k.down \in SUBSET Codes /\ k.held \in SUBSET Codes /\ k.fixes \in [Codes -> Fixes]
      /\ k.owners \in [Desks -> SUBSET Codes] /\ code \in Codes
  BY DEF KeysTypes
<1>2. /\ NoFix \in Fixes /\ kept \in [Codes -> Fixes] /\ G \in [Codes -> Fixes] /\ fix \in Fixes
  BY <1>1 DEF Fixes, NoFix
<1>3. /\ NoFix.shift = "none" /\ fix.codes \subseteq ShiftCodes
      /\ fix.shift \in {"none", "pressed", "released"}
  BY <1>2 DEF Fixes, NoFix
<1>4. Release(h, code) = [k EXCEPT !.held = k.held \ {code}, !.down = D, !.fixes = G]
  <2>1. h.fixes = k.fixes /\ h.held = k.held \ {code} /\ h.down = k.down
    BY DEF KeysTypes
  <2>2. CASE fix.shift = "pressed"
    BY <2>1, <2>2 DEF Release, SendKey, SendKeys, KeysTypes
  <2>3. CASE fix.shift = "released"
    BY <2>1, <2>3 DEF Release, SendKey, SendKeys, KeysTypes
  <2>4. CASE fix.shift = "none"
    BY <2>1, <2>4 DEF Release, SendKey, SendKeys, KeysTypes
  <2>. QED  BY <1>3, <2>2, <2>3, <2>4
<1>5. \A c \in Codes :
        /\ G[c].shift = "pressed" => c # code /\ G[c] = k.fixes[c] /\ code \notin G[c].codes
        /\ c # code /\ k.fixes[c].shift = "pressed" /\ code \notin k.fixes[c].codes =>
             G[c] = k.fixes[c]
        /\ c # code /\ k.fixes[c].shift = "released" => G[c] = k.fixes[c]
  BY <1>1, <1>3
<1>6. /\ fix.shift = "pressed" => fix = k.fixes[code]
      /\ k.fixes[code].shift = "released" => fix = k.fixes[code]
      /\ fix.shift = "released" => fix = k.fixes[code]
      /\ k.fixes[code].shift = "pressed" /\ code \notin k.fixes[code].codes =>
           fix = k.fixes[code]
  BY <1>1, <1>3
<1>7. D \in SUBSET Codes  BY <1>1, <1>3, CodesApart
<1>8. Fits(D, k.held \ {code}, G)
  <2>. HIDE DEF G, fix, kept
  <2>1. \A c \in Letters : c \in D <=> c \in k.held \ {code}
    BY <1>1, <1>3, CodesApart DEF Fits
  <2>2. \A c \in Codes : G[c].shift = "pressed" => \A s, t \in G[c].codes : s = t
    BY <1>5 DEF Fits
  <2>3. ASSUME NEW s \in D \cap ShiftCodes, s \notin k.held \ {code}
        PROVE  \E l \in Letters \cap (k.held \ {code}) : G[l].shift = "pressed" /\ s \in G[l].codes
    <3>1. s \in k.down /\ s # code  BY <2>3, <1>3
    <3>2. PICK l \in Letters \cap k.held : k.fixes[l].shift = "pressed" /\ s \in k.fixes[l].codes
      BY <2>3, <3>1 DEF Fits
    <3>3. code \notin k.fixes[l].codes
      BY <1>1, <3>1, <3>2 DEF Fits
    <3>4. l # code  BY <1>6, <2>3, <3>2, <3>3
    <3>. QED  BY <1>1, <1>5, <3>2, <3>3, <3>4
  <2>4. ASSUME NEW s \in (ShiftCodes \cap (k.held \ {code})) \ D
        PROVE  \E l \in Letters \cap (k.held \ {code}) : G[l].shift = "released" /\ s \in G[l].codes
    <3>1. s \notin k.down  BY <2>4
    <3>2. PICK l \in Letters \cap k.held : k.fixes[l].shift = "released" /\ s \in k.fixes[l].codes
      BY <2>4, <3>1 DEF Fits
    <3>3. l # code  BY <1>6, <2>4, <3>2
    <3>. QED  BY <1>1, <1>5, <3>2, <3>3
  <2>. HIDE DEF D
  <2>. QED  BY <2>1, <2>2, <2>3, <2>4 DEF Fits
<1>9. KeysOk([k EXCEPT !.held = k.held \ {code}, !.down = D, !.fixes = G])
  <2>. HIDE DEF D, G
  <2>. QED  BY <1>1, <1>2, <1>7, <1>8 DEF KeysOk, KeysTypes
<1>. HIDE DEF D, G
<1>. QED  BY <1>1, <1>4, <1>9 DEF KeysTypes

LEMMA LetGoKeeps ==
  ASSUME NEW k, KeysOk(k), NEW code \in Codes
  PROVE  /\ KeysOk(LetGo(k, code))
         /\ LetGo(k, code).held = k.held \ {code}
         /\ LetGo(k, code).owners = k.owners
<1>1. CASE code \in k.held  BY <1>1, ReleaseKeeps DEF LetGo, KeysOk
<1>2. CASE code \notin k.held
  <2>1. LetGo(k, code) = [k EXCEPT !.down = @ \ {code}]  BY <1>2 DEF LetGo, SendKey
  <2>2. Fits(k.down \ {code}, k.held, k.fixes)
    BY <1>2, CodesApart DEF KeysOk, Fits
  <2>. QED  BY <1>2, <2>1, <2>2 DEF KeysOk, KeysTypes
<1>. QED  BY <1>1, <1>2

\* A set in some order has each of it once.
LEMMA OrderIs ==
  ASSUME NEW S, IsFiniteSet(S), NEW order \in SetToSeqs(S)
  PROVE  /\ Len(order) \in Nat
         /\ \A i \in 1 .. Len(order) : order[i] \in S
         /\ \A c \in S : \E i \in 1 .. Len(order) : order[i] = c
         /\ S = {} => Len(order) = 0
<1>. DEFINE n == Cardinality(S)
<1>1. n \in Nat  BY FS_CardinalityType
<1>2. order \in [1 .. n -> S] /\ \A i, j \in 1 .. n : i # j => order[i] # order[j]
  BY DEF SetToSeqs
<1>3. order \in Seq(S) /\ Len(order) = n
  <2>. HIDE DEF n
  <2>. QED  BY <1>1, <1>2
<1>4. order \in Injection(1 .. n, S)  BY <1>2 DEF Injection, IsInjective
<1>5. IsFiniteSet(1 .. n) /\ Cardinality(1 .. n) = n
  <2>. HIDE DEF n
  <2>. QED  BY <1>1, FS_Interval
<1>6. order \in Surjection(1 .. n, S)  BY <1>4, <1>5, FS_Injection
<1>7. S = {} => n = 0  BY FS_EmptySet
<1>. HIDE DEF n
<1>. QED  BY <1>1, <1>2, <1>3, <1>6, <1>7 DEF Surjection

(* The keys as a desk left lets go of them, one after the other.            *)
Leaving(k, d, order, run) ==
  /\ run[0] = [k EXCEPT !.owners[d] = {}]
  /\ \A i \in 1 .. Len(order) : run[i] = UnlessOwned(run[i - 1], order[i])
  /\ DeskLeft(k, d, order) = run[Len(order)]

\* There are such keys: DeskLeft is defined.
LEMMA LeavingRuns ==
  ASSUME NEW k, NEW d, NEW order, Len(order) \in Nat
  PROVE  \E run : Leaving(k, d, order, run)
<1>. DEFINE n == Len(order)
            base == [k EXCEPT !.owners[d] = {}]
            Is(run, m) == run = [i \in 0 .. m |-> IF i = 0 THEN base
                                                  ELSE UnlessOwned(run[i - 1], order[i])]
            S == {m \in 0 .. n : \E run : Is(run, m)}
            chosen == CHOOSE run : Is(run, n)
<1>1. n \in Nat  OBVIOUS
<1>2. DeskLeft(k, d, order) = chosen[n]  BY DEF DeskLeft
<1>. HIDE DEF n, base
<1>3. 0 \in S
  <2>1. Is([i \in 0 .. 0 |-> base], 0)  OBVIOUS
  <2>. HIDE DEF Is
  <2>2. \E run : Is(run, 0)  BY <2>1
  <2>. QED  BY <1>1, <2>2
<1>4. ASSUME NEW m \in 0 .. n - 1, m \in S  PROVE m + 1 \in S
  <2>1. PICK run : Is(run, m)  BY <1>4
  <2>. DEFINE longer == [i \in 0 .. m + 1 |-> IF i <= m THEN run[i]
                                               ELSE UnlessOwned(run[m], order[m + 1])]
  <2>2. Is(longer, m + 1)
    <3>1. \A i \in 0 .. m + 1 : longer[i] = IF i = 0 THEN base
                                            ELSE UnlessOwned(longer[i - 1], order[i])
      <4>. SUFFICES ASSUME NEW i \in 0 .. m + 1
                    PROVE  longer[i] = IF i = 0 THEN base
                                       ELSE UnlessOwned(longer[i - 1], order[i])
        OBVIOUS
      <4>1. CASE i = m + 1
        <5>1. longer[i] = UnlessOwned(run[m], order[i]) /\ longer[m] = run[m] /\ i - 1 = m /\ i # 0
          BY <1>1, <4>1
        <5>. QED  BY <5>1
      <4>2. CASE i <= m /\ i # 0
        <5>1. longer[i] = run[i] /\ longer[i - 1] = run[i - 1]  BY <1>1, <4>2
        <5>2. run[i] = UnlessOwned(run[i - 1], order[i])  BY <1>1, <2>1, <4>2
        <5>. QED  BY <4>2, <5>1, <5>2
      <4>3. CASE i = 0  BY <1>1, <2>1, <4>3
      <4>. QED  BY <1>1, <4>1, <4>2, <4>3
    <3>. QED  BY <3>1
  <2>. HIDE DEF Is, longer
  <2>3. \E g : Is(g, m + 1)  BY <2>2
  <2>. QED  BY <1>1, <2>3
<1>5. n \in S
  <2>. HIDE DEF S
  <2>1. \A m \in 0 .. n - 1 : m \in S => m + 1 \in S  BY <1>4
  <2>2. \A m \in 0 .. n : m \in S  BY ONLY <1>1, <1>3, <2>1, StepByStep
  <2>. QED  BY <1>1, <2>2
<1>6. Is(chosen, n)
  <2>1. \E run : Is(run, n)  BY <1>5
  <2>. QED  BY <2>1
<1>. HIDE DEF chosen
<1>7. chosen[0] = base
  <2>1. 0 \in 0 .. n  BY <1>1
  <2>. QED  BY <1>6, <2>1
<1>8. ASSUME NEW i \in 1 .. n  PROVE chosen[i] = UnlessOwned(chosen[i - 1], order[i])
  <2>1. i \in 0 .. n /\ i # 0  BY <1>1
  <2>. QED  BY <1>6, <2>1
<1>. QED  BY <1>2, <1>7, <1>8 DEF n, base, Leaving

OthersOf(k, d) == UNION {k.owners[e] : e \in Desks \ {d}}

AllOwned(k) == UNION {k.owners[e] : e \in Desks}

LEMMA DeskLeftKeeps ==
  ASSUME NEW k, KeysOk(k), k.held = AllOwned(k), NEW d \in Desks,
         IsFiniteSet(k.owners[d]), NEW order \in SetToSeqs(k.owners[d])
  PROVE  LET now == DeskLeft(k, d, order)
         IN /\ KeysOk(now) /\ now.held = AllOwned(now)
            /\ now.owners = [k.owners EXCEPT ![d] = {}]
<1>. DEFINE n == Len(order)
            base == [k EXCEPT !.owners[d] = {}]
            O == OthersOf(k, d)
            LetGoOf(i) == {order[j] : j \in 1 .. i} \ O
<1>1. /\ n \in Nat /\ \A i \in 1 .. n : order[i] \in k.owners[d]
      /\ \A c \in k.owners[d] : \E i \in 1 .. n : order[i] = c
  BY OrderIs
<1>2. PICK run : /\ run[0] = base
                 /\ \A i \in 1 .. n : run[i] = UnlessOwned(run[i - 1], order[i])
                 /\ DeskLeft(k, d, order) = run[n]
  <2>1. PICK run : Leaving(k, d, order, run)  BY <1>1, LeavingRuns
  <2>. QED  BY <2>1 DEF Leaving
<1>3. /\ k.owners \in [Desks -> SUBSET Codes] /\ k.owners[d] \subseteq Codes
      /\ k.held = O \union k.owners[d]
  BY DEF KeysOk, KeysTypes, AllOwned, OthersOf
<1>4. base.owners = [k.owners EXCEPT ![d] = {}] /\ base.held = k.held /\ KeysOk(base)
  BY <1>3 DEF KeysOk, KeysTypes
<1>. DEFINE o == [k.owners EXCEPT ![d] = {}]
            S == {i \in 0 .. n : /\ KeysOk(run[i]) /\ run[i].owners = o
                                 /\ run[i].held = k.held \ LetGoOf(i)}
<1>5. \A q : q.owners = o => (\A c : Owned(q, c) <=> c \in O)
  <2>1. \A e \in Desks : o[e] = IF e = d THEN {} ELSE k.owners[e]  BY <1>3
  <2>. HIDE DEF o
  <2>. QED  BY <2>1 DEF Owned, OthersOf
<1>6. 0 \in S
  <2>1. run[0] = base /\ LetGoOf(0) = {}  BY <1>1, <1>2
  <2>. HIDE DEF base, LetGoOf
  <2>. QED  BY <1>1, <1>4, <2>1
<1>7. ASSUME NEW i \in 0 .. n - 1, i \in S  PROVE i + 1 \in S
  <2>1. /\ run[i + 1] = UnlessOwned(run[i], order[i + 1]) /\ order[i + 1] \in Codes
        /\ i + 1 \in 0 .. n
    <3>1. i \in Int /\ i + 1 \in 1 .. n /\ i + 1 # 0 /\ (i + 1) - 1 = i  BY <1>1
    <3>. HIDE DEF base, n
    <3>. QED  BY <1>1, <1>2, <1>3, <3>1
  <2>2. LetGoOf(i + 1) = LetGoOf(i) \union ({order[i + 1]} \ O)
    <3>1. 1 .. i + 1 = (1 .. i) \union {i + 1}  BY <1>1
    <3>. QED  BY <3>1
  <2>3. KeysOk(run[i]) /\ run[i].owners = o /\ run[i].held = k.held \ LetGoOf(i)
    BY <1>7
  <2>. HIDE DEF LetGoOf, o, O
  <2>4. CASE order[i + 1] \in O
    BY <1>5, <2>1, <2>2, <2>3, <2>4 DEF UnlessOwned
  <2>5. CASE order[i + 1] \notin O
    <3>1. run[i + 1] = LetGo(run[i], order[i + 1])
      BY <1>5, <2>1, <2>3, <2>5 DEF UnlessOwned
    <3>2. /\ KeysOk(run[i + 1]) /\ run[i + 1].held = run[i].held \ {order[i + 1]}
          /\ run[i + 1].owners = run[i].owners
      BY <2>1, <2>3, <3>1, LetGoKeeps
    <3>. QED  BY <2>1, <2>2, <2>3, <2>5, <3>2
  <2>. QED  BY <2>4, <2>5
<1>8. n \in S
  <2>. HIDE DEF S, n
  <2>1. \A i \in 0 .. n - 1 : i \in S => i + 1 \in S  BY <1>7
  <2>2. n \in Nat  BY <1>1
  <2>3. \A i \in 0 .. n : i \in S  BY ONLY <1>6, <2>1, <2>2, StepByStep
  <2>. QED  BY <2>2, <2>3
<1>9. k.held \ LetGoOf(n) = O
  BY <1>1, <1>3
<1>10. AllOwned(run[n]) = O
  <2>1. run[n].owners = o  BY <1>8
  <2>2. \A e \in Desks : o[e] = IF e = d THEN {} ELSE k.owners[e]  BY <1>3
  <2>. HIDE DEF o, n
  <2>. QED  BY <2>1, <2>2 DEF AllOwned, OthersOf
<1>. QED  BY <1>2, <1>8, <1>9, <1>10

\* With nothing held nothing more is let go of.
LEMMA NothingHeld ==
  ASSUME NEW k \in KeysTypes, k.held = {}, NEW rest \in SetToSeqs(k.held)
  PROVE  ReleaseHeld(k, rest) = k
<1>. DEFINE base == [k EXCEPT !.held = {}]
            Is(after) == after = [i \in 0 .. Len(rest) |->
                                    IF i = 0 THEN base ELSE Release(after[i - 1], rest[i])]
            chosen == CHOOSE after : Is(after)
<1>1. Len(rest) = 0  BY OrderIs, FS_EmptySet
<1>2. ReleaseHeld(k, rest) = chosen[0]  BY <1>1 DEF ReleaseHeld
<1>3. base = k  BY DEF KeysTypes
<1>. HIDE DEF base
<1>4. Is([i \in 0 .. 0 |-> base])  BY <1>1
<1>5. Is(chosen)
  <2>. HIDE DEF Is
  <2>1. \E after : Is(after)  BY <1>4
  <2>. QED  BY <2>1
<1>. HIDE DEF chosen
<1>6. chosen[0] = base
  <2>1. 0 \in 0 .. Len(rest)  BY <1>1
  <2>. QED  BY <1>5, <2>1
<1>. QED  BY <1>2, <1>3, <1>6

(* The keys down are those held and Shift as it was fixed for them, and    *)
(* what is held is what the desks hold.                                    *)
KeysInv ==
  /\ KeysOk(keys) /\ keys.held = AllOwned(keys)
  /\ \A d \in Desks : IsFiniteSet(keys.owners[d])

LEMMA KeysBegin == InputsInit => KeysInv
<1>. SUFFICES ASSUME InputsInit PROVE KeysInv  OBVIOUS
<1>1. keys = [down |-> {}, held |-> {}, owners |-> [d \in Desks |-> {}],
              fixes |-> [c \in Codes |-> NoFix]]
  BY DEF InputsInit
<1>2. keys \in KeysTypes  BY <1>1 DEF KeysTypes, NoFix, Fixes
<1>3. Fits(keys.down, keys.held, keys.fixes)  BY <1>1 DEF Fits, NoFix
<1>4. \A d \in Desks : keys.owners[d] = {}  BY <1>1
<1>. QED  BY <1>1, <1>2, <1>3, <1>4, FS_EmptySet DEF KeysInv, KeysOk, AllOwned

LEMMA KeyKeeps ==
  ASSUME KeysInv, NEW d \in Desks, NEW keysym \in Keysyms, NEW down \in BOOLEAN,
         Key(d, keysym, down)
  PROVE  KeysInv'
<1>. DEFINE code == keysym[1]
            o == [keys.owners EXCEPT ![d] = IF down THEN @ \union {code} ELSE @ \ {code}]
            k == [keys EXCEPT !.owners = o]
<1>1. code \in Codes /\ keysym[2] \in {0, 1}  BY CodesApart DEF Keysyms
<1>2. /\ keys \in KeysTypes /\ keys.owners \in [Desks -> SUBSET Codes]
      /\ keys.held = AllOwned(keys) /\ Fits(keys.down, keys.held, keys.fixes)
      /\ \A e \in Desks : IsFiniteSet(keys.owners[e])
  BY DEF KeysInv, KeysOk, KeysTypes
<1>3. /\ o \in [Desks -> SUBSET Codes]
      /\ o[d] = IF down THEN keys.owners[d] \union {code} ELSE keys.owners[d] \ {code}
      /\ \A e \in Desks \ {d} : o[e] = keys.owners[e]
  BY <1>1, <1>2
<1>4. \A e \in Desks : IsFiniteSet(o[e])
  <2>1. IsFiniteSet(keys.owners[d])  BY <1>2
  <2>2. IsFiniteSet(keys.owners[d] \union {code}) /\ IsFiniteSet(keys.owners[d] \ {code})
    BY ONLY <2>1, FS_AddElement, FS_RemoveElement
  <2>3. IsFiniteSet(o[d])
    <3>. HIDE DEF o, code
    <3>. QED  BY <1>3, <2>2
  <2>. HIDE DEF o
  <2>. QED  BY <1>2, <1>3, <2>3
<1>5. keys' = IF down THEN Press(k, code, keysym[2])
              ELSE IF Owned(k, code) THEN k ELSE LetGo(k, code)
  BY DEF Key
<1>. HIDE DEF o, code
<1>6. KeysOk(k) /\ k.held = keys.held /\ k.owners = o
  BY <1>2, <1>3 DEF KeysOk, KeysTypes
<1>. HIDE DEF k
<1>7. CASE down
  <2>1. keys' = Press(k, code, keysym[2])  BY <1>5, <1>7
  <2>2. KeysOk(keys') /\ keys'.held = keys.held \union {code} /\ keys'.owners = o
    BY <1>1, <1>6, <2>1, PressKeeps
  <2>3. AllOwned(keys') = keys.held \union {code}
    BY <1>2, <1>3, <1>7, <2>2 DEF AllOwned
  <2>. QED  BY <1>4, <2>2, <2>3 DEF KeysInv, AllOwned
<1>8. CASE ~down /\ Owned(k, code)
  <2>1. keys' = k  BY <1>5, <1>8
  <2>2. \E e \in Desks : code \in o[e]  BY <1>6, <1>8 DEF Owned
  <2>3. AllOwned(k) = keys.held  BY <1>2, <1>3, <1>6, <1>8, <2>2 DEF AllOwned
  <2>. QED  BY <1>4, <1>6, <2>1, <2>3 DEF KeysInv, AllOwned
<1>9. CASE ~down /\ ~Owned(k, code)
  <2>1. keys' = LetGo(k, code)  BY <1>5, <1>9
  <2>2. \A e \in Desks : code \notin o[e]  BY <1>6, <1>9 DEF Owned
  <2>3. KeysOk(keys') /\ keys'.held = keys.held \ {code} /\ keys'.owners = o
    BY <1>1, <1>6, <2>1, LetGoKeeps
  <2>4. AllOwned(keys') = keys.held \ {code}
    BY <1>2, <1>3, <1>9, <2>2, <2>3 DEF AllOwned
  <2>. QED  BY <1>4, <2>3, <2>4 DEF KeysInv, AllOwned
<1>. QED  BY <1>7, <1>8, <1>9

LEMMA ReleaseAllKeeps ==
  ASSUME KeysInv, NEW d \in Desks, ReleaseAll(d)
  PROVE  KeysInv'
<1>1. PICK order \in SetToSeqs(keys.owners[d]) :
        LET left == DeskLeft(keys, d, order)
        IN IF \E c \in Codes : Owned(left, c) THEN keys' = left
           ELSE \E rest \in SetToSeqs(left.held) : keys' = ReleaseHeld(left, rest)
  BY DEF ReleaseAll
<1>. DEFINE left == DeskLeft(keys, d, order)
<1>2. /\ KeysOk(keys) /\ keys.held = AllOwned(keys) /\ IsFiniteSet(keys.owners[d])
      /\ \A e \in Desks : IsFiniteSet(keys.owners[e])
      /\ keys.owners \in [Desks -> SUBSET Codes]
  BY DEF KeysInv, KeysOk, KeysTypes
<1>3. /\ KeysOk(left) /\ left.held = AllOwned(left)
      /\ left.owners = [keys.owners EXCEPT ![d] = {}]
  BY <1>2, DeskLeftKeeps
<1>4. \A e \in Desks : IsFiniteSet(left.owners[e])
  <2>1. \A e \in Desks : left.owners[e] = IF e = d THEN {} ELSE keys.owners[e]
    BY <1>2, <1>3
  <2>. HIDE DEF left
  <2>. QED  BY <1>2, <2>1, FS_EmptySet
<1>5. keys' = left
  <2>1. CASE \E c \in Codes : Owned(left, c)  BY <1>1, <2>1
  <2>2. CASE ~ \E c \in Codes : Owned(left, c)
    <3>1. PICK rest \in SetToSeqs(left.held) : keys' = ReleaseHeld(left, rest)
      BY <1>1, <2>2
    <3>. HIDE DEF left
    <3>2. left \in KeysTypes /\ left.held \subseteq Codes
      BY <1>3 DEF KeysOk, KeysTypes
    <3>3. left.held = {}
      BY <1>3, <2>2, <3>2 DEF AllOwned, Owned
    <3>. QED  BY <3>1, <3>2, <3>3, NothingHeld
  <2>. QED  BY <2>1, <2>2
<1>. HIDE DEF left
<1>. QED  BY <1>3, <1>4, <1>5 DEF KeysInv, AllOwned

LEMMA KeysStep == KeysInv /\ [InputsNext]_inputsVars => KeysInv'
<1>. SUFFICES ASSUME KeysInv, [InputsNext]_inputsVars PROVE KeysInv'  OBVIOUS
<1>1. CASE UNCHANGED inputsVars
  BY <1>1 DEF inputsVars, KeysInv, AllOwned
<1>2. ASSUME NEW d \in Desks, NEW keysym \in Keysyms, NEW down \in BOOLEAN,
             Key(d, keysym, down)
      PROVE  KeysInv'
  BY <1>2, KeyKeeps
<1>3. ASSUME NEW d \in Desks, Point(d) \/ LetGoOfDesk(d) \/ Unpoint(d)
      PROVE  KeysInv'
  BY <1>3, ReleaseAllKeeps DEF Point, LetGoOfDesk, Unpoint
<1>4. ASSUME NEW d \in Desks, NEW buttons,
             \/ PointerNowhere(d, buttons)
             \/ \E at \in Places : PointerTo(d, at, buttons)
             \/ Scroll(d)
      PROVE  KeysInv'
  <2>1. keys' = keys  BY <1>4 DEF PointerNowhere, PointerTo, Scroll
  <2>. QED  BY <2>1 DEF KeysInv, AllOwned
<1>. QED  BY <1>1, <1>2, <1>3, <1>4 DEF InputsNext

(* What is down and held stands as the clients hold it.                    *)
THEOREM KeysSafe == InputsSpec => []KeysInv
BY KeysBegin, KeysStep, PTL DEF InputsSpec

(* Whatever two clients press, repeat, let go of and leave held, a key     *)
(* that types is down exactly while one of them holds it, and Shift only   *)
(* while it is held or was pressed for a key still held (input.rs).        *)
THEOREM KeysAreHeld == InputsSpec => []KeysAreTheClients
<1>1. KeysInv => KeysAreTheClients
  <2>. SUFFICES ASSUME KeysInv PROVE KeysAreTheClients  OBVIOUS
  <2>1. /\ Fits(keys.down, keys.held, keys.fixes) /\ keys.held = AllOwned(keys)
        /\ keys.down \subseteq Codes
    BY DEF KeysInv, KeysOk, KeysTypes
  <2>2. keys.down \cap Letters = AllOwned(keys) \cap Letters
    BY <2>1 DEF Fits
  <2>3. keys.down \cap ShiftCodes \subseteq keys.held \union PressedFor
    <3>. SUFFICES ASSUME NEW s \in keys.down \cap ShiftCodes, s \notin keys.held
                  PROVE  s \in PressedFor
      OBVIOUS
    <3>1. PICK l \in Letters \cap keys.held :
            keys.fixes[l].shift = "pressed" /\ s \in keys.fixes[l].codes
      BY <2>1 DEF Fits
    <3>. QED  BY <3>1 DEF PressedFor
  <2>4. \A s \in (ShiftCodes \cap keys.held) \ keys.down :
          \E l \in Letters \cap keys.held :
            keys.fixes[l].shift = "released" /\ s \in keys.fixes[l].codes
    BY <2>1 DEF Fits
  <2>. QED  BY <2>1, <2>2, <2>3, <2>4 DEF KeysAreTheClients, AllOwned
<1>. QED  BY <1>1, KeysSafe, PTL
=============================================================================
