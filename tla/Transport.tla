------------------------------- MODULE Transport -------------------------------
(* How a client's messages reach the session: the handshake that chooses and sets *)
(* up the transport (session.rs), RSA-AES's exchange and frames at both ends      *)
(* (rfb/rsa_aes.rs), and the incremental parse of what comes out (rfb/msg.rs).    *)
(* TCP hands over any piece of what is in flight; a byte may arrive damaged, and  *)
(* the client's end may be gone at any point.                                     *)
(*                                                                                *)
(* A byte is <<what it is, its place, of what>>.  A clear message of the exchange *)
(* is one, as nothing reads part of it.  Cryptography is symbolic: a sealed byte  *)
(* names key, counter, header and body, a hash what it is of.                     *)
EXTENDS Integers, SequencesExt, TLC

CONSTANTS
  Offers,          \* What a server may be configured to offer: sets of types.
  Accounts,        \* What the client may log in with: name and password lengths.
  Wants,           \* Which credentials the login asks for: 1 or 2.
  Speech,          \* What the client may say: sequences of messages.
  MAX_FRAME_BODY,  \* The most in a frame: 8192 in the code.
  TAG,             \* A frame's tag: 16 in the code,
  HASH,            \* and the exchange's hash: 20 or 32.
  MaxHarm          \* Bound: bytes that arrive damaged.

TransportAssumption ==
  /\ MAX_FRAME_BODY \in 1..255 /\ TAG \in Nat \ {0} /\ HASH \in Nat \ {0}
  /\ Wants \subseteq {1, 2} /\ MaxHarm \in Nat
ASSUME TransportAssumption

VARIABLES
  offered,  \* What this server offers, and the credentials it wants.
  stage,    \* Where each end is,
  inFlight, \* the bytes on their way to it,
  sealers,  \* its sending direction and
  openers,  \* its receiving one, once there are keys,
  taken,    \* and what it has been given of what it is reading.
  learnt,   \* What each knows of the exchange.
  credentials, \* What the client logs in with, and what the server has read.
  said,     \* The messages the client has sent of those it means to,
  handled,  \* and those the session has handled.
  harm      \* The bytes damaged.

transportVars == <<offered, stage, inFlight, sealers, openers, taken, learnt,
                   credentials, said, handled, harm>>

Sides == {"server", "client"}
Other(e) == CHOOSE o \in Sides : o # e

NONE == [of |-> "nobody"]
HEADER == 2

-------------------------------------------------------------------------------
(* Frames. *)

\* An end's sealed form of a body: the length, then ciphertext and tag.
Header(n) == <<<<"length", 1, n \div 256>>, <<"length", 2, n % 256>>>>
Seal(key, counter, header, body) ==
  [i \in 1..(Len(body) + TAG) |-> <<"sealed", i, <<key, counter, header, body>>>>]

\* The bodies that a header and what follows it open to: one, or none.
Open(key, counter, header, sealed) ==
  LET named == {s[3][4] : s \in {t \in ToSet(sealed) : t[1] = "sealed"}}
  IN  {b \in named : sealed = Seal(key, counter, header, b)}

Bump(counter) == counter + 1

NewSealer(key) == [key |-> key, counter |-> 0]
NewOpener(key) == [key |-> key, counter |-> 0, staging |-> <<>>, body |-> <<>>]

\* A message's frames.
FrameOf(sealer, body) ==
  LET header == Header(Len(body))
  IN  header \o Seal(sealer.key, sealer.counter, header, body)

Chunks(message) ==
  [i \in 1..((Len(message) + MAX_FRAME_BODY - 1) \div MAX_FRAME_BODY) |->
     SubSeq(message, (i - 1) * MAX_FRAME_BODY + 1,
            IF i * MAX_FRAME_BODY < Len(message) THEN i * MAX_FRAME_BODY ELSE Len(message))]

\* A message as it goes out, and the sealer after it.
Framed(sealer, message) ==
  IF sealer = NONE THEN [out |-> message, sealer |-> NONE]
  ELSE FoldLeft(LAMBDA f, body : [out    |-> f.out \o FrameOf(f.sealer, body),
                                  sealer |-> [f.sealer EXCEPT !.counter = Bump(@)]],
                [out |-> <<>>, sealer |-> sealer], Chunks(message))

\* How many bytes of the frame in flight an opener still wants.
StillOfFrame(o) ==
  (IF Len(o.staging) < HEADER THEN HEADER
   ELSE HEADER + TAG + 256 * o.staging[1][3] + o.staging[2][3]) - Len(o.staging)

\* An opener that has been given these: a complete frame is opened, or fails.
FilledWith(o, bytes) ==
  LET with == [o EXCEPT !.staging = @ \o bytes]
      open == Open(o.key, o.counter, SubSeq(with.staging, 1, HEADER),
                   SubSeq(with.staging, HEADER + 1, Len(with.staging)))
  IN  IF StillOfFrame(with) > 0 THEN [opener |-> with, failed |-> FALSE]
      ELSE IF open = {} THEN [opener |-> with, failed |-> TRUE]
      ELSE [opener |-> [key |-> o.key, counter |-> Bump(o.counter),
                        staging |-> <<>>, body |-> CHOOSE b \in open : TRUE],
            failed |-> FALSE]

-------------------------------------------------------------------------------
(* Messages: what tells a message's length and how many bytes that takes, the     *)
(* bytes before its elements, and how long and how many those may be.             *)

\* The session's, of a length the type alone or a count tells.
CoreShapes == [
  SetPixelFormat           |-> [known |-> 1, fixed |-> 20, each |-> 0,  most |-> 0],
  SetEncodings             |-> [known |-> 4, fixed |-> 4,  each |-> 4,  most |-> 65535],
  FramebufferUpdateRequest |-> [known |-> 1, fixed |-> 10, each |-> 0,  most |-> 0],
  KeyEvent                 |-> [known |-> 1, fixed |-> 8,  each |-> 0,  most |-> 0],
  PointerEvent             |-> [known |-> 1, fixed |-> 6,  each |-> 0,  most |-> 0],
  CutText                  |-> [known |-> 8, fixed |-> 8,  each |-> 1,  most |-> 16777216],
  EnableContinuousUpdates  |-> [known |-> 1, fixed |-> 10, each |-> 0,  most |-> 0],
  Fence                    |-> [known |-> 9, fixed |-> 9,  each |-> 1,  most |-> 64],
  SetDesktopSize           |-> [known |-> 8, fixed |-> 8,  each |-> 16, most |-> 255],
  ClientDensity            |-> [known |-> 1, fixed |-> 10, each |-> 0,  most |-> 0],
  Scroll                   |-> [known |-> 1, fixed |-> 6,  each |-> 0,  most |-> 0],
  CacheEmpty               |-> [known |-> 1, fixed |-> 1,  each |-> 0,  most |-> 0]]
\* The desktop's list, and the devices: each extension has one type for its operations.
OutputShapes == [Outputs |-> [known |-> 8, fixed |-> 8,  each |-> 0,  most |-> 0]]
AudioShapes == [
  AudioSwitch  |-> [known |-> 4, fixed |-> 4,  each |-> 0,  most |-> 0],
  AudioFormat  |-> [known |-> 4, fixed |-> 10, each |-> 0,  most |-> 0],
  AudioBitrate |-> [known |-> 4, fixed |-> 8,  each |-> 0,  most |-> 0]]
CameraShapes == [
  CameraPlug   |-> [known |-> 4, fixed |-> 16, each |-> 0,  most |-> 0],
  DeviceUnplug |-> [known |-> 4, fixed |-> 4,  each |-> 0,  most |-> 0],
  CameraSample |-> [known |-> 8, fixed |-> 8,  each |-> 1,  most |-> 4194304]]
MicrophoneShapes == [
  MicrophonePlug   |-> [known |-> 4, fixed |-> 4,  each |-> 0,  most |-> 0],
  MicrophoneSample |-> [known |-> 8, fixed |-> 8,  each |-> 1,  most |-> 262144]]
Shape == CoreShapes @@ OutputShapes @@ AudioShapes @@ CameraShapes @@ MicrophoneShapes

\* A message is its kind, how many elements it says it has, and whether its
\* fields are ones the parse accepts.
LengthOf(m) == Shape[m.kind].fixed + Shape[m.kind].each * m.count
TooLong(m)  == m.count > Shape[m.kind].most

\* Its bytes: a client that says too much sends no more than says so.
BytesOf(m) ==
  [i \in 1..(IF TooLong(m) THEN Shape[m.kind].fixed ELSE LengthOf(m)) |-> <<"message", i, m>>]

(* Mutant: a message is there once its length is known. *)
ParseHeaderOnly(buf) ==
  IF buf = <<>> THEN [is |-> "more"]
  ELSE IF buf[1][2] # 1 THEN [is |-> "error"]
  ELSE LET m == buf[1][3]
       IN  IF Len(buf) < Shape[m.kind].known THEN [is |-> "more"]
           ELSE IF TooLong(m) \/ ~m.good THEN [is |-> "error"]
           ELSE [is |-> "message", used |-> IF LengthOf(m) < Len(buf) THEN LengthOf(m) ELSE Len(buf)]

\* parse: the message at the front of what has been read.
Parse(buf) ==
  IF buf = <<>> THEN [is |-> "more"]
  ELSE IF buf[1][2] # 1 THEN [is |-> "error"]
  ELSE LET m == buf[1][3]
       IN  IF Len(buf) < Shape[m.kind].known THEN [is |-> "more"]
           ELSE IF TooLong(m) THEN [is |-> "error"]
           ELSE IF Len(buf) < LengthOf(m) THEN [is |-> "more"]
           ELSE IF ~m.good THEN [is |-> "error"]
           ELSE [is |-> "message", used |-> LengthOf(m)]

RECURSIVE Consumed(_, _)
\* What pump handles of its buffer, what it leaves there and whether it goes on.
Consumed(buf, done) ==
  LET next == Parse(buf)
  IN  CASE next.is = "more"    -> [handled |-> done, left |-> buf, on |-> TRUE]
        [] next.is = "error"   -> [handled |-> done, left |-> buf, on |-> FALSE]
        [] next.is = "message" ->
             Consumed(SubSeq(buf, next.used + 1, Len(buf)),
                      Append(done, SubSeq(buf, 1, next.used)))

-------------------------------------------------------------------------------
(* Reading and writing, at either end. *)

Hash(first, second) == [i \in 1..HASH |-> <<"hash", i, <<first, second>>>>]

Field(n) == <<<<"length", 1, n>>>> \o [i \in 1..n |-> <<"text", i, n>>]

\* How long what an end is reading is, as far as it knows; pump reads any amount.
Credential(bytes) == IF bytes = <<>> THEN 1 ELSE 1 + bytes[1][3]
Whole(e) ==
  CASE stage[e] = "hash" -> HASH
    [] stage[e] \in {"subtype", "ClientInit"} -> 1
    [] stage[e] \in {"username", "password"} -> Credential(taken[e])
    [] stage[e] = "pump" -> Len(taken[e]) + Len(inFlight[e]) + MAX_FRAME_BODY
    [] OTHER -> 0

Missing(e) == Whole(e) - Len(taken[e])

Ready(e, s) == stage[e] = s /\ Missing(e) = 0

Lesser2(a, b) == IF a < b THEN a ELSE b

\* An end sends this as it is, or as its channel carries it.
WriteClear(e, bytes) == inFlight' = [inFlight EXCEPT ![Other(e)] = @ \o bytes]
Write(e, sealer, message) ==
  LET f == Framed(sealer, message)
  IN  /\ WriteClear(e, f.out)
      /\ sealers' = [sealers EXCEPT ![e] = f.sealer]

Goes(e, s)  == stage' = [stage EXCEPT ![e] = s]
Reads(e, s) == Goes(e, s) /\ taken' = [taken EXCEPT ![e] = <<>>]

\* An end has read a message of the exchange, in the clear.
Clear(e, s, what) ==
  /\ stage[e] = s /\ inFlight[e] # <<>>
  /\ Head(inFlight[e])[1] = what
\* and answers it with that, or does not.
Answers(e, bytes) ==
  inFlight' = [inFlight EXCEPT ![e] = Tail(@), ![Other(e)] = @ \o bytes]

\* The opener of an end fills its frame with a piece of what is in flight.
Fill(e) ==
  /\ openers[e] # NONE /\ openers[e].body = <<>> /\ Missing(e) > 0 /\ inFlight[e] # <<>>
  /\ \E n \in 1..Lesser2(StillOfFrame(openers[e]), Len(inFlight[e])) :
       LET f == FilledWith(openers[e], SubSeq(inFlight[e], 1, n))
       IN  /\ inFlight' = [inFlight EXCEPT ![e] = SubSeq(@, n + 1, Len(@))]
           /\ openers' = [openers EXCEPT ![e] = f.opener]
           /\ stage' = IF f.failed THEN [stage EXCEPT ![e] = "over"] ELSE stage
  /\ UNCHANGED <<offered, sealers, taken, learnt, credentials, said, handled, harm>>

\* What an end is given goes to what it is reading; pump handles what that completes.
Given(e, bytes) ==
  LET got == taken[e] \o bytes
      all == Consumed(got, handled)
  IN  IF stage[e] # "pump" THEN taken' = [taken EXCEPT ![e] = got] /\ UNCHANGED <<stage, handled>>
      ELSE /\ taken' = [taken EXCEPT ![e] = all.left]
           /\ handled' = all.handled
           /\ stage' = IF all.on THEN stage ELSE [stage EXCEPT ![e] = "over"]

\* A read is given some of an opened body, or of what arrived where nothing is sealed.
TakeOpened(e) ==
  /\ openers[e] # NONE /\ openers[e].body # <<>> /\ Missing(e) > 0
  /\ LET body == openers[e].body
     IN  \E n \in IF stage[e] = "pump" THEN 1..Len(body) ELSE {Lesser2(Missing(e), Len(body))} :
           /\ Given(e, SubSeq(body, 1, n))
           /\ openers' = [openers EXCEPT ![e].body = SubSeq(@, n + 1, Len(@))]
  /\ UNCHANGED <<offered, inFlight, sealers, learnt, credentials, said, harm>>

TakePlain(e) ==
  /\ openers[e] = NONE /\ Missing(e) > 0 /\ inFlight[e] # <<>>
  /\ \E n \in 1..Lesser2(Missing(e), Len(inFlight[e])) :
       /\ Given(e, SubSeq(inFlight[e], 1, n))
       /\ inFlight' = [inFlight EXCEPT ![e] = SubSeq(@, n + 1, Len(@))]
  /\ UNCHANGED <<offered, sealers, openers, learnt, credentials, said, harm>>

\* The other end is gone, and all it sent has been read.
StreamEnds(e) ==
  /\ Missing(e) > 0 \/ stage[e] \in {"version", "type", "key", "random"}
  /\ stage[Other(e)] = "over" /\ inFlight[e] = <<>>
  /\ openers[e] # NONE => openers[e].body = <<>>
  /\ Goes(e, "over")
  /\ UNCHANGED <<offered, inFlight, sealers, openers, taken, learnt, credentials,
                 said, handled, harm>>

-------------------------------------------------------------------------------
(* The server: handshake, and in it authenticate. *)

SERVER_KEY == "server's key"
SHORT_KEY  == "short key"   \* One whose bits are out of bounds.
Version(v) == <<<<"version", 1, v>>>>
WireKey(k) == <<<<"key", 1, k>>>>
Sealed(k, random) == <<<<"random", 1, <<k, random>>>>>>
Types(s)  == <<<<"types", 1, s>>>>
Result(r) == <<<<"result", 1, r>>>>

ReadVersion ==
  /\ Clear("server", "version", "version")
  /\ IF Head(inFlight["server"])[3] = "3.8"
     THEN Answers("server", Types(offered.types)) /\ Goes("server", "type")
     ELSE Answers("server", Types({})) /\ Goes("server", "over")
  /\ UNCHANGED <<offered, sealers, openers, taken, learnt, credentials, said, handled, harm>>

ReadType ==
  /\ Clear("server", "type", "type")
  /\ LET chosen == Head(inFlight["server"])[3]
     IN  CASE chosen \notin offered.types ->
                Answers("server", Result("failed")) /\ Goes("server", "over")
           [] chosen \in offered.types /\ chosen = "None" ->
                Answers("server", Result("ok")) /\ Goes("server", "ClientInit")
           [] chosen \in offered.types /\ chosen # "None" ->
                Answers("server", WireKey(SERVER_KEY)) /\ Goes("server", "key")
  /\ UNCHANGED <<offered, sealers, openers, taken, learnt, credentials, said, handled, harm>>

ReadPeerKey ==
  /\ Clear("server", "key", "key")
  /\ LET key == Head(inFlight["server"])[3]
     IN  IF key # SHORT_KEY
         THEN /\ Answers("server", Sealed(key, "server's random"))
              /\ learnt' = [learnt EXCEPT !["server"].key = key]
              /\ Goes("server", "random")
         ELSE /\ Answers("server", <<>>)
              /\ Goes("server", "over")
              /\ UNCHANGED learnt
  /\ UNCHANGED <<offered, sealers, openers, taken, credentials, said, handled, harm>>

\* A random that does not decrypt is replaced, and the exchange goes on.
OpenClientRandom(sealed) == IF sealed[1] = SERVER_KEY THEN sealed[2] ELSE "substitute"

ReadClientRandom ==
  /\ Clear("server", "random", "random")
  /\ LET client == OpenClientRandom(Head(inFlight["server"])[3])
         f == Framed(NewSealer(<<client, "server's random">>),
                     Hash(SERVER_KEY, learnt["server"].key))
     IN  /\ Answers("server", f.out)
         /\ sealers' = [sealers EXCEPT !["server"] = f.sealer]
         /\ openers' = [openers EXCEPT !["server"] = NewOpener(<<"server's random", client>>)]
         /\ Goes("server", "hash")
  /\ UNCHANGED <<offered, taken, learnt, credentials, said, handled, harm>>

ReadClientHash ==
  /\ Ready("server", "hash")
  /\ IF taken["server"] = Hash(learnt["server"].key, SERVER_KEY)
     THEN /\ Write("server", sealers["server"], <<<<"subtype", 1, offered.wants>>>>)
          /\ Reads("server", "username")
     ELSE Goes("server", "over") /\ UNCHANGED <<inFlight, sealers, taken>>
  /\ UNCHANGED <<offered, openers, learnt, credentials, said, handled, harm>>

ReadUsername ==
  /\ Ready("server", "username")
  /\ credentials' = [credentials EXCEPT !.username = taken["server"]]
  /\ Reads("server", "password")
  /\ UNCHANGED <<offered, inFlight, sealers, openers, learnt, said, handled, harm>>

\* With the password the exchange is over; the opener goes to the session's reader.
ReadPassword ==
  /\ Ready("server", "password")
  /\ credentials' = [credentials EXCEPT !.password = taken["server"]]
  /\ Reads("server", "login")
  /\ UNCHANGED <<offered, inFlight, sealers, openers, learnt, said, handled, harm>>

CheckLogin ==
  /\ stage["server"] = "login"
  /\ \/ Write("server", sealers["server"], Result("ok")) /\ Goes("server", "ClientInit")
     \/ Write("server", sealers["server"], Result("failed")) /\ Goes("server", "over")
  /\ UNCHANGED <<offered, openers, taken, learnt, credentials, said, handled, harm>>

ReadClientInit ==
  /\ Ready("server", "ClientInit")
  /\ Reads("server", "pump")
  /\ UNCHANGED <<offered, inFlight, sealers, openers, learnt, credentials, said, handled, harm>>

HandshakeTimesOut ==
  /\ stage["server"] \notin {"pump", "over"}
  /\ Goes("server", "over")
  /\ UNCHANGED <<offered, inFlight, sealers, openers, taken, learnt, credentials,
                 said, handled, harm>>

-------------------------------------------------------------------------------
(* The client: begin and login are the code's own, the rest is any client's. *)

ClientVersion ==
  /\ Clear("client", "version", "version")
  /\ \E v \in {"3.8", "3.3"} : Answers("client", Version(v))
  /\ Goes("client", "type")
  /\ UNCHANGED <<offered, sealers, openers, taken, learnt, credentials, said, handled, harm>>

ClientType ==
  /\ Clear("client", "type", "types")
  /\ \E t \in {"None", "RA2_256"} :
       /\ Answers("client", <<<<"type", 1, t>>>>)
       /\ Goes("client", IF t = "None" THEN "init" ELSE "key")
  /\ UNCHANGED <<offered, sealers, openers, taken, learnt, credentials, said, handled, harm>>

BeginKey ==
  /\ Clear("client", "key", "key")
  /\ LET key == Head(inFlight["client"])[3]
     IN  IF key = SHORT_KEY
         THEN Answers("client", <<>>) /\ Goes("client", "over") /\ UNCHANGED learnt
         ELSE /\ Answers("client", WireKey(learnt["client"].own))
              /\ learnt' = [learnt EXCEPT !["client"].key = key]
              /\ Goes("client", "random")
  /\ UNCHANGED <<offered, sealers, openers, taken, credentials, said, handled, harm>>

BeginRandom ==
  /\ Clear("client", "random", "random")
  /\ LET sealed == Head(inFlight["client"])[3]
         server == sealed[2]
     IN  IF sealed[1] # learnt["client"].own
         THEN Answers("client", <<>>) /\ Goes("client", "over") /\ UNCHANGED <<sealers, openers>>
         ELSE /\ Answers("client", Sealed(learnt["client"].key, "client's random"))
              /\ sealers' = [sealers EXCEPT !["client"] = NewSealer(<<server, "client's random">>)]
              /\ openers' = [openers EXCEPT !["client"] = NewOpener(<<"client's random", server>>)]
              /\ Goes("client", "hash")
  /\ UNCHANGED <<offered, taken, learnt, credentials, said, handled, harm>>

BeginHash ==
  /\ Ready("client", "hash")
  /\ IF taken["client"] = Hash(learnt["client"].key, learnt["client"].own)
     THEN /\ Write("client", sealers["client"], Hash(learnt["client"].own, learnt["client"].key))
          /\ Reads("client", "subtype")
     ELSE Goes("client", "over") /\ UNCHANGED <<inFlight, sealers, taken>>
  /\ UNCHANGED <<offered, openers, learnt, credentials, said, handled, harm>>

CLIENT_INIT == <<<<"ClientInit", 1, 1>>>>

\* The subtype, and the answer to it; another client's may have ClientInit on its heels.
Login ==
  /\ Ready("client", "subtype")
  /\ LET names == taken["client"][1][3] = 1
     IN  \E behind \in {<<>>, CLIENT_INIT} :
           /\ Write("client", sealers["client"],
                    Field(IF names THEN credentials.account[1] ELSE 0)
                      \o Field(credentials.account[2]) \o behind)
           /\ Reads("client", IF behind = <<>> THEN "init" ELSE "says")
  /\ UNCHANGED <<offered, openers, learnt, credentials, said, handled, harm>>

\* A client may say all it means to before it has heard how the login went.
ClientInit ==
  /\ stage["client"] = "init"
  /\ Write("client", sealers["client"], CLIENT_INIT)
  /\ Goes("client", "says")
  /\ UNCHANGED <<offered, openers, taken, learnt, credentials, said, handled, harm>>

Says ==
  /\ stage["client"] = "says" /\ said.n < Len(said.all)
  /\ Write("client", sealers["client"], BytesOf(said.all[said.n + 1]))
  /\ said' = [said EXCEPT !.n = @ + 1]
  /\ UNCHANGED <<offered, stage, openers, taken, learnt, credentials, handled, harm>>

ClientGoes ==
  /\ stage["client"] # "over"
  /\ Goes("client", "over")
  /\ UNCHANGED <<offered, inFlight, sealers, openers, taken, learnt, credentials,
                 said, handled, harm>>

\* A byte that arrives as another, of a frame or of the exchange before them.
Damaged(b) ==
  CASE b[1] = "sealed" -> {<<"harmed", 0, 0>>}
    [] b[1] = "length" -> {[b EXCEPT ![3] = n] : n \in {0, 1, b[3] + 1} \ {b[3]}}
    [] b[1] = "key"    -> {[b EXCEPT ![3] = k] : k \in {SHORT_KEY, "another key"}}
    [] b[1] = "random" -> {[b EXCEPT ![3] = <<"nobody's key", "nobody's random">>]}
    [] OTHER           -> {}

Harms ==
  /\ harm < MaxHarm
  /\ \E e \in Sides : \E i \in DOMAIN inFlight[e] : \E b \in Damaged(inFlight[e][i]) :
       inFlight' = [inFlight EXCEPT ![e][i] = b]
  /\ harm' = harm + 1
  /\ UNCHANGED <<offered, stage, sealers, openers, taken, learnt, credentials, said, handled>>

-------------------------------------------------------------------------------
TransportInit ==
  /\ offered \in [types : Offers, wants : Wants]
  /\ stage = [e \in Sides |-> "version"]
  /\ inFlight = [server |-> <<>>, client |-> Version("3.8")]
  /\ sealers = [e \in Sides |-> NONE] /\ openers = [e \in Sides |-> NONE]
  /\ taken = [e \in Sides |-> <<>>]
  /\ \E k \in {"client's key", SHORT_KEY} :
       learnt = [server |-> [own |-> SERVER_KEY, key |-> "no key"],
                 client |-> [own |-> k, key |-> "no key"]]
  /\ \E a \in Accounts : credentials = [account |-> a, username |-> <<>>, password |-> <<>>]
  /\ \E s \in Speech : said = [all |-> s, n |-> 0]
  /\ handled = <<>> /\ harm = 0

TransportNext ==
  \/ \E e \in Sides : Fill(e) \/ TakeOpened(e) \/ TakePlain(e) \/ StreamEnds(e)
  \/ ReadVersion \/ ReadType \/ ReadPeerKey \/ ReadClientRandom \/ ReadClientHash
  \/ ReadUsername \/ ReadPassword \/ CheckLogin \/ ReadClientInit \/ HandshakeTimesOut
  \/ ClientVersion \/ ClientType \/ BeginKey \/ BeginRandom \/ BeginHash \/ Login
  \/ ClientInit \/ Says \/ ClientGoes \/ Harms

-------------------------------------------------------------------------------
\* An end waits for bytes, and there are none.
WaitsForBytes(e) ==
  /\ Missing(e) > 0 \/ stage[e] \in {"version", "type", "key", "random"}
  /\ inFlight[e] = <<>>
  /\ openers[e] # NONE => openers[e].body = <<>>

(* What the client says is handled as it said it and in order, whole messages     *)
(* and nothing else, however the stream was cut and whatever was damaged; and all *)
(* of it once everything that arrived has been read, what came with the           *)
(* credentials included.  The login sees the credentials the client gave, and in  *)
(* an exchange nothing was done to the two ends never wait for each other.        *)
MessagesArrive ==
  /\ Len(handled) <= said.n
  /\ \A i \in DOMAIN handled : handled[i] = BytesOf(said.all[i])
  /\ /\ harm = 0 /\ WaitsForBytes("server")
     /\ \/ stage["server"] = "pump"
        \/ stage["server"] = "ClientInit" /\ stage["client"] = "says"
     => stage["server"] = "pump" /\ Len(handled) = said.n /\ taken["server"] = <<>>
  /\ (openers["server"] # NONE /\ stage["server"] \in {"login", "ClientInit", "pump"}) =>
       /\ credentials.username = Field(IF offered.wants = 1 THEN credentials.account[1] ELSE 0)
       /\ credentials.password = Field(credentials.account[2])
  /\ harm = 0 => \E e \in Sides : ~WaitsForBytes(e)
================================================================================
