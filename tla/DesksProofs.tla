----------------------------- MODULE DesksProofs -----------------------------
(***************************************************************************)
(* The safety of Desks, for any clients, outputs and configuration: every  *)
(* variable has its type, who is on the desks is what the seats say, a     *)
(* display beside is that of the client on the desktop, an ended           *)
(* connection stays ended; Desks implements Desktop; and of its outputs,   *)
(* which the desks share, that the list says so, and that a desk is        *)
(* captured while it is watched and holds what it shares.                  *)
(***************************************************************************)
EXTENDS Desks, TLAPS

SeatsType == [holder      : Clients \cup {Nobody},
              beside      : Clients \cup {Nobody},
              besideEnded : Clients \cup {Nobody}]

ListType == [active  : [Desk -> Outputs \cup {NoOutput}],
             entries : SUBSET Outputs]

-----------------------------------------------------------------------------
(* What the operators Desks is built from return.                          *)

LEMMA StartedType ==
  ASSUME NEW k \in DeskState, NEW outs \in SUBSET Outputs
  PROVE  /\ Started(k, outs) \in DeskState
         /\ Started(k, outs).client = k.client
         /\ Started(k, outs).selected = k.selected
BY DEF Started, DeskState, Frame, NoFrame

LEMMA StoppedType ==
  ASSUME NEW k \in DeskState
  PROVE  /\ Stopped(k) \in DeskState
         /\ Stopped(k).client = k.client
         /\ Stopped(k).selected = k.selected
BY DEF Stopped, DeskState, Frame

LEMMA EmptyDeskType == EmptyDesk \in DeskState
BY DEF EmptyDesk, DeskState, Frame, NoFrame

LEMMA ListingType ==
  ASSUME NEW D \in [Desk -> DeskState],
         NEW outs \in SUBSET Outputs, NEW ready \in SUBSET Outputs
  PROVE  Listing(D, outs, ready) \in ListType
BY DEF Listing, ListType, DeskState

LEMMA BesideEndedType ==
  ASSUME NEW D \in [Desk -> DeskState]
  PROVE  /\ BesideEnded(D) \in [Desk -> DeskState]
         /\ BesideEnded(D)[FIRST] = D[FIRST]
BY EmptyDeskType DEF BesideEnded, Desk, FIRST, BESIDE

LEMMA EndSeatType ==
  ASSUME NEW s \in SeatsType, NEW id \in Clients
  PROVE  EndSeat(s, id) \in SeatsType
BY DEF EndSeat, SeatsType

LEMMA SeatsBesideEndedType ==
  ASSUME TypeOK
  PROVE  SeatsBesideEnded \in SeatsType
<1>1. seats \in SeatsType
  BY DEF TypeOK, SeatsType
<1>2. desks[BESIDE].client \in Clients \cup {Nobody}
  BY DEF TypeOK, DeskState, Desk
<1>3. QED
  BY <1>1, <1>2, EndSeatType DEF SeatsBesideEnded

LEMMA FirstIsIn ==
  ASSUME NEW S \in SUBSET Outputs, S # {}
  PROVE  First(S) \in S
BY OutputsAssumption DEF First

LEMMA AdoptableIsIn ==
  ASSUME NEW S \in SUBSET Outputs, S # {}
  PROVE  Adoptable(S) \in S
BY FirstIsIn DEF Adoptable

LEMMA MovedType ==
  ASSUME NEW k \in DeskState, NEW o \in Outputs
  PROVE  /\ [k EXCEPT !.selected = o, !.picture = Blank] \in DeskState
         /\ [k EXCEPT !.selected = o, !.picture = Blank].client = k.client
         /\ [k EXCEPT !.selected = o, !.picture = Blank].selected = o
BY DEF DeskState

LEMMA SharedType ==
  ASSUME TypeOK,
         NEW d \in Desk, NEW o \in Outputs, NEW outs \in SUBSET Outputs
  PROVE  /\ Shared(d, o, outs) \in [Desk -> DeskState]
         /\ SeatsShared(d, o) \in SeatsType
<1>1. PICK D : /\ D = IF TakesFromBeside(d, o) THEN BesideEnded(desks) ELSE desks
               /\ D \in [Desk -> DeskState]
  BY BesideEndedType DEF TypeOK
<1>2. [Stopped(D[d]) EXCEPT !.selected = o, !.picture = Blank] \in DeskState
  BY <1>1, StoppedType, MovedType
<1>3. Shared(d, o, outs) \in [Desk -> DeskState]
  BY <1>1, <1>2, StartedType DEF Shared
<1>4. SeatsShared(d, o) \in SeatsType
  BY SeatsBesideEndedType DEF SeatsShared, TypeOK, SeatsType
<1>5. QED
  BY <1>3, <1>4

LEMMA ReceivedType ==
  ASSUME TypeOK, NEW type, Received(type)
  PROVE  /\ commands' \in Seq(Command)
         /\ session' = session
         /\ Head(commands) \in Command
         /\ Head(commands).client \in Clients
         /\ type = "SelectOutput" => Head(commands).output \in Outputs
<1>1. Head(commands) \in Command /\ commands' \in Seq(Command)
  BY DEF TypeOK, Received
<1>2. QED
  BY <1>1 DEF Received, Command

LEMMA ListBesideEndedType ==
  ASSUME TypeOK, desks' \in [Desk -> DeskState], ListBesideEnded
  PROVE  displays' \in ListType
<1>1. Listing(desks', outputs, done) \in ListType
  BY ListingType DEF TypeOK
<1>2. QED
  BY <1>1 DEF ListBesideEnded, TypeOK, ListType

(* A session that only sends a command leaves the compositor thread's      *)
(* state as it is.                                                         *)
LEMMA SendType ==
  ASSUME TypeOK,
         session' \in [Clients -> {"connecting", "first", "beside", "gone"}],
         NEW c \in Command, Send(c)
  PROVE  TypeOK'
BY DEF TypeOK, Send

LEMMA CaptureType ==
  ASSUME TypeOK, NEW d \in Desk, NEW k \in DeskState, Capture(d, k)
  PROVE  TypeOK'
BY DEF TypeOK, Capture, Desk

-----------------------------------------------------------------------------
(* Every variable keeps its type: in particular an output is listed only   *)
(* while the compositor has it.                                            *)
LEMMA TypeInit == Init => TypeOK
<1> SUFFICES ASSUME Init PROVE TypeOK
  OBVIOUS
<1>1. PICK o \in outputs :
        /\ desks = [d \in Desk |-> IF d = FIRST
                                   THEN [EmptyDesk EXCEPT !.selected = o]
                                   ELSE EmptyDesk]
        /\ displays = [active  |-> [d \in Desk |-> IF d = FIRST THEN o
                                                                ELSE NoOutput],
                       entries |-> outputs]
  BY DEF Init
<1>2. o \in Outputs /\ outputs \subseteq Outputs /\ done = outputs
  BY DEF Init
<1>3. [EmptyDesk EXCEPT !.selected = o] \in DeskState
  BY <1>2, EmptyDeskType DEF DeskState
<1>4. desks \in [Desk -> DeskState]
  BY <1>1, <1>3, EmptyDeskType
<1>5. displays \in [active : [Desk -> Outputs \cup {NoOutput}], entries : SUBSET Outputs]
  BY <1>1, <1>2
<1>6. session \in [Clients -> {"connecting", "first", "beside", "gone"}]
  BY DEF Init
<1>7. commands \in Seq(Command)
  BY DEF Init
<1>8. seats \in SeatsType
  BY DEF Init, SeatsType
<1>9. QED
  BY <1>2, <1>4, <1>5, <1>6, <1>7, <1>8 DEF Init, TypeOK, SeatsType

LEMMA TypeNext == TypeOK /\ [Next]_vars => TypeOK'
<1> SUFFICES ASSUME TypeOK, [Next]_vars PROVE TypeOK'
  OBVIOUS
<1>1. ASSUME NEW c \in Clients, Join(c) PROVE TypeOK'
  BY <1>1, SendType DEF Join, TypeOK, Command
<1>2. ASSUME NEW c \in Clients, JoinBeside(c) PROVE TypeOK'
  BY <1>2, SendType DEF JoinBeside, TypeOK, Command
<1>3. ASSUME NEW c \in Clients, Leave(c) PROVE TypeOK'
  BY <1>3, SendType DEF Leave, TypeOK, Command
<1>4. ASSUME NEW c \in Clients, Superseded(c) PROVE TypeOK'
  BY <1>3, <1>4 DEF Superseded
<1>5. ASSUME NEW c \in Clients, NEW o \in Outputs, Ask(c, o) PROVE TypeOK'
  BY <1>5, SendType DEF Ask, TypeOK, Command
<1>6. CASE ClientJoined
  <2> DEFINE c == Head(commands).client
             D == IF desks[FIRST].client # Nobody THEN BesideEnded(desks) ELSE desks
             S == IF desks[FIRST].client # Nobody THEN SeatsBesideEnded ELSE seats
  <2>1. Received("ClientJoined")
    BY <1>6 DEF ClientJoined
  <2>2. c \in Clients
    BY <2>1, ReceivedType
  <2>3. D \in [Desk -> DeskState] /\ S \in SeatsType
    BY BesideEndedType, SeatsBesideEndedType DEF TypeOK, SeatsType
  <2>4. [D[FIRST] EXCEPT !.client = c] \in DeskState
    BY <2>2, <2>3 DEF DeskState, Desk
  <2>5. desks' = [D EXCEPT ![FIRST] = Started([D[FIRST] EXCEPT !.client = c], outputs)]
    BY <1>6 DEF ClientJoined
  <2>6. desks' \in [Desk -> DeskState]
    BY <2>3, <2>4, <2>5, StartedType DEF TypeOK
  <2>7. seats' = [S EXCEPT !.holder = c]
    BY <1>6 DEF ClientJoined
  <2>8. seats' \in SeatsType
    BY <2>2, <2>3, <2>7 DEF SeatsType
  <2>9. displays' \in ListType
    BY <1>6, <2>6, ListBesideEndedType DEF ClientJoined
  <2>10. QED
    BY <1>6, <2>1, <2>6, <2>8, <2>9, ReceivedType
    DEF ClientJoined, TypeOK, SeatsType, ListType
<1>7. CASE RefuseBeside
  <2>1. Received("BesideJoined") /\ seats' = EndSeat(seats, Head(commands).client)
    BY <1>7 DEF RefuseBeside
  <2>2. seats' \in SeatsType
    BY <2>1, ReceivedType, EndSeatType DEF TypeOK, SeatsType
  <2>3. QED
    BY <1>7, <2>1, <2>2, ReceivedType DEF RefuseBeside, TypeOK, SeatsType
<1>8. CASE BesideJoined
  <2> DEFINE c == Head(commands).client
             D == BesideEnded(desks)
             S == SeatsBesideEnded
             o == First(Others)
  <2>1. Received("BesideJoined")
    BY <1>8 DEF BesideJoined
  <2>2. c \in Clients
    BY <2>1, ReceivedType
  <2>3. D \in [Desk -> DeskState] /\ S \in SeatsType
    BY BesideEndedType, SeatsBesideEndedType DEF TypeOK
  <2>4. CASE Others = {}
    <3>1. desks' = D /\ seats' = EndSeat(S, c) /\ ListBesideEnded
      BY <1>8, <2>4 DEF BesideJoined
    <3>2. seats' \in SeatsType
      BY <2>2, <2>3, <3>1, EndSeatType
    <3>3. displays' \in ListType
      BY <2>3, <3>1, ListBesideEndedType
    <3>4. QED
      BY <1>8, <2>1, <2>3, <3>1, <3>2, <3>3, ReceivedType
      DEF BesideJoined, TypeOK, SeatsType, ListType
  <2>5. CASE Others # {}
    <3> DEFINE k == [D[BESIDE] EXCEPT !.client   = c,
                                      !.selected = o,
                                      !.picture  = Blank,
                                      !.frame    = NoFrame,
                                      !.timer    = FALSE]
    <3>1. /\ desks' = [D EXCEPT ![BESIDE] = Started(k, outputs)]
          /\ seats' = [S EXCEPT !.beside = c]
          /\ displays' = Listing(desks', outputs, done)
      BY <1>8, <2>5 DEF BesideJoined
    <3>2. o \in Outputs
      BY <2>5, FirstIsIn, Others \in SUBSET Outputs DEF Others, TypeOK
    <3>3. k \in DeskState
      BY <2>2, <2>3, <3>2 DEF DeskState, Desk, Frame
    <3>4. desks' \in [Desk -> DeskState]
      BY <2>3, <3>1, <3>3, StartedType DEF TypeOK
    <3>5. seats' \in SeatsType
      BY <2>2, <2>3, <3>1 DEF SeatsType
    <3>6. displays' \in ListType
      BY <3>1, <3>4, ListingType DEF TypeOK
    <3>7. QED
      BY <1>8, <2>1, <3>4, <3>5, <3>6, ReceivedType
      DEF BesideJoined, TypeOK, SeatsType, ListType
  <2>6. QED
    BY <2>4, <2>5
<1>9. CASE ClientLeft
  <2> DEFINE c == Head(commands).client
             D == BesideEnded(desks)
             k == [D[FIRST] EXCEPT !.client = Nobody]
  <2>1. Received("ClientLeft")
    BY <1>9 DEF ClientLeft
  <2>2. D \in [Desk -> DeskState] /\ SeatsBesideEnded \in SeatsType
    BY BesideEndedType, SeatsBesideEndedType DEF TypeOK
  <2>3. k \in DeskState
    BY <2>2 DEF DeskState, Desk
  <2>4. desks' \in [Desk -> DeskState]
    <3>1. \/ desks' = [D EXCEPT ![FIRST] = Stopped(k)]
          \/ desks' = D
          \/ desks' = desks
      BY <1>9 DEF ClientLeft
    <3>2. QED
      BY <2>2, <2>3, <3>1, StoppedType DEF TypeOK
  <2>5. seats' \in SeatsType
    BY <1>9, <2>2 DEF ClientLeft, SeatsType, TypeOK
  <2>6. displays' \in ListType
    BY <1>9, <2>4, ListBesideEndedType DEF ClientLeft, TypeOK, ListType
  <2>7. QED
    BY <1>9, <2>1, <2>4, <2>5, <2>6, ReceivedType
    DEF ClientLeft, TypeOK, SeatsType, ListType
<1>10. CASE SelectOutput
  <2> DEFINE o == Head(commands).output
  <2>1. Received("SelectOutput")
    BY <1>10 DEF SelectOutput
  <2>2. o \in Outputs
    BY <2>1, ReceivedType
  <2>3. desks' \in [Desk -> DeskState] /\ seats' \in SeatsType
    <3>1. \/ desks' = Shared(FIRST, o, outputs) /\ seats' = SeatsShared(FIRST, o)
          \/ UNCHANGED <<desks, seats>>
      BY <1>10 DEF SelectOutput
    <3>2. QED
      BY <2>2, <3>1, SharedType DEF TypeOK, SeatsType, Desk
  <2>4. displays' \in ListType
    <3>1. \/ displays' = Listing(desks', outputs, done)
          \/ displays' = Listing(desks, outputs, done)
          \/ displays' = displays
      BY <1>10 DEF SelectOutput
    <3>2. /\ Listing(desks', outputs, done) \in ListType
          /\ Listing(desks, outputs, done) \in ListType
      BY <2>3, ListingType DEF TypeOK
    <3>3. QED
      BY <3>1, <3>2 DEF TypeOK, ListType
  <2>5. chosen' \in BOOLEAN
    BY <1>10 DEF SelectOutput, TypeOK
  <2>6. QED
    BY <1>10, <2>1, <2>3, <2>4, <2>5, ReceivedType
    DEF SelectOutput, TypeOK, SeatsType, ListType
<1>11. ASSUME NEW o \in Outputs, Bind(o) PROVE TypeOK'
  BY <1>11 DEF Bind, TypeOK
<1>12. ASSUME NEW o \in Outputs, OutputDone(o) PROVE TypeOK'
  <2> DEFINE a == Adoptable(done')
  <2>1. done' \subseteq outputs /\ outputs' = outputs /\ a \in Outputs
    <3>1. done' # {} /\ done' \subseteq outputs /\ outputs' = outputs
      BY <1>12 DEF OutputDone, TypeOK
    <3>2. done' \in SUBSET Outputs
      BY <3>1 DEF TypeOK
    <3>3. QED
      BY <3>1, <3>2, AdoptableIsIn
  <2>2. \/ desks' = Shared(FIRST, a, outputs) /\ seats' = SeatsShared(FIRST, a)
        \/ UNCHANGED <<desks, seats>>
    BY <1>12 DEF OutputDone
  <2>3. desks' \in [Desk -> DeskState] /\ seats' \in SeatsType
    BY <2>1, <2>2, SharedType DEF TypeOK, SeatsType, Desk
  <2>4. displays' \in ListType
    BY <1>12, <2>1, <2>3, ListingType DEF OutputDone, TypeOK
  <2>5. chosen' \in BOOLEAN
    BY <1>12 DEF OutputDone, TypeOK
  <2>6. QED
    BY <1>12, <2>1, <2>3, <2>4, <2>5 DEF OutputDone, TypeOK, SeatsType, ListType
<1>13. ASSUME NEW o \in Outputs, GlobalRemove(o) PROVE TypeOK'
  <2> DEFINE a == Adoptable(done')
             k == [Stopped(desks[FIRST]) EXCEPT !.selected = NoOutput]
  <2>1. done' \subseteq outputs' /\ outputs' \subseteq Outputs
    BY <1>13 DEF GlobalRemove, TypeOK
  <2>2. \/ /\ done' # {}
           /\ desks' = Shared(FIRST, a, outputs')
           /\ seats' = SeatsShared(FIRST, a)
        \/ desks' = [desks EXCEPT ![FIRST] = k] /\ seats' = seats
        \/ desks' = BesideEnded(desks) /\ seats' = SeatsBesideEnded
        \/ UNCHANGED <<desks, seats>>
    BY <1>13 DEF GlobalRemove
  <2>3. done' # {} => a \in Outputs
    BY <2>1, AdoptableIsIn
  <2>4. k \in DeskState
    <3>1. Stopped(desks[FIRST]) \in DeskState
      BY StoppedType DEF TypeOK, Desk
    <3>2. QED
      BY <3>1 DEF DeskState
  <2>5. desks' \in [Desk -> DeskState]
    <3>1. /\ done' # {} => Shared(FIRST, a, outputs') \in [Desk -> DeskState]
          /\ BesideEnded(desks) \in [Desk -> DeskState]
          /\ desks \in [Desk -> DeskState]
      BY <2>1, <2>3, SharedType, BesideEndedType DEF TypeOK, Desk
    <3>2. QED
      BY <2>2, <2>4, <3>1
  <2>6. seats' \in SeatsType
    BY <2>1, <2>2, <2>3, SharedType, SeatsBesideEndedType DEF TypeOK, SeatsType, Desk
  <2>7. displays' \in ListType
    BY <1>13, <2>1, <2>5, ListingType DEF GlobalRemove
  <2>8. chosen' \in BOOLEAN
    BY <1>13 DEF GlobalRemove, TypeOK
  <2>9. QED
    BY <1>13, <2>1, <2>5, <2>6, <2>7, <2>8
    DEF GlobalRemove, TypeOK, SeatsType, ListType
<1>14. ASSUME NEW d \in Desk, BufferDone(d) PROVE TypeOK'
  <2>1. desks[d] \in DeskState /\ desks[d].frame \in Frame
    BY DEF TypeOK, DeskState
  <2>2. PICK step \in {"whole", "damage"} :
          Capture(d, [desks[d] EXCEPT !.frame.step = step])
    BY <1>14 DEF BufferDone
  <2>3. desks[d].frame.of \in Outputs
    BY <1>14, <2>1 DEF BufferDone, Frame, NoFrame
  <2>4. [desks[d].frame EXCEPT !.step = step] \in Frame
    BY <1>14, <2>1, <2>3 DEF BufferDone, Frame, NoFrame
  <2>5. [desks[d] EXCEPT !.frame.step = step] \in DeskState
    BY <2>1, <2>4 DEF DeskState
  <2>6. QED
    BY <2>2, <2>5, CaptureType
<1>15. ASSUME NEW d \in Desk, FrameReady(d) PROVE TypeOK'
  <2> DEFINE k == [desks[d] EXCEPT !.frame   = NoFrame,
                                   !.picture = desks[d].frame.of,
                                   !.timer   = TRUE]
  <2>1. desks[d] \in DeskState /\ desks[d].frame \in Frame
    BY DEF TypeOK, DeskState
  <2>2. desks[d].frame.of \in Outputs
    BY <1>15, <2>1 DEF FrameReady, Frame, NoFrame
  <2>3. k \in DeskState
    BY <2>1, <2>2 DEF DeskState, Frame
  <2>4. QED
    BY <1>15, <2>3, CaptureType DEF FrameReady
<1>16. ASSUME NEW d \in Desk, CaptureFailed(d) PROVE TypeOK'
  <2>1. [desks[d] EXCEPT !.frame = NoFrame, !.timer = TRUE] \in DeskState
    <3>1. desks[d] \in DeskState
      BY DEF TypeOK
    <3>2. QED
      BY <3>1 DEF DeskState, Frame
  <2>2. QED
    BY <1>16, <2>1, CaptureType DEF CaptureFailed
<1>17. ASSUME NEW d \in Desk, CaptureTimer(d) PROVE TypeOK'
  <2>1. [desks[d] EXCEPT !.timer = FALSE] \in DeskState
    <3>1. desks[d] \in DeskState
      BY DEF TypeOK
    <3>2. QED
      BY <3>1 DEF DeskState
  <2>2. Started([desks[d] EXCEPT !.timer = FALSE], outputs) \in DeskState
    BY <2>1, StartedType DEF TypeOK
  <2>3. QED
    BY <1>17, <2>2, CaptureType DEF CaptureTimer
<1>18. CASE UNCHANGED vars
  BY <1>18 DEF vars, TypeOK
<1>19. QED
  BY <1>1, <1>2, <1>3, <1>4, <1>5, <1>6, <1>7, <1>8, <1>9, <1>10, <1>11,
     <1>12, <1>13, <1>14, <1>15, <1>16, <1>17, <1>18 DEF Next, Handle

(* Every variable keeps its type; in particular the list of outputs is     *)
(* among what the compositor has named (refresh_displays).                 *)
THEOREM TypeCorrect == Spec => []TypeOK
BY TypeInit, TypeNext, PTL DEF Spec
-----------------------------------------------------------------------------
(* Who is on the desks.                                                    *)

(* A display beside that has ended leaves nothing on its desk: whoever is  *)
(* seated next starts from there.                                          *)
BesideGivesBack == desks[BESIDE].client = Nobody => desks[BESIDE] = EmptyDesk

(* A connection joins once: what is in the channel of it is its one join,  *)
(* and it is on no desk before that is handled.                            *)
IsJoin(m) == m.type \in {"ClientJoined", "BesideJoined"}

JoinsOnce ==
  /\ \A i \in 1 .. Len(commands) :
       IsJoin(commands[i]) => /\ session[commands[i].client] # "connecting"
                              /\ \A d \in Desk : desks[d].client # commands[i].client
  /\ \A i, j \in 1 .. Len(commands) :
       /\ IsJoin(commands[i]) /\ IsJoin(commands[j])
       /\ commands[i].client = commands[j].client
       => i = j
  /\ \A d \in Desk :
       desks[d].client # Nobody => session[desks[d].client] # "connecting"

(* The inductive invariant: JoinsOnce is what keeps the refusal of one     *)
(* connection from clearing the seat of another.                           *)
SeatsInv ==
  /\ TypeOK
  /\ SeatsTellDesks
  /\ BesideGivesBack
  /\ BesideIsTheHolders
  /\ JoinsOnce

SeatsSafe == SeatsTellDesks /\ BesideGivesBack /\ BesideIsTheHolders

-----------------------------------------------------------------------------
(* What a step leaves of the seats' part of the state when no client takes *)
(* or gives up the desktop: the display beside stands, or it ends.         *)
Stands(D, S) ==
  /\ D[BESIDE].client = desks[BESIDE].client
  /\ D[BESIDE].client = Nobody => D[BESIDE] = EmptyDesk
  /\ S.beside = seats.beside

Ends(D, S) ==
  /\ D[BESIDE] = EmptyDesk
  /\ S.beside = Nobody

(* The verdicts on connections beside stand.                               *)
Later(S) == S.besideEnded >= seats.besideEnded

DesktopStands(D, S) ==
  /\ D[FIRST].client = desks[FIRST].client
  /\ S.holder = seats.holder
  /\ Later(S)

LEMMA EmptyDeskIsNobodys == EmptyDesk.client = Nobody
BY DEF EmptyDesk

LEMMA ClientsAreSomebody == \A c \in Clients : c \in Nat /\ c # Nobody
BY ClientsAssumption DEF Nobody

LEMMA EndSeatEnds ==
  ASSUME NEW s \in SeatsType, NEW id \in Clients
  PROVE  /\ EndSeat(s, id).holder = s.holder
         /\ EndSeat(s, id).beside = IF s.beside = id THEN Nobody ELSE s.beside
         /\ EndSeat(s, id).besideEnded >= s.besideEnded
         /\ EndSeat(s, id).besideEnded >= id
BY ClientsAreSomebody DEF EndSeat, SeatsType, Nobody

LEMMA SeatsStandLater == ASSUME SeatsInv PROVE Later(seats)
BY ClientsAreSomebody DEF SeatsInv, TypeOK, Later, Nobody

(* end_beside ends the display beside, whoever was there, in the desks and *)
(* in the watch alike.                                                     *)
LEMMA BesideEndedEnds ==
  ASSUME SeatsInv
  PROVE  /\ DesktopStands(BesideEnded(desks), SeatsBesideEnded)
         /\ Ends(BesideEnded(desks), SeatsBesideEnded)
<1>1. seats \in SeatsType /\ desks \in [Desk -> DeskState] /\ BESIDE \in Desk
  BY DEF SeatsInv, TypeOK, SeatsType, Desk
<1>2. desks[BESIDE].client \in Clients \cup {Nobody}
  BY <1>1 DEF DeskState
<1>3. CASE desks[BESIDE].client = Nobody
  BY <1>3, SeatsStandLater
  DEF SeatsInv, SeatsTellDesks, BesideGivesBack, DesktopStands, Ends,
      BesideEnded, SeatsBesideEnded
<1>4. CASE desks[BESIDE].client # Nobody
  <2>1. /\ SeatsBesideEnded.holder = seats.holder
        /\ SeatsBesideEnded.beside = Nobody
        /\ Later(SeatsBesideEnded)
    BY <1>1, <1>2, <1>4, EndSeatEnds
    DEF SeatsBesideEnded, SeatsInv, SeatsTellDesks, Later
  <2>2. BesideEnded(desks)[BESIDE] = EmptyDesk
    BY <1>1, <1>4 DEF BesideEnded
  <2>3. QED
    BY <1>1, <2>1, <2>2, BesideEndedType DEF DesktopStands, Ends
<1>5. QED
  BY <1>3, <1>4

LEMMA RestartedClient ==
  ASSUME NEW k \in DeskState, NEW o \in Outputs, NEW outs \in SUBSET Outputs
  PROVE  Started([Stopped(k) EXCEPT !.selected = o, !.picture = Blank], outs).client
           = k.client
<1>1. PICK s \in DeskState : s = Stopped(k) /\ s.client = k.client
  BY StoppedType
<1>2. PICK m : m = [s EXCEPT !.selected = o, !.picture = Blank]
  OBVIOUS
<1>3. m \in DeskState /\ m.client = k.client
  BY <1>1, <1>2, MovedType
<1>4. Started(m, outs).client = k.client
  BY <1>3, StartedType
<1>5. QED
  BY <1>1, <1>2, <1>4

(* share_output moves no client, and ends the display beside or leaves it. *)
LEMMA SharedStands ==
  ASSUME SeatsInv, NEW o \in Outputs, NEW outs \in SUBSET Outputs
  PROVE  LET D == Shared(FIRST, o, outs)
             S == SeatsShared(FIRST, o)
         IN  DesktopStands(D, S) /\ (Stands(D, S) \/ Ends(D, S))
<1>1. PICK D \in [Desk -> DeskState] :
        D = IF TakesFromBeside(FIRST, o) THEN BesideEnded(desks) ELSE desks
  BY BesideEndedType DEF SeatsInv, TypeOK
<1>2. PICK k : k = Started([Stopped(D[FIRST]) EXCEPT !.selected = o, !.picture = Blank],
                           outs)
  OBVIOUS
<1>3. k.client = D[FIRST].client
  BY <1>2, RestartedClient DEF Desk
<1>4. Shared(FIRST, o, outs) = [D EXCEPT ![FIRST] = k]
  BY <1>1, <1>2 DEF Shared
<1>5. /\ Shared(FIRST, o, outs)[FIRST].client = D[FIRST].client
      /\ Shared(FIRST, o, outs)[BESIDE] = D[BESIDE]
  BY <1>3, <1>4 DEF FIRST, BESIDE, Desk
<1>6. CASE TakesFromBeside(FIRST, o)
  BY <1>1, <1>5, <1>6, BesideEndedEnds DEF SeatsShared, DesktopStands, Ends
<1>7. CASE ~TakesFromBeside(FIRST, o)
  BY <1>1, <1>5, <1>7, SeatsStandLater
  DEF SeatsShared, DesktopStands, Stands, SeatsInv, BesideGivesBack
<1>8. QED
  BY <1>6, <1>7

(* Nobody has come to a desk.                                              *)
NobodyComes == \A d \in Desk : desks'[d].client \in {Nobody, desks[d].client}

(* The parts of the invariant follow from what the step did.               *)
LEMMA SeatsFollow ==
  ASSUME SeatsInv, TypeOK',
         DesktopStands(desks', seats'),
         Stands(desks', seats') \/ Ends(desks', seats')
  PROVE  SeatsSafe' /\ NobodyComes
<1>1. SeatsSafe'
  BY EmptyDeskIsNobodys
  DEF SeatsInv, SeatsSafe, SeatsTellDesks, BesideGivesBack, BesideIsTheHolders,
      DesktopStands, Stands, Ends
<1>2. NobodyComes
  BY EmptyDeskIsNobodys DEF NobodyComes, Desk, DesktopStands, Stands, Ends
<1>3. QED
  BY <1>1, <1>2

(* A step of one capture moves nobody, and there is none for nobody beside. *)
LEMMA CaptureStands ==
  ASSUME SeatsInv, TypeOK', NEW d \in Desk, NEW k, Capture(d, k),
         k.client = desks[d].client,
         desks[d] # EmptyDesk
  PROVE  DesktopStands(desks', seats') /\ Stands(desks', seats')
<1>1. desks \in [Desk -> DeskState] /\ desks' = [desks EXCEPT ![d] = k] /\ seats' = seats
  BY DEF SeatsInv, TypeOK, Capture
<1>2. /\ desks'[FIRST].client = desks[FIRST].client
      /\ desks'[BESIDE].client = desks[BESIDE].client
      /\ desks'[BESIDE] = desks[BESIDE] \/ desks[BESIDE] # EmptyDesk
  BY <1>1 DEF Desk
<1>3. QED
  BY <1>1, <1>2, SeatsStandLater DEF DesktopStands, Stands, SeatsInv, BesideGivesBack

-----------------------------------------------------------------------------
(* Joins.                                                                  *)
LEMMA SendKeepsJoins ==
  ASSUME SeatsInv, NEW m \in Command, Send(m),
         NEW x, x # "connecting",
         session' = [session EXCEPT ![m.client] = x],
         IsJoin(m) => session[m.client] = "connecting"
  PROVE  JoinsOnce'
<1>1. /\ commands \in Seq(Command) /\ commands' = Append(commands, m)
      /\ m.client \in Clients
      /\ desks' = desks
  BY DEF SeatsInv, TypeOK, Send, Command
<1>2. \A c \in Clients : session[c] # "connecting" => session'[c] # "connecting"
  BY <1>1 DEF SeatsInv, TypeOK
<1>3. session'[m.client] # "connecting"
  BY <1>1 DEF SeatsInv, TypeOK
<1>4. /\ Len(commands') = Len(commands) + 1 /\ Len(commands) \in Nat
      /\ commands'[Len(commands) + 1] = m
      /\ \A i \in 1 .. Len(commands) :
           /\ commands'[i] = commands[i]
           /\ commands[i] \in Command
           /\ commands[i].client \in Clients
  BY <1>1 DEF Command
<1>5. IsJoin(m) => /\ \A d \in Desk : desks[d].client # m.client
                   /\ \A i \in 1 .. Len(commands) :
                        IsJoin(commands[i]) => commands[i].client # m.client
  BY <1>1, ClientsAreSomebody DEF SeatsInv, JoinsOnce
<1>6. \A d \in Desk : desks[d].client \in Clients \cup {Nobody}
  BY DEF SeatsInv, TypeOK, DeskState
<1>7. QED
  BY <1>1, <1>2, <1>3, <1>4, <1>5, <1>6 DEF SeatsInv, JoinsOnce

(* Who is on a desk after a step was there before, or has just joined.     *)
ClientsMove ==
  \A d \in Desk :
    \/ desks'[d].client \in {Nobody, desks[d].client}
    \/ IsJoin(Head(commands)) /\ desks'[d].client = Head(commands).client

LEMMA ReceivedKeepsJoins ==
  ASSUME SeatsInv, NEW type, Received(type), ClientsMove
  PROVE  JoinsOnce'
<1>1. /\ commands \in Seq(Command) /\ commands # <<>>
      /\ commands' = Tail(commands)
      /\ session' = session
  BY DEF SeatsInv, TypeOK, Received
<1>2. /\ Len(commands') = Len(commands) - 1 /\ Len(commands) \in Nat \ {0}
      /\ \A i \in 1 .. Len(commands') :
           commands'[i] = commands[i + 1] /\ i + 1 \in 1 .. Len(commands)
      /\ Head(commands) = commands[1] /\ 1 \in 1 .. Len(commands)
  BY <1>1
<1>3. ASSUME NEW i \in 1 .. Len(commands'), IsJoin(commands'[i])
      PROVE  /\ session'[commands'[i].client] # "connecting"
             /\ \A d \in Desk : desks'[d].client # commands'[i].client
  <2>1. /\ commands'[i] = commands[i + 1]
        /\ i + 1 \in 1 .. Len(commands) /\ i + 1 # 1
        /\ IsJoin(commands[i + 1])
    BY <1>2, <1>3
  <2>2. /\ session[commands'[i].client] # "connecting"
        /\ \A d \in Desk : desks[d].client # commands'[i].client
    BY <2>1 DEF SeatsInv, JoinsOnce
  <2>3. commands'[i].client # Nobody
    BY <1>1, <2>1, ClientsAreSomebody DEF Command
  <2>4. IsJoin(Head(commands)) => Head(commands).client # commands'[i].client
    BY <1>2, <2>1 DEF SeatsInv, JoinsOnce
  <2>5. QED
    BY <1>1, <2>2, <2>3, <2>4 DEF ClientsMove
<1>4. ASSUME NEW i \in 1 .. Len(commands'), NEW j \in 1 .. Len(commands'),
             IsJoin(commands'[i]), IsJoin(commands'[j]),
             commands'[i].client = commands'[j].client
      PROVE  i = j
  <2>1. i + 1 = j + 1
    BY <1>2, <1>4 DEF SeatsInv, JoinsOnce
  <2>2. QED
    BY <1>2, <2>1
<1>5. ASSUME NEW d \in Desk, desks'[d].client # Nobody
      PROVE  session'[desks'[d].client] # "connecting"
  BY <1>1, <1>2, <1>5 DEF ClientsMove, SeatsInv, JoinsOnce
<1>6. QED
  BY <1>3, <1>4, <1>5 DEF JoinsOnce

LEMMA ElseKeepsJoins ==
  ASSUME SeatsInv, UNCHANGED <<session, commands>>,
         NobodyComes
  PROVE  JoinsOnce'
<1>1. \A i \in 1 .. Len(commands) : IsJoin(commands[i]) => commands[i].client # Nobody
  BY ClientsAreSomebody DEF SeatsInv, TypeOK, Command, IsJoin
<1>2. QED
  BY <1>1 DEF SeatsInv, JoinsOnce, NobodyComes

-----------------------------------------------------------------------------
LEMMA SeatsInit == Init => SeatsInv
<1> SUFFICES ASSUME Init PROVE SeatsInv
  OBVIOUS
<1>1. PICK o : desks = [d \in Desk |-> IF d = FIRST
                                       THEN [EmptyDesk EXCEPT !.selected = o]
                                       ELSE EmptyDesk]
  BY DEF Init
<1>2. desks[FIRST].client = Nobody /\ desks[BESIDE] = EmptyDesk
  BY <1>1 DEF Desk, FIRST, BESIDE, EmptyDesk
<1>3. seats.holder = Nobody /\ seats.beside = Nobody
  BY DEF Init
<1>4. commands = <<>> /\ \A d \in Desk : desks[d].client = Nobody
  BY <1>1 DEF Init, EmptyDesk
<1>5. JoinsOnce
  BY <1>4 DEF JoinsOnce
<1>6. QED
  BY <1>2, <1>3, <1>5, TypeInit, EmptyDeskIsNobodys
  DEF SeatsInv, SeatsTellDesks, BesideGivesBack, BesideIsTheHolders

-----------------------------------------------------------------------------
(* What each step does to the desks' clients and the seats.                *)

(* A session tells one thing of itself at a time.                          *)
Tells(c) ==
  \E m \in Command, x \in {"first", "beside", "gone"} :
    /\ Send(m)
    /\ m.client = c
    /\ session' = [session EXCEPT ![c] = x]
    /\ IsJoin(m) => session[c] = "connecting"
    /\ ~IsJoin(m) => x \in {"gone", session[c]}

LEMMA SessionTells ==
  ASSUME TypeOK, NEW c \in Clients,
         \/ Join(c) \/ JoinBeside(c) \/ Leave(c) \/ Superseded(c)
         \/ \E o \in Outputs : Ask(c, o)
  PROVE  Tells(c)
<1>1. session \in [Clients -> {"connecting", "first", "beside", "gone"}]
  BY DEF TypeOK
<1>2. CASE Join(c)
  <2>1. PICK m \in Command : m = [type |-> "ClientJoined", client |-> c]
    BY DEF Command
  <2>2. QED
    BY <1>2, <2>1 DEF Join, Tells, IsJoin
<1>3. CASE JoinBeside(c)
  <2>1. PICK m \in Command : m = [type |-> "BesideJoined", client |-> c]
    BY DEF Command
  <2>2. QED
    BY <1>3, <2>1 DEF JoinBeside, Tells, IsJoin
<1>4. CASE Leave(c) \/ Superseded(c)
  <2>1. PICK m \in Command : m = [type |-> "ClientLeft", client |-> c]
    BY DEF Command
  <2>2. QED
    BY <1>4, <2>1 DEF Superseded, Leave, Tells, IsJoin
<1>5. CASE \E o \in Outputs : Ask(c, o)
  <2> PICK o \in Outputs : Ask(c, o)
    BY <1>5
  <2>1. PICK m \in Command :
          m = [type |-> "SelectOutput", client |-> c, output |-> o]
    BY DEF Command
  <2>2. PICK x \in {"first", "beside"} : x = session[c]
    BY DEF Ask
  <2>3. session' = [session EXCEPT ![c] = x]
    BY <1>1, <2>2 DEF Ask
  <2>4. QED
    BY <2>1, <2>2, <2>3 DEF Ask, Tells, IsJoin
<1>6. QED
  BY <1>2, <1>3, <1>4, <1>5

(* Nobody but c is on the desktop, and nobody beside.                      *)
Alone(c) ==
  /\ desks'[FIRST].client = c
  /\ desks'[BESIDE] = EmptyDesk
  /\ seats'.holder = c
  /\ seats'.beside = Nobody

LEMMA ClientJoinedTakes ==
  ASSUME SeatsInv, ClientJoined
  PROVE  /\ Received("ClientJoined")
         /\ Head(commands).client \in Clients
         /\ Alone(Head(commands).client)
         /\ Later(seats')
<1>1. PICK c : c = Head(commands).client
  OBVIOUS
<1>2. c \in Clients /\ Received("ClientJoined") /\ FIRST \in Desk /\ BESIDE \in Desk
  BY <1>1, ReceivedType DEF ClientJoined, SeatsInv, Desk
<1>3. PICK D \in [Desk -> DeskState], S \in SeatsType :
        /\ D = IF desks[FIRST].client # Nobody THEN BesideEnded(desks) ELSE desks
        /\ S = IF desks[FIRST].client # Nobody THEN SeatsBesideEnded ELSE seats
  BY BesideEndedType, SeatsBesideEndedType DEF SeatsInv, TypeOK, SeatsType
<1>4. D[BESIDE] = EmptyDesk /\ S.beside = Nobody /\ Later(S)
  BY <1>3, BesideEndedEnds, SeatsStandLater
  DEF Ends, DesktopStands, SeatsInv, SeatsTellDesks, BesideGivesBack, BesideIsTheHolders
<1>5. PICK k : k = [D[FIRST] EXCEPT !.client = c]
  OBVIOUS
<1>6. k \in DeskState /\ k.client = c
  BY <1>2, <1>3, <1>5 DEF DeskState
<1>7. Started(k, outputs).client = c
  BY <1>6, StartedType DEF SeatsInv, TypeOK
<1>8. desks' = [D EXCEPT ![FIRST] = Started(k, outputs)] /\ seats' = [S EXCEPT !.holder = c]
  BY <1>1, <1>3, <1>5 DEF ClientJoined
<1>9. desks'[FIRST].client = c /\ desks'[BESIDE] = EmptyDesk
  BY <1>2, <1>3, <1>4, <1>7, <1>8 DEF FIRST, BESIDE
<1>10. seats'.holder = c /\ seats'.beside = Nobody /\ Later(seats')
  BY <1>3, <1>4, <1>8 DEF SeatsType, Later
<1>11. QED
  BY <1>1, <1>2, <1>9, <1>10 DEF Alone

LEMMA JoinerIsOnNoDesk ==
  ASSUME SeatsInv, NEW type, Received(type), type \in {"ClientJoined", "BesideJoined"}
  PROVE  /\ IsJoin(Head(commands))
         /\ \A d \in Desk : desks[d].client # Head(commands).client
<1>1. 1 \in 1 .. Len(commands) /\ Head(commands) = commands[1]
  BY DEF Received, SeatsInv, TypeOK
<1>2. IsJoin(Head(commands))
  BY DEF IsJoin, Received
<1>3. QED
  BY <1>1, <1>2 DEF SeatsInv, JoinsOnce

(* Refusing a connection clears nobody's seat.                             *)
LEMMA RefuseBesideRefuses ==
  ASSUME SeatsInv, RefuseBeside
  PROVE  /\ Received("BesideJoined")
         /\ Head(commands).client \in Clients
         /\ desks' = desks
         /\ seats'.holder = seats.holder
         /\ seats'.beside = seats.beside
         /\ Later(seats')
<1>1. PICK c : c = Head(commands).client
  OBVIOUS
<1>2. c \in Clients /\ Received("BesideJoined")
  BY <1>1, ReceivedType DEF RefuseBeside, SeatsInv
<1>3. seats' = EndSeat(seats, c) /\ desks' = desks /\ seats \in SeatsType
  BY <1>1 DEF RefuseBeside, SeatsInv, TypeOK, SeatsType
<1>4. seats.beside # c
  BY <1>1, <1>2, JoinerIsOnNoDesk DEF SeatsInv, SeatsTellDesks, Desk
<1>5. QED
  BY <1>1, <1>2, <1>3, <1>4, EndSeatEnds DEF Later

(* The seat beside goes to a connection newer than the client's own, and   *)
(* than every one that was ended.                                          *)
Sits(c) ==
  /\ desks'[FIRST].client = desks[FIRST].client
  /\ desks'[BESIDE].client = c
  /\ seats'.holder = seats.holder
  /\ seats'.beside = c
  /\ Later(seats')
  /\ seats.besideEnded < c
  /\ desks[FIRST].client \in Clients
  /\ desks[FIRST].client < c

LEMMA BesideJoinedSits ==
  ASSUME SeatsInv, BesideJoined
  PROVE  /\ Received("BesideJoined")
         /\ Head(commands).client \in Clients
         /\ \/ DesktopStands(desks', seats') /\ Ends(desks', seats')
            \/ Sits(Head(commands).client)
<1>1. PICK c : c = Head(commands).client
  OBVIOUS
<1>2. c \in Clients /\ Received("BesideJoined") /\ ~Refused(c)
  BY <1>1, ReceivedType DEF BesideJoined, SeatsInv
<1>3. /\ desks \in [Desk -> DeskState] /\ FIRST \in Desk /\ BESIDE \in Desk
      /\ FIRST # BESIDE
  BY DEF SeatsInv, TypeOK, Desk, FIRST, BESIDE
<1>4. PICK D \in [Desk -> DeskState], S \in SeatsType :
        D = BesideEnded(desks) /\ S = SeatsBesideEnded
  BY BesideEndedType, SeatsBesideEndedType DEF SeatsInv, TypeOK
<1>5. DesktopStands(D, S) /\ Ends(D, S)
  BY <1>4, BesideEndedEnds
<1>6. CASE Others = {}
  <2>1. desks' = D /\ seats' = EndSeat(S, c)
    BY <1>1, <1>4, <1>6 DEF BesideJoined
  <2>2. /\ seats'.holder = S.holder
        /\ seats'.beside = Nobody
        /\ seats'.besideEnded >= S.besideEnded
    BY <1>2, <1>4, <1>5, <2>1, EndSeatEnds DEF Ends
  <2>3. Later(seats')
    <3>1. /\ S.besideEnded \in Nat /\ seats.besideEnded \in Nat
          /\ seats'.besideEnded \in Nat
      BY <1>2, <1>4, <2>1, EndSeatType, ClientsAreSomebody
      DEF SeatsInv, TypeOK, SeatsType, Nobody
    <3>2. QED
      BY <1>5, <2>2, <3>1 DEF DesktopStands, Later
  <2>4. DesktopStands(desks', seats') /\ Ends(desks', seats')
    BY <1>5, <2>1, <2>2, <2>3 DEF DesktopStands, Ends
  <2>5. QED
    BY <1>1, <1>2, <2>4
<1>7. CASE Others # {}
  <2>1. PICK k : k = [D[BESIDE] EXCEPT !.client   = c,
                                       !.selected = First(Others),
                                       !.picture  = Blank,
                                       !.frame    = NoFrame,
                                       !.timer    = FALSE]
    OBVIOUS
  <2>2. First(Others) \in Outputs
    BY <1>7, FirstIsIn, Others \in SUBSET Outputs DEF Others, SeatsInv, TypeOK
  <2>3. D[BESIDE] \in DeskState
    BY <1>3, <1>4
  <2>4. k \in DeskState /\ k.client = c
    BY <1>2, <2>1, <2>2, <2>3 DEF DeskState, Frame
  <2>5. Started(k, outputs).client = c
    BY <2>4, StartedType DEF SeatsInv, TypeOK
  <2>6. /\ desks' = [D EXCEPT ![BESIDE] = Started(k, outputs)]
        /\ seats' = [S EXCEPT !.beside = c]
    BY <1>1, <1>4, <1>7, <2>1 DEF BesideJoined
  <2>7. /\ desks'[FIRST].client = desks[FIRST].client
        /\ desks'[BESIDE].client = c
    BY <1>3, <1>4, <1>5, <2>5, <2>6 DEF DesktopStands
  <2>8. /\ seats'.holder = seats.holder
        /\ seats'.beside = c
        /\ Later(seats')
    BY <1>4, <1>5, <2>6 DEF DesktopStands, SeatsType, Later
  <2>9. /\ desks[FIRST].client \in Clients
        /\ ~(desks[FIRST].client > c)
        /\ seats.besideEnded \in Nat
        /\ ~(seats.besideEnded >= c)
    BY <1>2, <1>3, ClientsAreSomebody
    DEF Refused, DeskState, SeatsInv, TypeOK, Nobody
  <2>10. desks[FIRST].client # c
    BY <1>1, <1>2, <1>3, JoinerIsOnNoDesk
  <2>11. QED
    BY <1>1, <1>2, <2>7, <2>8, <2>9, <2>10, ClientsAreSomebody DEF Sits
<1>8. QED
  BY <1>6, <1>7

LEMMA ClientLeftLeaves ==
  ASSUME SeatsInv, ClientLeft
  PROVE  /\ Received("ClientLeft")
         /\ \/ desks[FIRST].client # Nobody /\ Alone(Nobody) /\ Later(seats')
            \/ DesktopStands(desks', seats') /\ Ends(desks', seats')
            \/ desks' = desks /\ seats' = seats
<1>1. PICK c : c = Head(commands).client
  OBVIOUS
<1>2. Received("ClientLeft") /\ c \in Clients
  BY <1>1, ReceivedType DEF ClientLeft, SeatsInv
<1>3. /\ desks \in [Desk -> DeskState] /\ FIRST \in Desk /\ BESIDE \in Desk
      /\ FIRST # BESIDE
  BY DEF SeatsInv, TypeOK, Desk, FIRST, BESIDE
<1>4. CASE desks[FIRST].client = c
  <2>1. PICK D \in [Desk -> DeskState], S \in SeatsType :
          D = BesideEnded(desks) /\ S = SeatsBesideEnded
    BY BesideEndedType, SeatsBesideEndedType DEF SeatsInv, TypeOK
  <2>2. Ends(D, S) /\ Later(S)
    BY <2>1, BesideEndedEnds DEF DesktopStands
  <2>3. PICK k : k = [D[FIRST] EXCEPT !.client = Nobody]
    OBVIOUS
  <2>4. k \in DeskState /\ k.client = Nobody
    BY <1>3, <2>1, <2>3 DEF DeskState
  <2>5. Stopped(k).client = Nobody
    BY <2>4, StoppedType
  <2>6. /\ desks' = [D EXCEPT ![FIRST] = Stopped(k)]
        /\ seats' = [S EXCEPT !.holder = Nobody]
    BY <1>1, <1>2, <1>3, <1>4, <2>1, <2>3 DEF ClientLeft, DeskOf
  <2>7. desks'[FIRST].client = Nobody /\ desks'[BESIDE] = EmptyDesk
    BY <1>3, <2>1, <2>2, <2>5, <2>6 DEF Ends
  <2>8. seats'.holder = Nobody /\ seats'.beside = Nobody /\ Later(seats')
    BY <2>1, <2>2, <2>6 DEF Ends, SeatsType, Later
  <2>9. QED
    BY <1>2, <1>4, <2>7, <2>8, ClientsAreSomebody DEF Alone
<1>5. CASE desks' = BesideEnded(desks) /\ seats' = SeatsBesideEnded
  BY <1>2, <1>5, BesideEndedEnds
<1>6. CASE desks' = desks /\ seats' = seats
  BY <1>2, <1>6
<1>7. QED
  BY <1>1, <1>4, <1>5, <1>6 DEF ClientLeft

(* Everything else moves no client, and ends the display beside at most.   *)
Elsewhere ==
  \/ SelectOutput
  \/ \E o \in Outputs : Bind(o) \/ OutputDone(o) \/ GlobalRemove(o)
  \/ \E d \in Desk : BufferDone(d) \/ FrameReady(d) \/ CaptureFailed(d) \/ CaptureTimer(d)

LEMMA NothingMoves ==
  ASSUME SeatsInv, desks' = desks, seats' = seats
  PROVE  DesktopStands(desks', seats') /\ Stands(desks', seats')
BY SeatsStandLater DEF DesktopStands, Stands, SeatsInv, BesideGivesBack

LEMMA ElsewhereStands ==
  ASSUME SeatsInv, TypeOK', Elsewhere
  PROVE  /\ DesktopStands(desks', seats')
         /\ Stands(desks', seats') \/ Ends(desks', seats')
<1>1. /\ TypeOK /\ desks \in [Desk -> DeskState] /\ FIRST \in Desk /\ BESIDE \in Desk
      /\ FIRST # BESIDE
  BY DEF SeatsInv, TypeOK, Desk, FIRST, BESIDE
<1>2. CASE SelectOutput
  <2>1. Head(commands).output \in Outputs
    BY <1>1, <1>2, ReceivedType DEF SelectOutput
  <2>2. \/ /\ desks' = Shared(FIRST, Head(commands).output, outputs)
           /\ seats' = SeatsShared(FIRST, Head(commands).output)
        \/ desks' = desks /\ seats' = seats
    BY <1>2 DEF SelectOutput
  <2>3. QED
    BY <1>1, <2>1, <2>2, SharedStands, NothingMoves DEF TypeOK
<1>3. ASSUME NEW o \in Outputs, Bind(o) \/ OutputDone(o) \/ GlobalRemove(o)
      PROVE  /\ DesktopStands(desks', seats')
             /\ Stands(desks', seats') \/ Ends(desks', seats')
  <2>1. done' \in SUBSET Outputs /\ outputs' \in SUBSET Outputs
    BY DEF TypeOK
  <2>2. \/ /\ done' # {}
           /\ desks' = Shared(FIRST, Adoptable(done'), outputs')
           /\ seats' = SeatsShared(FIRST, Adoptable(done'))
        \/ /\ desks' = [desks EXCEPT ![FIRST] = [Stopped(@) EXCEPT !.selected = NoOutput]]
           /\ seats' = seats
        \/ desks' = BesideEnded(desks) /\ seats' = SeatsBesideEnded
        \/ desks' = desks /\ seats' = seats
    BY <1>1, <1>3 DEF Bind, OutputDone, GlobalRemove, TypeOK
  <2>3. CASE /\ done' # {}
             /\ desks' = Shared(FIRST, Adoptable(done'), outputs')
             /\ seats' = SeatsShared(FIRST, Adoptable(done'))
    <3>1. Adoptable(done') \in Outputs
      BY <2>1, <2>3, AdoptableIsIn
    <3>2. QED
      BY <2>1, <2>3, <3>1, SharedStands
  <2>4. CASE /\ desks' = [desks EXCEPT ![FIRST] =
                            [Stopped(@) EXCEPT !.selected = NoOutput]]
             /\ seats' = seats
    <3>1. PICK k : k = Stopped(desks[FIRST])
      OBVIOUS
    <3>2. k \in DeskState /\ k.client = desks[FIRST].client
      BY <1>1, <3>1, StoppedType
    <3>3. [k EXCEPT !.selected = NoOutput].client = desks[FIRST].client
      BY <3>2 DEF DeskState
    <3>4. QED
      BY <1>1, <2>4, <3>1, <3>3, SeatsStandLater
      DEF DesktopStands, Stands, SeatsInv, BesideGivesBack
  <2>5. CASE desks' = BesideEnded(desks) /\ seats' = SeatsBesideEnded
    BY <2>5, BesideEndedEnds
  <2>6. CASE desks' = desks /\ seats' = seats
    BY <2>6, NothingMoves
  <2>7. QED
    BY <2>2, <2>3, <2>4, <2>5, <2>6
<1>4. ASSUME NEW d \in Desk,
             BufferDone(d) \/ FrameReady(d) \/ CaptureFailed(d) \/ CaptureTimer(d)
      PROVE  DesktopStands(desks', seats') /\ Stands(desks', seats')
  <2>1. desks[d] \in DeskState
    BY <1>1
  <2>2. PICK k : Capture(d, k) /\ k.client = desks[d].client
    <3>1. CASE BufferDone(d)
      BY <2>1, <3>1 DEF BufferDone, DeskState
    <3>2. CASE FrameReady(d)
      <4>1. PICK k : k = [desks[d] EXCEPT !.frame   = NoFrame,
                                          !.picture = desks[d].frame.of,
                                          !.timer   = TRUE]
        OBVIOUS
      <4>2. k.client = desks[d].client
        BY <2>1, <4>1 DEF DeskState
      <4>3. QED
        BY <3>2, <4>1, <4>2 DEF FrameReady
    <3>3. CASE CaptureFailed(d)
      <4>1. PICK k : k = [desks[d] EXCEPT !.frame = NoFrame, !.timer = TRUE]
        OBVIOUS
      <4>2. k.client = desks[d].client
        BY <2>1, <4>1 DEF DeskState
      <4>3. QED
        BY <3>3, <4>1, <4>2 DEF CaptureFailed
    <3>4. CASE CaptureTimer(d)
      <4>1. PICK k : k = [desks[d] EXCEPT !.timer = FALSE]
        OBVIOUS
      <4>2. k \in DeskState /\ k.client = desks[d].client
        BY <2>1, <4>1 DEF DeskState
      <4>3. Started(k, outputs).client = desks[d].client
        BY <1>1, <4>2, StartedType DEF TypeOK
      <4>4. QED
        BY <3>4, <4>1, <4>3 DEF CaptureTimer
    <3>5. QED
      BY <1>4, <3>1, <3>2, <3>3, <3>4
  <2>3. desks[d] # EmptyDesk
    BY <1>4 DEF BufferDone, FrameReady, CaptureFailed, CaptureTimer, EmptyDesk, NoFrame
  <2>4. QED
    BY <2>2, <2>3, CaptureStands
<1>5. QED
  BY <1>2, <1>3, <1>4 DEF Elsewhere

-----------------------------------------------------------------------------
LEMMA SeatsNext == SeatsInv /\ [Next]_vars => SeatsInv'
<1> SUFFICES ASSUME SeatsInv, [Next]_vars PROVE SeatsSafe' /\ JoinsOnce'
  BY TypeNext DEF SeatsInv, SeatsSafe
<1> USE EmptyDeskIsNobodys
<1>1. TypeOK /\ TypeOK'
  BY TypeNext DEF SeatsInv
<1>2. ASSUME desks' = desks, seats' = seats PROVE SeatsSafe' /\ NobodyComes
  BY <1>1, <1>2, NothingMoves, SeatsFollow
<1>3. ASSUME NEW c \in Clients, Tells(c) PROVE SeatsSafe' /\ JoinsOnce'
  <2>1. PICK m \in Command, x \in {"first", "beside", "gone"} :
          /\ Send(m)
          /\ m.client = c
          /\ session' = [session EXCEPT ![m.client] = x]
          /\ IsJoin(m) => session[m.client] = "connecting"
    BY <1>3 DEF Tells
  <2>2. JoinsOnce'
    BY <2>1, SendKeepsJoins
  <2>3. QED
    BY <1>2, <2>1, <2>2 DEF Send
<1>4. CASE ClientJoined
  <2>1. SeatsSafe'
    BY <1>4, ClientJoinedTakes
    DEF Alone, SeatsSafe, SeatsTellDesks, BesideGivesBack, BesideIsTheHolders
  <2>2. Received("ClientJoined") /\ ClientsMove
    BY <1>4, ClientJoinedTakes, JoinerIsOnNoDesk DEF Alone, ClientsMove, Desk
  <2>3. QED
    BY <2>1, <2>2, ReceivedKeepsJoins
<1>5. CASE RefuseBeside
  <2>1. SeatsSafe' /\ Received("BesideJoined") /\ ClientsMove
    BY <1>5, RefuseBesideRefuses
    DEF SeatsSafe, ClientsMove, SeatsInv, SeatsTellDesks, BesideGivesBack,
        BesideIsTheHolders
  <2>2. QED
    BY <2>1, ReceivedKeepsJoins
<1>6. CASE BesideJoined
  <2>1. Received("BesideJoined") /\ Head(commands).client \in Clients
    BY <1>6, BesideJoinedSits
  <2>2. CASE DesktopStands(desks', seats') /\ Ends(desks', seats')
    <3>1. SeatsSafe' /\ NobodyComes
      BY <1>1, <2>2, SeatsFollow
    <3>2. QED
      BY <2>1, <3>1, ReceivedKeepsJoins DEF ClientsMove, NobodyComes
  <2>3. CASE Sits(Head(commands).client)
    <3>1. SeatsSafe'
      BY <2>1, <2>3, ClientsAreSomebody
      DEF Sits, SeatsSafe, SeatsInv, SeatsTellDesks, BesideGivesBack, BesideIsTheHolders
    <3>2. ClientsMove
      BY <2>1, <2>3, JoinerIsOnNoDesk DEF Sits, ClientsMove, Desk
    <3>3. QED
      BY <2>1, <3>1, <3>2, ReceivedKeepsJoins
  <2>4. QED
    BY <1>6, <2>2, <2>3, BesideJoinedSits
<1>7. CASE ClientLeft
  <2>1. Received("ClientLeft")
    BY <1>7, ClientLeftLeaves
  <2>2. SeatsSafe' /\ NobodyComes
    <3>1. CASE Alone(Nobody)
      BY <3>1 DEF Alone, SeatsSafe, SeatsTellDesks, BesideGivesBack,
                  BesideIsTheHolders, NobodyComes, Desk
    <3>2. CASE DesktopStands(desks', seats') /\ Ends(desks', seats')
      BY <1>1, <3>2, SeatsFollow
    <3>3. CASE desks' = desks /\ seats' = seats
      BY <1>2, <3>3
    <3>4. QED
      BY <1>7, <3>1, <3>2, <3>3, ClientLeftLeaves
  <2>3. QED
    BY <2>1, <2>2, ReceivedKeepsJoins DEF ClientsMove, NobodyComes
<1>8. CASE Elsewhere
  <2>1. SeatsSafe' /\ NobodyComes
    BY <1>1, <1>8, ElsewhereStands, SeatsFollow
  <2>2. Received("SelectOutput") \/ UNCHANGED <<session, commands>>
    BY <1>8 DEF Elsewhere, SelectOutput, Bind, OutputDone, GlobalRemove,
                BufferDone, FrameReady, CaptureFailed, CaptureTimer, Capture
  <2>3. QED
    BY <2>1, <2>2, ReceivedKeepsJoins, ElseKeepsJoins DEF ClientsMove, NobodyComes
<1>9. CASE UNCHANGED vars
  BY <1>2, <1>9, ElseKeepsJoins DEF vars
<1>10. QED
  BY <1>1, <1>3, <1>4, <1>5, <1>6, <1>7, <1>8, <1>9, SessionTells
  DEF Next, Handle, Elsewhere

(* The inductive invariant of the seats, from which what follows is read:  *)
(* the seats tell the desks, a display beside is its client's and gives    *)
(* its desk back, and a connection joins once (handle_command).            *)
THEOREM SeatsCorrect == Spec => []SeatsInv
BY SeatsInit, SeatsNext, PTL DEF Spec

(* The seats always say who is on the desks, whoever joins, is refused, is *)
(* ended or leaves, in whatever order (seats_beside_ended, client_left).   *)
THEOREM SeatsTell == Spec => []SeatsTellDesks
<1>1. SeatsInv => SeatsTellDesks
  BY DEF SeatsInv
<1>2. QED
  BY <1>1, SeatsCorrect, PTL

(* A display beside is that of the client on the desktop, and a later      *)
(* connection than that client's own.                                      *)
THEOREM BesideIsHolders == Spec => []BesideIsTheHolders
<1>1. SeatsInv => BesideIsTheHolders
  BY DEF SeatsInv
<1>2. QED
  BY <1>1, SeatsCorrect, PTL

-----------------------------------------------------------------------------
(* The verdicts stand, and e does not come to be beside.                   *)
Kept(e) == Later(seats') /\ (seats'.beside = e => seats.beside = e)

LEMMA VerdictsNext ==
  ASSUME SeatsInv, [Next]_vars
  PROVE  \A c \in Clients : seats.besideEnded >= c =>
           /\ seats'.besideEnded >= c
           /\ seats'.beside = c => seats.beside = c
<1>1. /\ TypeOK /\ TypeOK' /\ FIRST \in Desk
      /\ seats.besideEnded \in Nat /\ seats'.besideEnded \in Nat
  BY TypeNext, ClientsAreSomebody DEF SeatsInv, TypeOK, Nobody, Desk
<1>2. SUFFICES ASSUME NEW e \in Clients, seats.besideEnded >= e PROVE Kept(e)
  BY <1>1, ClientsAreSomebody DEF Kept, Later
<1> USE DEF Kept
<1>3. e \in Nat /\ e # Nobody
  BY ClientsAreSomebody
<1>4. ASSUME seats' = seats PROVE Kept(e)
  BY <1>4, SeatsStandLater
<1>5. ASSUME NEW c \in Clients, Tells(c) PROVE Kept(e)
  BY <1>4, <1>5 DEF Tells, Send
<1>6. CASE ClientJoined
  BY <1>3, <1>6, ClientJoinedTakes DEF Alone
<1>7. CASE RefuseBeside
  BY <1>7, RefuseBesideRefuses
<1>8. CASE BesideJoined
  <2>1. CASE DesktopStands(desks', seats') /\ Ends(desks', seats')
    BY <1>3, <2>1 DEF DesktopStands, Ends
  <2>2. CASE Sits(Head(commands).client)
    BY <1>1, <1>2, <1>3, <1>8, <2>2, BesideJoinedSits, ClientsAreSomebody DEF Sits
  <2>3. QED
    BY <1>8, <2>1, <2>2, BesideJoinedSits
<1>9. CASE ClientLeft
  BY <1>3, <1>9, ClientLeftLeaves, SeatsStandLater DEF Alone, DesktopStands, Ends
<1>10. CASE Elsewhere
  BY <1>1, <1>3, <1>10, ElsewhereStands DEF DesktopStands, Stands, Ends
<1>11. CASE UNCHANGED vars
  BY <1>4, <1>11 DEF vars
<1>12. QED
  BY <1>1, <1>5, <1>6, <1>7, <1>8, <1>9, <1>10, <1>11, SessionTells
  DEF Next, Handle, Elsewhere

(* A connection beside that was ended or refused stays so, and is never    *)
(* seated afterwards (Seats::beside_ended only goes up, and join_beside    *)
(* looks at it).                                                           *)
THEOREM VerdictsStand == Spec => BesideVerdictStands
<1>1. SeatsInv /\ [Next]_vars =>
        [\A c \in Clients : seats.besideEnded >= c =>
           /\ seats'.besideEnded >= c
           /\ seats'.beside = c => seats.beside = c]_vars
  BY VerdictsNext
<1>2. QED
  BY <1>1, SeatsCorrect, PTL DEF Spec, BesideVerdictStands

-----------------------------------------------------------------------------
(***************************************************************************)
(* Desks implements Desktop.                                               *)
(***************************************************************************)

(* The turns a step takes: none, or that of one connection.                *)
LEMMA PendingIs ==
  ASSUME TypeOK, NEW e
  PROVE  Pending(e) <=> \E i \in 1 .. Len(commands) :
                          IsJoin(commands[i]) /\ commands[i].client = e
BY DEF TypeOK, Pending, IsJoin

LEMMA PendingIsPrimed ==
  ASSUME TypeOK', NEW e
  PROVE  Pending(e)' <=> \E i \in 1 .. Len(commands') :
                           IsJoin(commands'[i]) /\ commands'[i].client = e
BY DEF TypeOK, Pending, IsJoin

LEMMA TellsTurn ==
  ASSUME SeatsInv, TypeOK', NEW c \in Clients, Tells(c)
  PROVE  Spent' = Spent \/ (c \notin Spent /\ Spent' = Spent \cup {c})
<1>1. PICK m \in Command, x \in {"first", "beside", "gone"} :
        /\ Send(m)
        /\ m.client = c
        /\ session' = [session EXCEPT ![c] = x]
        /\ IsJoin(m) => session[c] = "connecting"
        /\ ~IsJoin(m) => x \in {"gone", session[c]}
  BY DEF Tells
<1>2. TypeOK /\ commands \in Seq(Command) /\ commands' = Append(commands, m)
  BY <1>1 DEF Send, SeatsInv, TypeOK
<1>3. /\ Len(commands') = Len(commands) + 1 /\ Len(commands) \in Nat
      /\ commands'[Len(commands) + 1] = m
      /\ \A i \in 1 .. Len(commands) : commands'[i] = commands[i]
  BY <1>2
<1>4. /\ session'[c] = x
      /\ \A e \in Clients : e # c => session'[e] = session[e]
  BY <1>1, <1>2 DEF TypeOK
<1>5. \A e \in Clients : Pending(e)' <=> Pending(e) \/ (IsJoin(m) /\ e = c)
  BY <1>1, <1>2, <1>3, PendingIs, PendingIsPrimed
<1>6. session[c] = "connecting" => ~Pending(c)
  BY <1>2, PendingIs DEF SeatsInv, JoinsOnce
<1>7. \A e \in Clients : e # c => (e \in Spent' <=> e \in Spent)
  BY <1>4, <1>5 DEF Spent
<1>8. c \in Spent => c \in Spent'
  BY <1>1, <1>4, <1>5 DEF Spent
<1>9. Spent \subseteq Clients /\ Spent' \subseteq Clients
  BY DEF Spent
<1>10. QED
  BY <1>7, <1>8, <1>9

LEMMA ReceivedTurn ==
  ASSUME SeatsInv, TypeOK', NEW type, Received(type)
  PROVE  IF IsJoin(Head(commands))
         THEN /\ Head(commands).client \notin Spent
              /\ Spent' = Spent \cup {Head(commands).client}
         ELSE Spent' = Spent
<1>1. PICK c : c = Head(commands).client
  OBVIOUS
<1>2. TypeOK /\ c \in Clients /\ session' = session
  BY <1>1, ReceivedType DEF SeatsInv
<1>3. /\ commands \in Seq(Command) /\ commands # <<>>
      /\ commands' = Tail(commands)
  BY <1>2 DEF TypeOK, Received
<1>4. /\ Len(commands') = Len(commands) - 1 /\ Len(commands) \in Nat \ {0}
      /\ \A i \in 1 .. Len(commands') : commands'[i] = commands[i + 1]
      /\ Head(commands) = commands[1]
  BY <1>3
<1>5. ASSUME NEW e
      PROVE  Pending(e) <=> Pending(e)' \/ (IsJoin(Head(commands)) /\ e = c)
  <2>1. ASSUME NEW i \in 1 .. Len(commands), IsJoin(commands[i]),
               commands[i].client = e
        PROVE  Pending(e)' \/ (IsJoin(Head(commands)) /\ e = c)
    <3>1. CASE i = 1
      BY <1>1, <1>4, <2>1, <3>1
    <3>2. CASE i # 1
      <4>1. i - 1 \in 1 .. Len(commands') /\ (i - 1) + 1 = i
        BY <1>4, <3>2
      <4>2. commands'[i - 1] = commands[i]
        BY <1>4, <4>1
      <4>3. QED
        BY <2>1, <4>1, <4>2, PendingIsPrimed
    <3>3. QED
      BY <3>1, <3>2
  <2>2. ASSUME NEW i \in 1 .. Len(commands'), IsJoin(commands'[i]),
               commands'[i].client = e
        PROVE  Pending(e)
    <3>1. i + 1 \in 1 .. Len(commands) /\ commands'[i] = commands[i + 1]
      BY <1>4
    <3>2. QED
      BY <1>2, <2>2, <3>1, PendingIs
  <2>3. IsJoin(Head(commands)) => Pending(c)
    <3>1. 1 \in 1 .. Len(commands)
      BY <1>4
    <3>2. QED
      BY <1>1, <1>2, <1>4, <3>1, PendingIs
  <2>4. QED
    BY <1>2, <2>1, <2>2, <2>3, PendingIs, PendingIsPrimed
<1>6. CASE IsJoin(Head(commands))
  <2>1. session[c] # "connecting"
    BY <1>1, <1>4, <1>6 DEF SeatsInv, JoinsOnce
  <2>2. ~Pending(c)'
    <3>1. ASSUME NEW i \in 1 .. Len(commands'), IsJoin(commands'[i]),
                 commands'[i].client = c
          PROVE  FALSE
      <4>1. i + 1 \in 1 .. Len(commands) /\ 1 \in 1 .. Len(commands) /\ i + 1 # 1
        BY <1>4
      <4>2. QED
        BY <1>1, <1>4, <1>6, <3>1, <4>1 DEF SeatsInv, JoinsOnce
    <3>2. QED
      BY <3>1, PendingIsPrimed
  <2>3. c \notin Spent
    BY <1>5, <1>6 DEF Spent
  <2>4. Spent' = Spent \cup {c}
    BY <1>2, <1>5, <2>1, <2>2 DEF Spent
  <2>5. QED
    BY <1>1, <1>6, <2>3, <2>4
<1>7. CASE ~IsJoin(Head(commands))
  <2>1. Spent' = Spent
    BY <1>2, <1>5, <1>7 DEF Spent
  <2>2. QED
    BY <1>7, <2>1
<1>8. QED
  BY <1>6, <1>7

-----------------------------------------------------------------------------
LEMMA PromiseInit == Init => Promise!Init
<1> SUFFICES ASSUME Init PROVE Promise!Init
  OBVIOUS
<1>1. Spent = {}
  BY DEF Init, Spent
<1>2. QED
  BY <1>1 DEF Init, Promise!Init, Promise!Nobody, Nobody

(* Every step of the desks is one turn of a connection, the desktop being  *)
(* let go, the display beside ending, or nothing at all.                   *)
LEMMA PromiseNext ==
  ASSUME SeatsInv, [Next]_vars
  PROVE  [Promise!Next]_(Promise!vars)
<1> USE DEF Promise!Nobody, Nobody
<1>1. TypeOK /\ TypeOK'
  BY TypeNext DEF SeatsInv
<1>2. ASSUME seats' = seats, Spent' = Spent PROVE [Promise!Next]_(Promise!vars)
  BY <1>2 DEF Promise!vars
<1>3. ASSUME DesktopStands(desks', seats'),
             Stands(desks', seats') \/ Ends(desks', seats'),
             Spent' = Spent
      PROVE  [Promise!Next]_(Promise!vars)
  <2>1. /\ seats'.holder = seats.holder
        /\ seats'.beside \in {seats.beside, Nobody}
    BY <1>3 DEF DesktopStands, Stands, Ends
  <2>2. CASE seats'.beside = seats.beside
    BY <1>3, <2>1, <2>2 DEF Promise!vars
  <2>3. CASE seats'.beside # seats.beside
    <3>1. Promise!Unseat
      BY <1>3, <2>1, <2>3 DEF Promise!Unseat
    <3>2. QED
      BY <3>1 DEF Promise!Next
  <2>4. QED
    BY <2>2, <2>3
<1>4. ASSUME NEW c \in Clients, Tells(c) PROVE [Promise!Next]_(Promise!vars)
  <2>1. seats' = seats
    BY <1>4 DEF Tells, Send
  <2>2. CASE Spent' = Spent
    BY <1>2, <2>1, <2>2
  <2>3. CASE c \notin Spent /\ Spent' = Spent \cup {c}
    <3>1. Promise!Forgo(c)
      BY <2>1, <2>3 DEF Promise!Forgo, Promise!Turn
    <3>2. QED
      BY <3>1 DEF Promise!Next
  <2>4. QED
    BY <1>1, <1>4, <2>2, <2>3, TellsTurn
<1>5. ASSUME NEW type \in {"ClientJoined", "BesideJoined"}, Received(type)
      PROVE  Promise!Turn(Head(commands).client)
  BY <1>1, <1>5, ReceivedTurn, JoinerIsOnNoDesk DEF Promise!Turn
<1>6. ASSUME NEW type \in {"ClientLeft", "SelectOutput"}, Received(type)
      PROVE  Spent' = Spent
  BY <1>1, <1>6, ReceivedTurn DEF Received, IsJoin
<1>7. CASE ClientJoined
  <2>1. PICK c \in Clients : c = Head(commands).client
    BY <1>7, ClientJoinedTakes
  <2>2. Promise!Take(c)
    BY <1>5, <1>7, <2>1, ClientJoinedTakes DEF Promise!Take, Alone
  <2>3. QED
    BY <2>2 DEF Promise!Next
<1>8. CASE RefuseBeside
  <2>1. PICK c \in Clients : c = Head(commands).client
    BY <1>8, RefuseBesideRefuses
  <2>2. Promise!Forgo(c)
    BY <1>5, <1>8, <2>1, RefuseBesideRefuses DEF Promise!Forgo
  <2>3. QED
    BY <2>2 DEF Promise!Next
<1>9. CASE BesideJoined
  <2>1. PICK c \in Clients : c = Head(commands).client
    BY <1>9, BesideJoinedSits
  <2>2. Promise!Turn(c)
    BY <1>5, <1>9, <2>1, BesideJoinedSits
  <2>3. CASE DesktopStands(desks', seats') /\ Ends(desks', seats')
    <3>1. Promise!Forgo(c)
      BY <2>2, <2>3 DEF Promise!Forgo, DesktopStands, Ends
    <3>2. QED
      BY <3>1 DEF Promise!Next
  <2>4. CASE Sits(c)
    <3>1. seats.holder \in Clients /\ seats.holder < c
      BY <2>4 DEF Sits, SeatsInv, SeatsTellDesks
    <3>2. Promise!Seat(c)
      BY <2>2, <2>4, <3>1, ClientsAreSomebody DEF Promise!Seat, Sits
    <3>3. QED
      BY <3>2 DEF Promise!Next
  <2>5. QED
    BY <1>9, <2>1, <2>3, <2>4, BesideJoinedSits
<1>10. CASE ClientLeft
  <2>1. Spent' = Spent
    BY <1>6, <1>10, ClientLeftLeaves
  <2>2. CASE desks[FIRST].client # Nobody /\ Alone(Nobody)
    <3>1. Promise!Vacate
      BY <2>1, <2>2 DEF Promise!Vacate, Alone, SeatsInv, SeatsTellDesks
    <3>2. QED
      BY <3>1 DEF Promise!Next
  <2>3. QED
    BY <1>2, <1>3, <1>10, <2>1, <2>2, ClientLeftLeaves
<1>11. CASE Elsewhere
  <2>1. Received("SelectOutput") \/ UNCHANGED <<session, commands>>
    BY <1>11 DEF Elsewhere, SelectOutput, Bind, OutputDone, GlobalRemove,
                 BufferDone, FrameReady, CaptureFailed, CaptureTimer, Capture
  <2>2. UNCHANGED <<session, commands>> => Spent' = Spent
    BY DEF Spent, Pending
  <2>3. Spent' = Spent
    BY <1>6, <2>1, <2>2
  <2>4. QED
    BY <1>1, <1>3, <1>11, <2>3, ElsewhereStands
<1>12. CASE UNCHANGED vars
  BY <1>2, <1>12 DEF vars, Spent, Pending
<1>13. QED
  BY <1>1, <1>4, <1>7, <1>8, <1>9, <1>10, <1>11, <1>12, SessionTells
  DEF Next, Handle, Elsewhere

(* The seats follow the abstract desktop: a takeover is one step, a        *)
(* display beside goes with its client in that same step, and no           *)
(* connection has a second turn (handle_command and Shared::end_beside).   *)
THEOREM DesksFollowDesktop == Spec => FollowsDesktop
<1>1. Init => Promise!Init
  BY PromiseInit
<1>2. SeatsInv /\ [Next]_vars => [Promise!Next]_(Promise!vars)
  BY PromiseNext
<1>3. QED
  BY <1>1, <1>2, SeatsCorrect, PTL DEF Spec, FollowsDesktop, Promise!Spec

-----------------------------------------------------------------------------
(* The outputs.                                                            *)

(* What a desk shares is listed: the desktop's while there is one, and     *)
(* always that of a display beside.                                        *)
SharedIsListed ==
  /\ desks[FIRST].selected \in done \cup {NoOutput}
  /\ desks[BESIDE].client # Nobody => desks[BESIDE].selected \in done

OutputsSafe ==
  /\ SharedIsListed
  /\ OutputOnOneDesk
  /\ DesktopHasItsOutput
  /\ ListingIsCurrent

OutputsInv == SeatsInv /\ OutputsSafe

-----------------------------------------------------------------------------
LEMMA OutputsAreSomething == NoOutput \notin Outputs
BY OutputsAssumption DEF NoOutput

LEMMA EmptyDeskShows == EmptyDesk.client = Nobody /\ EmptyDesk.selected = NoOutput
BY DEF EmptyDesk

LEMMA ListingIs ==
  ASSUME NEW D, NEW E, NEW outs, NEW ready,
         \A d \in Desk : D[d].selected = E[d].selected
  PROVE  Listing(D, outs, ready) = Listing(E, outs, ready)
BY DEF Listing

(* A display beside shows nothing that is not listed.                      *)
LEMMA BesideShows ==
  ASSUME OutputsInv
  PROVE  desks[BESIDE].selected \in done \cup {NoOutput}
BY EmptyDeskShows DEF OutputsInv, OutputsSafe, SharedIsListed, SeatsInv, BesideGivesBack

(* What the second desk shares stays, or is given back with the desk.      *)
BesideKeeps ==
  \/ desks'[BESIDE] = EmptyDesk
  \/ /\ desks'[BESIDE].selected = desks[BESIDE].selected
     /\ desks'[BESIDE].client = desks[BESIDE].client

Relisted == displays' = Listing(desks', outputs', done')

(* A step in which the desktop stays where it is, and no output comes or   *)
(* goes.                                                                   *)
LEMMA DesktopStays ==
  ASSUME OutputsInv, UNCHANGED <<outputs, done, chosen>>,
         desks'[FIRST].selected = desks[FIRST].selected,
         BesideKeeps,
         \/ Relisted
         \/ /\ displays' = displays
            /\ desks'[BESIDE].selected = desks[BESIDE].selected
  PROVE  OutputsSafe'
<1>1. SharedIsListed' /\ OutputOnOneDesk' /\ DesktopHasItsOutput'
  BY EmptyDeskShows
  DEF OutputsInv, OutputsSafe, SharedIsListed, OutputOnOneDesk, DesktopHasItsOutput,
      BesideKeeps
<1>2. CASE Relisted
  BY <1>1, <1>2 DEF OutputsSafe, ListingIsCurrent, Relisted
<1>3. CASE /\ displays' = displays
           /\ desks'[BESIDE].selected = desks[BESIDE].selected
  <2>1. \A d \in Desk : desks'[d].selected = desks[d].selected
    BY <1>3 DEF Desk
  <2>2. Listing(desks', outputs, done) = Listing(desks, outputs, done)
    BY <2>1, ListingIs
  <2>3. QED
    BY <1>1, <1>3, <2>2 DEF OutputsInv, OutputsSafe, ListingIsCurrent
<1>4. QED
  BY <1>2, <1>3

(* A step that moves the desktop to a listed output.                       *)
LEMMA DesktopMoves ==
  ASSUME OutputsInv, TypeOK', NEW o \in done',
         done \subseteq done' \cup {desks[FIRST].selected},
         desks'[FIRST].selected = o,
         \/ desks'[BESIDE] = EmptyDesk
         \/ desks'[BESIDE] = desks[BESIDE] /\ desks[BESIDE].selected # o,
         Relisted,
         Wanted \in done' /\ ~chosen' => o = Wanted
  PROVE  OutputsSafe'
<1>1. o # NoOutput
  BY OutputsAreSomething DEF TypeOK
<1>2. desks[BESIDE].client # Nobody => desks[BESIDE].selected \in done'
  BY OutputsAreSomething
  DEF OutputsInv, OutputsSafe, SharedIsListed, OutputOnOneDesk, SeatsInv, TypeOK
<1>3. QED
  BY <1>1, <1>2, EmptyDeskShows
  DEF OutputsSafe, SharedIsListed, OutputOnOneDesk, DesktopHasItsOutput,
      ListingIsCurrent, Relisted

LEMMA RestartedSelected ==
  ASSUME NEW k \in DeskState, NEW o \in Outputs, NEW outs \in SUBSET Outputs
  PROVE  Started([Stopped(k) EXCEPT !.selected = o, !.picture = Blank], outs).selected = o
<1>1. PICK s \in DeskState : s = Stopped(k)
  BY StoppedType
<1>2. PICK m : m = [s EXCEPT !.selected = o, !.picture = Blank]
  OBVIOUS
<1>3. m \in DeskState /\ m.selected = o
  BY <1>2, MovedType
<1>4. Started(m, outs).selected = o
  BY <1>3, StartedType
<1>5. QED
  BY <1>1, <1>2, <1>4

(* share_output, and what it takes from the second desk.                   *)
LEMMA SharedShares ==
  ASSUME SeatsInv, NEW o \in Outputs, NEW outs \in SUBSET Outputs
  PROVE  LET D == Shared(FIRST, o, outs)
         IN  /\ D[FIRST].selected = o
             /\ D[BESIDE] = IF desks[BESIDE].selected = o THEN EmptyDesk ELSE desks[BESIDE]
<1>1. PICK D \in [Desk -> DeskState] :
        D = IF TakesFromBeside(FIRST, o) THEN BesideEnded(desks) ELSE desks
  BY BesideEndedType DEF SeatsInv, TypeOK
<1>2. PICK k : k = Started([Stopped(D[FIRST]) EXCEPT !.selected = o, !.picture = Blank],
                           outs)
  OBVIOUS
<1>3. k.selected = o
  BY <1>2, RestartedSelected DEF Desk
<1>4. Shared(FIRST, o, outs) = [D EXCEPT ![FIRST] = k]
  BY <1>1, <1>2 DEF Shared
<1>5. Shared(FIRST, o, outs)[FIRST].selected = o /\ Shared(FIRST, o, outs)[BESIDE] = D[BESIDE]
  BY <1>3, <1>4 DEF FIRST, BESIDE, Desk
<1>6. D[BESIDE] = IF desks[BESIDE].selected = o THEN EmptyDesk ELSE desks[BESIDE]
  BY <1>1, BesideEndedEnds DEF TakesFromBeside, Ends
<1>7. QED
  BY <1>5, <1>6

LEMMA AdoptableIs ==
  ASSUME NEW S, Wanted \in S
  PROVE  Adoptable(S) = Wanted
BY DEF Adoptable

-----------------------------------------------------------------------------
LEMMA OutputsInit == Init => OutputsInv
<1> SUFFICES ASSUME Init PROVE OutputsInv
  OBVIOUS
<1>1. PICK o \in outputs :
        /\ Wanted \in outputs => o = Wanted
        /\ desks = [d \in Desk |-> IF d = FIRST
                                   THEN [EmptyDesk EXCEPT !.selected = o]
                                   ELSE EmptyDesk]
        /\ displays = [active  |-> [d \in Desk |-> IF d = FIRST THEN o
                                                                ELSE NoOutput],
                       entries |-> outputs]
  BY DEF Init
<1>2. done = outputs /\ outputs \subseteq Outputs /\ NoOutput \notin outputs
  BY OutputsAreSomething DEF Init
<1>3. /\ desks[FIRST].selected = o
      /\ desks[BESIDE] = EmptyDesk
  BY <1>1 DEF Desk, FIRST, BESIDE, EmptyDesk
<1>4. ListingIsCurrent
  BY <1>1, <1>2, <1>3, EmptyDeskShows DEF ListingIsCurrent, Listing, Desk
<1>5. SharedIsListed
  BY <1>1, <1>2, <1>3, EmptyDeskShows DEF SharedIsListed
<1>6. OutputOnOneDesk
  BY <1>1, <1>2, <1>3, EmptyDeskShows DEF OutputOnOneDesk
<1>7. DesktopHasItsOutput
  BY <1>1, <1>2, <1>3 DEF DesktopHasItsOutput
<1>8. QED
  BY <1>4, <1>5, <1>6, <1>7, SeatsInit DEF OutputsInv, OutputsSafe

(* The display beside ends, or was not there.                              *)
LEMMA BesideEndedKeeps ==
  ASSUME SeatsInv
  PROVE  /\ BesideEnded(desks) \in [Desk -> DeskState]
         /\ BesideEnded(desks)[FIRST] = desks[FIRST]
         /\ BesideEnded(desks)[BESIDE] = EmptyDesk
         /\ desks[BESIDE].client = Nobody => BesideEnded(desks) = desks
BY BesideEndedType, BesideEndedEnds DEF Ends, SeatsInv, TypeOK, BesideEnded

(* The list after an end_beside, where the desktop's output is as before.  *)
LEMMA ListedBesideEnded ==
  ASSUME OutputsInv, UNCHANGED <<outputs, done, chosen>>, ListBesideEnded,
         desks'[FIRST].selected = desks[FIRST].selected,
         desks'[BESIDE] = IF desks[BESIDE].client = Nobody THEN desks[BESIDE]
                                                           ELSE EmptyDesk
  PROVE  OutputsSafe'
<1>1. BesideKeeps
  BY DEF BesideKeeps
<1>2. \/ Relisted
      \/ displays' = displays /\ desks'[BESIDE].selected = desks[BESIDE].selected
  BY DEF ListBesideEnded, Relisted
<1>3. QED
  BY <1>1, <1>2, DesktopStays

LEMMA CommandsList ==
  ASSUME OutputsInv, TypeOK', ClientJoined \/ RefuseBeside \/ ClientLeft
  PROVE  OutputsSafe'
<1>1. SeatsInv /\ TypeOK
  BY DEF OutputsInv, SeatsInv
<1>2. /\ desks \in [Desk -> DeskState] /\ FIRST \in Desk /\ BESIDE \in Desk
      /\ FIRST # BESIDE
  BY <1>1 DEF TypeOK, Desk, FIRST, BESIDE
<1>3. PICK D \in [Desk -> DeskState] : D = BesideEnded(desks)
  BY <1>1, BesideEndedKeeps
<1>4. /\ D[FIRST] = desks[FIRST]
      /\ D[BESIDE] = EmptyDesk
      /\ desks[BESIDE].client = Nobody => D = desks
  BY <1>1, <1>3, BesideEndedKeeps
<1>5. CASE desks' = desks /\ displays' = displays /\ UNCHANGED <<outputs, done, chosen>>
  BY <1>5, DesktopStays DEF BesideKeeps
<1>6. CASE ClientJoined
  <2>1. PICK c : c = Head(commands).client
    OBVIOUS
  <2>2. c \in Clients
    BY <1>1, <1>6, <2>1, ClientJoinedTakes
  <2>3. PICK k \in DeskState : k = [desks[FIRST] EXCEPT !.client = c]
    <3>1. desks[FIRST] \in DeskState
      BY <1>2
    <3>2. QED
      BY <2>2, <3>1 DEF DeskState
  <2>4. k.selected = desks[FIRST].selected
    BY <1>2, <2>3 DEF DeskState
  <2>5. Started(k, outputs).selected = desks[FIRST].selected
    BY <1>1, <2>3, <2>4, StartedType DEF TypeOK
  <2>6. \/ desks' = [D EXCEPT ![FIRST] = Started(k, outputs)]
        \/ /\ desks[BESIDE].client = Nobody
           /\ desks' = [desks EXCEPT ![FIRST] = Started(k, outputs)]
    BY <1>1, <1>3, <1>4, <1>6, <2>1, <2>3
    DEF ClientJoined, SeatsInv, BesideIsTheHolders
  <2>7. /\ desks'[FIRST].selected = desks[FIRST].selected
        /\ desks'[BESIDE] = IF desks[BESIDE].client = Nobody THEN desks[BESIDE]
                                                             ELSE EmptyDesk
    BY <1>2, <1>4, <2>5, <2>6
  <2>8. QED
    BY <1>6, <2>7, ListedBesideEnded DEF ClientJoined
<1>7. CASE /\ desks[FIRST].client = Head(commands).client
           /\ desks' = [D EXCEPT ![FIRST] = Stopped([D[FIRST] EXCEPT !.client = Nobody])]
           /\ ListBesideEnded
           /\ UNCHANGED <<outputs, done, chosen>>
  <2>1. PICK k \in DeskState : k = [D[FIRST] EXCEPT !.client = Nobody]
    <3>1. D[FIRST] \in DeskState
      BY <1>2
    <3>2. QED
      BY <3>1 DEF DeskState
  <2>2. k.selected = desks[FIRST].selected
    BY <1>2, <1>4, <2>1 DEF DeskState
  <2>3. Stopped(k).selected = desks[FIRST].selected
    BY <2>2, StoppedType
  <2>4. /\ desks'[FIRST].selected = desks[FIRST].selected
        /\ desks'[BESIDE] = IF desks[BESIDE].client = Nobody THEN desks[BESIDE]
                                                             ELSE EmptyDesk
    BY <1>2, <1>4, <1>7, <2>1, <2>3
  <2>5. QED
    BY <1>7, <2>4, ListedBesideEnded
<1>8. CASE desks' = D /\ ListBesideEnded /\ UNCHANGED <<outputs, done, chosen>>
  BY <1>4, <1>8, ListedBesideEnded
<1>9. CASE RefuseBeside
  BY <1>5, <1>9, RefuseBesideRefuses DEF RefuseBeside
<1>10. CASE ClientLeft
  BY <1>3, <1>5, <1>7, <1>8, <1>10 DEF ClientLeft
<1>11. QED
  BY <1>6, <1>9, <1>10

(* The seat beside shows a listed output that the desktop is not on.       *)
LEMMA BesideJoinedLists ==
  ASSUME OutputsInv, TypeOK', BesideJoined
  PROVE  OutputsSafe'
<1>1. SeatsInv /\ TypeOK
  BY DEF OutputsInv, SeatsInv
<1>2. /\ desks \in [Desk -> DeskState] /\ FIRST \in Desk /\ BESIDE \in Desk
      /\ FIRST # BESIDE
  BY <1>1 DEF TypeOK, Desk, FIRST, BESIDE
<1>3. PICK D \in [Desk -> DeskState] : D = BesideEnded(desks)
  BY <1>1, BesideEndedKeeps
<1>4. /\ D[FIRST] = desks[FIRST]
      /\ D[BESIDE] = EmptyDesk
      /\ desks[BESIDE].client = Nobody => D = desks
  BY <1>1, <1>3, BesideEndedKeeps
<1>5. CASE Others = {}
  <2>1. desks' = D /\ ListBesideEnded /\ UNCHANGED <<outputs, done, chosen>>
    BY <1>3, <1>5 DEF BesideJoined
  <2>2. QED
    BY <1>4, <2>1, ListedBesideEnded
<1>6. CASE Others # {}
  <2>1. PICK c : c = Head(commands).client
    OBVIOUS
  <2>2. c \in Clients
    BY <1>1, <2>1, BesideJoinedSits
  <2>3. PICK o \in Others : o = First(Others)
    BY <1>1, <1>6, FirstIsIn, Others \in SUBSET Outputs DEF Others, TypeOK
  <2>4. o \in done /\ o \in Outputs /\ o # desks[FIRST].selected
    BY <1>1, <2>3 DEF Others, TypeOK
  <2>5. PICK k : k = [D[BESIDE] EXCEPT !.client   = c,
                                       !.selected = o,
                                       !.picture  = Blank,
                                       !.frame    = NoFrame,
                                       !.timer    = FALSE]
    OBVIOUS
  <2>6. D[BESIDE] \in DeskState
    BY <1>2
  <2>7. k \in DeskState /\ k.selected = o
    BY <2>2, <2>4, <2>5, <2>6 DEF DeskState, Frame
  <2>8. Started(k, outputs).selected = o
    BY <1>1, <2>7, StartedType DEF TypeOK
  <2>9. /\ desks' = [D EXCEPT ![BESIDE] = Started(k, outputs)]
        /\ displays' = Listing(desks', outputs, done)
        /\ UNCHANGED <<outputs, done, chosen>>
    BY <1>3, <1>6, <2>1, <2>3, <2>5 DEF BesideJoined
  <2>10. desks'[FIRST] = desks[FIRST] /\ desks'[BESIDE].selected = o
    BY <1>2, <1>4, <2>8, <2>9
  <2>11. QED
    BY <2>4, <2>9, <2>10
    DEF OutputsInv, OutputsSafe, SharedIsListed, OutputOnOneDesk, DesktopHasItsOutput,
        ListingIsCurrent
<1>7. QED
  BY <1>5, <1>6

LEMMA SelectOutputLists ==
  ASSUME OutputsInv, TypeOK', SelectOutput
  PROVE  OutputsSafe'
<1>1. PICK o : o = Head(commands).output
  OBVIOUS
<1>2. SeatsInv /\ TypeOK /\ UNCHANGED <<outputs, done>>
  BY DEF OutputsInv, SeatsInv, SelectOutput
<1>3. CASE /\ o \in done
           /\ desks' = Shared(FIRST, o, outputs)
           /\ displays' = Listing(desks', outputs, done)
           /\ chosen' = TRUE
  <2>1. /\ desks'[FIRST].selected = o
        /\ desks'[BESIDE] = IF desks[BESIDE].selected = o THEN EmptyDesk ELSE desks[BESIDE]
    BY <1>2, <1>3, SharedShares DEF TypeOK
  <2>2. Relisted
    BY <1>2, <1>3 DEF Relisted
  <2>3. QED
    BY <1>2, <1>3, <2>1, <2>2, DesktopMoves
<1>4. CASE /\ UNCHANGED <<desks, chosen>>
           /\ displays' = Listing(desks, outputs, done) \/ displays' = displays
  BY <1>2, <1>4, DesktopStays DEF BesideKeeps, Relisted
<1>5. QED
  BY <1>1, <1>3, <1>4 DEF SelectOutput

LEMMA OutputDoneLists ==
  ASSUME OutputsInv, TypeOK', NEW o \in Outputs, OutputDone(o)
  PROVE  OutputsSafe'
<1>1. /\ SeatsInv /\ TypeOK /\ outputs' = outputs
      /\ done' = done \cup {o} /\ done' \in SUBSET Outputs /\ done' # {}
      /\ Relisted
  BY DEF OutputsInv, SeatsInv, OutputDone, TypeOK, Relisted
<1>2. CASE desks' = Shared(FIRST, Adoptable(done'), outputs) /\ chosen' = FALSE
  <2>1. PICK a \in done' : a = Adoptable(done') /\ (Wanted \in done' => a = Wanted)
    BY <1>1, AdoptableIsIn, AdoptableIs
  <2>2. /\ desks'[FIRST].selected = a
        /\ desks'[BESIDE] = IF desks[BESIDE].selected = a THEN EmptyDesk ELSE desks[BESIDE]
    BY <1>1, <1>2, <2>1, SharedShares DEF TypeOK
  <2>3. QED
    BY <1>1, <1>2, <2>1, <2>2, DesktopMoves
<1>3. CASE /\ desks[FIRST].selected # NoOutput
           /\ o = Wanted => desks[FIRST].selected = o
           /\ UNCHANGED <<desks, chosen>>
  BY <1>1, <1>3
  DEF OutputsInv, OutputsSafe, SharedIsListed, OutputOnOneDesk, DesktopHasItsOutput,
      ListingIsCurrent, Relisted
<1>4. QED
  BY <1>2, <1>3 DEF OutputDone

LEMMA GlobalRemoveLists ==
  ASSUME OutputsInv, TypeOK', NEW o \in Outputs, GlobalRemove(o)
  PROVE  OutputsSafe'
<1>1. /\ SeatsInv /\ TypeOK
      /\ done' = done \ {o} /\ done' \in SUBSET Outputs /\ outputs' \in SUBSET Outputs
      /\ Relisted
      /\ o # NoOutput
  BY OutputsAreSomething DEF OutputsInv, SeatsInv, GlobalRemove, TypeOK, Relisted
<1>2. /\ desks \in [Desk -> DeskState] /\ FIRST \in Desk /\ BESIDE \in Desk
      /\ FIRST # BESIDE
  BY <1>1 DEF TypeOK, Desk, FIRST, BESIDE
<1>3. CASE /\ desks[FIRST].selected = o /\ done' # {}
           /\ desks' = Shared(FIRST, Adoptable(done'), outputs')
           /\ chosen' = FALSE
  <2>1. PICK a \in done' : a = Adoptable(done') /\ (Wanted \in done' => a = Wanted)
    BY <1>1, <1>3, AdoptableIsIn, AdoptableIs
  <2>2. /\ desks'[FIRST].selected = a
        /\ desks'[BESIDE] = IF desks[BESIDE].selected = a THEN EmptyDesk ELSE desks[BESIDE]
    BY <1>1, <1>3, <2>1, SharedShares
  <2>3. QED
    BY <1>1, <1>3, <2>1, <2>2, DesktopMoves
<1>4. CASE /\ desks[FIRST].selected = o /\ done' = {}
           /\ desks' = [desks EXCEPT ![FIRST] = [Stopped(@) EXCEPT !.selected = NoOutput]]
  <2>1. PICK k \in DeskState : k = Stopped(desks[FIRST])
    BY <1>2, StoppedType
  <2>2. [k EXCEPT !.selected = NoOutput].selected = NoOutput
    BY DEF DeskState
  <2>3. desks'[FIRST].selected = NoOutput /\ desks'[BESIDE] = desks[BESIDE]
    BY <1>2, <1>4, <2>1, <2>2
  <2>4. desks[BESIDE].client = Nobody
    BY <1>1, <1>4 DEF OutputsInv, OutputsSafe, SharedIsListed, OutputOnOneDesk
  <2>5. QED
    BY <1>1, <1>4, <2>3, <2>4
    DEF OutputsSafe, SharedIsListed, OutputOnOneDesk, DesktopHasItsOutput,
        ListingIsCurrent, Relisted
<1>5. CASE /\ desks[FIRST].selected # o
           /\ \/ desks' = BesideEnded(desks)
              \/ desks' = desks /\ desks[BESIDE].selected # o
           /\ chosen' = chosen
  <2>1. /\ desks'[FIRST].selected = desks[FIRST].selected
        /\ \/ desks'[BESIDE] = EmptyDesk
           \/ desks'[BESIDE] = desks[BESIDE] /\ desks[BESIDE].selected # o
    BY <1>1, <1>5, BesideEndedKeeps
  <2>2. QED
    BY <1>1, <1>5, <2>1, EmptyDeskShows
    DEF OutputsInv, OutputsSafe, SharedIsListed, OutputOnOneDesk, DesktopHasItsOutput,
        ListingIsCurrent, Relisted
<1>6. QED
  BY <1>3, <1>4, <1>5 DEF GlobalRemove

(* An output that is not listed yet is on no desk.                         *)
LEMMA BindLists ==
  ASSUME OutputsInv, NEW o \in Outputs, Bind(o)
  PROVE  OutputsSafe'
<1>1. \A d \in Desk : desks[d].selected \in done \cup {NoOutput}
  BY BesideShows DEF Desk, OutputsInv, OutputsSafe, SharedIsListed
<1>2. o # NoOutput /\ outputs' = outputs \cup {o} /\ done \subseteq outputs /\ o \notin outputs
  BY OutputsAreSomething DEF Bind, OutputsInv, SeatsInv, TypeOK
<1>3. Listing(desks, outputs', done) = Listing(desks, outputs, done)
  BY <1>1, <1>2 DEF Listing
<1>4. QED
  BY <1>3
  DEF Bind, OutputsInv, OutputsSafe, SharedIsListed, OutputOnOneDesk,
      DesktopHasItsOutput, ListingIsCurrent

LEMMA CaptureLists ==
  ASSUME OutputsInv, NEW d \in Desk,
         BufferDone(d) \/ FrameReady(d) \/ CaptureFailed(d) \/ CaptureTimer(d)
  PROVE  OutputsSafe'
<1>1. TypeOK /\ desks \in [Desk -> DeskState] /\ desks[d] \in DeskState
  BY DEF OutputsInv, SeatsInv, TypeOK
<1>2. PICK k : /\ Capture(d, k)
               /\ k.client = desks[d].client
               /\ k.selected = desks[d].selected
  <2>1. CASE BufferDone(d)
    BY <1>1, <2>1 DEF BufferDone, DeskState
  <2>2. CASE FrameReady(d)
    <3>1. PICK k : k = [desks[d] EXCEPT !.frame   = NoFrame,
                                        !.picture = desks[d].frame.of,
                                        !.timer   = TRUE]
      OBVIOUS
    <3>2. k.client = desks[d].client /\ k.selected = desks[d].selected
      BY <1>1, <3>1 DEF DeskState
    <3>3. QED
      BY <2>2, <3>1, <3>2 DEF FrameReady
  <2>3. CASE CaptureFailed(d)
    <3>1. PICK k : k = [desks[d] EXCEPT !.frame = NoFrame, !.timer = TRUE]
      OBVIOUS
    <3>2. k.client = desks[d].client /\ k.selected = desks[d].selected
      BY <1>1, <3>1 DEF DeskState
    <3>3. QED
      BY <2>3, <3>1, <3>2 DEF CaptureFailed
  <2>4. CASE CaptureTimer(d)
    <3>1. PICK k : k = [desks[d] EXCEPT !.timer = FALSE]
      OBVIOUS
    <3>2. /\ k \in DeskState /\ k.client = desks[d].client
          /\ k.selected = desks[d].selected
      BY <1>1, <3>1 DEF DeskState
    <3>3. /\ Started(k, outputs).client = desks[d].client
          /\ Started(k, outputs).selected = desks[d].selected
      BY <1>1, <3>2, StartedType DEF TypeOK
    <3>4. QED
      BY <2>4, <3>1, <3>3 DEF CaptureTimer
  <2>5. QED
    BY <2>1, <2>2, <2>3, <2>4
<1>3. \A e \in Desk : /\ desks'[e].client = desks[e].client
                      /\ desks'[e].selected = desks[e].selected
  BY <1>1, <1>2 DEF Capture
<1>4. QED
  BY <1>2, <1>3, DesktopStays DEF Capture, BesideKeeps, Desk

LEMMA OutputsNext == OutputsInv /\ [Next]_vars => OutputsInv'
<1> SUFFICES ASSUME OutputsInv, [Next]_vars PROVE OutputsSafe'
  BY SeatsNext DEF OutputsInv
<1>1. TypeOK /\ TypeOK'
  BY TypeNext DEF OutputsInv, SeatsInv
<1>2. ASSUME NEW c \in Clients, Tells(c) PROVE OutputsSafe'
  BY <1>2, DesktopStays DEF Tells, Send, BesideKeeps
<1>3. CASE UNCHANGED vars
  BY <1>3, DesktopStays DEF vars, BesideKeeps
<1>4. CASE Elsewhere
  BY <1>1, <1>4, SelectOutputLists, BindLists, OutputDoneLists, GlobalRemoveLists,
     CaptureLists DEF Elsewhere
<1>5. QED
  BY <1>1, <1>2, <1>3, <1>4, SessionTells, CommandsList, BesideJoinedLists
  DEF Next, Handle, Elsewhere

(* The inductive invariant of the outputs: that of the seats, and that     *)
(* what the desks share is listed, on one desk, on the configured output,  *)
(* and told to the sessions (share_output, adopt_output, GlobalRemove).    *)
THEOREM OutputsCorrect == Spec => []OutputsInv
BY OutputsInit, OutputsNext, PTL DEF Spec

(* An output is on one desk at a time, whatever the order in which clients *)
(* select, join beside, and outputs come and go (share_output).            *)
THEOREM OnOneDesk == Spec => []OutputOnOneDesk
<1>1. OutputsInv => OutputOnOneDesk
  BY DEF OutputsInv, OutputsSafe
<1>2. QED
  BY <1>1, OutputsCorrect, PTL

(* The desktop is on an output whenever one is listed, and on the          *)
(* configured one unless a client chose another (adopt_output).            *)
THEOREM DesktopOnItsOutput == Spec => []DesktopHasItsOutput
<1>1. OutputsInv => DesktopHasItsOutput
  BY DEF OutputsInv, OutputsSafe
<1>2. QED
  BY <1>1, OutputsCorrect, PTL

(* What the sessions list is what there is (refresh_displays).             *)
THEOREM ListCurrent == Spec => []ListingIsCurrent
<1>1. OutputsInv => ListingIsCurrent
  BY DEF OutputsInv, OutputsSafe
<1>2. QED
  BY <1>1, OutputsCorrect, PTL

-----------------------------------------------------------------------------
(***************************************************************************)
(* The captures: a desk is captured while it is watched, and holds what it *)
(* shares.                                                                 *)
(***************************************************************************)

(* PictureIsOfItsOutput and CaptureAlive, of one desk.                     *)
Holds(d, k, ready) ==
  /\ k.picture # Blank => k.picture = k.selected \/ (d = FIRST /\ ready = {})
  /\ k.frame # NoFrame => k.frame.of = k.selected

Running(k, outs) ==
  /\ (k.client # Nobody /\ k.selected \in outs) <=> (k.frame # NoFrame \/ k.timer)
  /\ k.picture = Blank => k.frame.step # "damage"

Captured(d, k, outs, ready) == Holds(d, k, ready) /\ Running(k, outs)

CaptureInv ==
  /\ OutputsInv
  /\ \A d \in Desk : Captured(d, desks[d], outputs, done)

-----------------------------------------------------------------------------
LEMMA EmptyDeskCaptured ==
  ASSUME NEW d, NEW outs, NEW ready
  PROVE  Captured(d, EmptyDesk, outs, ready)
BY DEF Captured, Holds, Running, EmptyDesk, NoFrame

(* start_capture, on a desk that has no frame in flight: what is captured  *)
(* is what is watched.                                                     *)
LEMMA StartedCaptured ==
  ASSUME NEW d, NEW k \in DeskState, NEW outs \in SUBSET Outputs, NEW ready,
         Holds(d, k, ready),
         k.frame # NoFrame \/ k.timer => k.client # Nobody /\ k.selected \in outs,
         k.picture = Blank => k.frame.step # "damage"
  PROVE  Captured(d, Started(k, outs), outs, ready)
<1>1. CASE k.client = Nobody \/ k.frame # NoFrame \/ k.selected \notin outs
  BY <1>1 DEF Captured, Holds, Running, Started
<1>2. CASE ~(k.client = Nobody \/ k.frame # NoFrame \/ k.selected \notin outs)
  <2>1. PICK n : n = Started(k, outs)
    OBVIOUS
  <2>2. n = [k EXCEPT !.frame = [of |-> k.selected, step |-> "asked"]]
    BY <1>2, <2>1 DEF Started
  <2>3. /\ n.client = k.client /\ n.selected = k.selected /\ n.picture = k.picture
        /\ n.frame = [of |-> k.selected, step |-> "asked"]
    BY <2>2 DEF DeskState
  <2>4. Captured(d, n, outs, ready)
    BY <1>2, <2>3 DEF Captured, Holds, Running, NoFrame
  <2>5. QED
    BY <2>1, <2>4
<1>3. QED
  BY <1>1, <1>2

LEMMA StoppedIs ==
  ASSUME NEW k \in DeskState
  PROVE  /\ Stopped(k) \in DeskState
         /\ Stopped(k).client = k.client
         /\ Stopped(k).selected = k.selected
         /\ Stopped(k).picture = k.picture
         /\ Stopped(k).frame = NoFrame
         /\ Stopped(k).timer = FALSE
BY StoppedType DEF Stopped, DeskState

LEMMA RestartedCaptured ==
  ASSUME NEW d, NEW k \in DeskState, NEW o \in Outputs, NEW outs \in SUBSET Outputs,
         NEW ready
  PROVE  Captured(d, Started([Stopped(k) EXCEPT !.selected = o, !.picture = Blank], outs),
                  outs, ready)
<1>1. PICK s \in DeskState : s = Stopped(k) /\ s.frame = NoFrame /\ s.timer = FALSE
  BY StoppedIs
<1>2. PICK m : m = [s EXCEPT !.selected = o, !.picture = Blank]
  OBVIOUS
<1>3. m \in DeskState
  BY <1>2, MovedType
<1>4. m.frame = NoFrame /\ m.timer = FALSE /\ m.picture = Blank
  BY <1>1, <1>2 DEF DeskState
<1>5. Captured(d, Started(m, outs), outs, ready)
  BY <1>3, <1>4, StartedCaptured DEF Holds, NoFrame
<1>6. QED
  BY <1>1, <1>2, <1>5

(* What is on a desk is captured whichever outputs come and go, as long as *)
(* it shares one that stays.                                               *)
LEMMA StaysCaptured ==
  ASSUME NEW d, NEW k, NEW outs, NEW outs2, NEW ready, NEW ready2,
         Captured(d, k, outs, ready),
         k.selected \in outs <=> k.selected \in outs2,
         ready = {} => ready2 = {} \/ k.picture = Blank
  PROVE  Captured(d, k, outs2, ready2)
BY DEF Captured, Holds, Running

(* What a step of share_output leaves.                                     *)
LEMMA SharedCaptured ==
  ASSUME CaptureInv, NEW o \in Outputs, NEW outs \in SUBSET Outputs, NEW ready,
         desks[BESIDE].selected # o =>
           (desks[BESIDE].selected \in outputs <=> desks[BESIDE].selected \in outs)
  PROVE  \A d \in Desk : Captured(d, Shared(FIRST, o, outs)[d], outs, ready)
<1>1. SeatsInv
  BY DEF CaptureInv, OutputsInv
<1>2. PICK D \in [Desk -> DeskState] :
        D = IF TakesFromBeside(FIRST, o) THEN BesideEnded(desks) ELSE desks
  BY <1>1, BesideEndedType DEF SeatsInv, TypeOK
<1>3. PICK k : k = Started([Stopped(D[FIRST]) EXCEPT !.selected = o, !.picture = Blank],
                           outs)
  OBVIOUS
<1>4. Shared(FIRST, o, outs)[FIRST] = k
  BY <1>2, <1>3 DEF Shared, Desk
<1>5. Captured(FIRST, k, outs, ready)
  BY <1>2, <1>3, RestartedCaptured DEF Desk
<1>6. Captured(BESIDE, desks[BESIDE], outputs, done)
  BY DEF CaptureInv, Desk
<1>7. desks[BESIDE].selected # o => Captured(BESIDE, desks[BESIDE], outs, ready)
  BY <1>6 DEF Captured, Holds, Running, FIRST, BESIDE
<1>8. Captured(BESIDE, Shared(FIRST, o, outs)[BESIDE], outs, ready)
  BY <1>1, <1>7, SharedShares, EmptyDeskCaptured
<1>9. QED
  BY <1>4, <1>5, <1>8 DEF Desk

LEMMA CaptureInit == Init => CaptureInv
<1> SUFFICES ASSUME Init PROVE CaptureInv
  OBVIOUS
<1>1. PICK o : desks = [d \in Desk |-> IF d = FIRST
                                       THEN [EmptyDesk EXCEPT !.selected = o]
                                       ELSE EmptyDesk]
  BY DEF Init
<1>2. \A d \in Desk : Captured(d, desks[d], outputs, done)
  BY <1>1 DEF Captured, Holds, Running, EmptyDesk, NoFrame
<1>3. QED
  BY <1>2, OutputsInit DEF CaptureInv

AllCaptured == \A d \in Desk : Captured(d, desks'[d], outputs', done')

LEMMA CaptureFacts ==
  ASSUME CaptureInv
  PROVE  /\ OutputsInv /\ SeatsInv /\ TypeOK
         /\ desks \in [Desk -> DeskState] /\ FIRST \in Desk /\ BESIDE \in Desk
         /\ FIRST # BESIDE
         /\ outputs \in SUBSET Outputs
         /\ BesideEnded(desks) \in [Desk -> DeskState]
         /\ BesideEnded(desks)[FIRST] = desks[FIRST]
         /\ BesideEnded(desks)[BESIDE] = EmptyDesk
BY BesideEndedKeeps DEF CaptureInv, OutputsInv, SeatsInv, TypeOK, Desk, FIRST, BESIDE

(* A new client on the desktop: captured at once, where it has an output.  *)
LEMMA ClientJoinedCaptures ==
  ASSUME CaptureInv, ClientJoined
  PROVE  AllCaptured
<1>1. PICK c \in Clients : c = Head(commands).client /\ c # Nobody
  BY CaptureFacts, ClientJoinedTakes, ClientsAreSomebody
<1>2. PICK D \in [Desk -> DeskState] :
        /\ D = IF desks[FIRST].client # Nobody THEN BesideEnded(desks) ELSE desks
        /\ D[FIRST] = desks[FIRST]
        /\ D[BESIDE] \in {desks[BESIDE], EmptyDesk}
  BY CaptureFacts
<1>3. PICK k : k = [D[FIRST] EXCEPT !.client = c]
  OBVIOUS
<1>4. desks[FIRST] \in DeskState
  BY CaptureFacts
<1>5. k \in DeskState
  BY <1>1, <1>2, <1>3, <1>4 DEF DeskState
<1>6. /\ k.client = c
      /\ k.selected = desks[FIRST].selected /\ k.picture = desks[FIRST].picture
      /\ k.frame = desks[FIRST].frame /\ k.timer = desks[FIRST].timer
  BY <1>2, <1>3, <1>4 DEF DeskState
<1>7. Captured(FIRST, desks[FIRST], outputs, done)
  BY DEF CaptureInv, Desk
<1>8. /\ Holds(FIRST, k, done)
      /\ k.frame # NoFrame \/ k.timer => k.client # Nobody /\ k.selected \in outputs
      /\ k.picture = Blank => k.frame.step # "damage"
  BY <1>1, <1>6, <1>7 DEF Captured, Holds, Running
<1>9. Captured(FIRST, Started(k, outputs), outputs, done)
  BY <1>5, <1>8, CaptureFacts, StartedCaptured
<1>10. desks' = [D EXCEPT ![FIRST] = Started(k, outputs)] /\ UNCHANGED <<outputs, done>>
  BY <1>1, <1>2, <1>3 DEF ClientJoined
<1>11. desks'[FIRST] = Started(k, outputs) /\ desks'[BESIDE] \in {desks[BESIDE], EmptyDesk}
  BY <1>2, <1>10, CaptureFacts
<1>12. QED
  BY <1>9, <1>10, <1>11, EmptyDeskCaptured DEF AllCaptured, CaptureInv, Desk

LEMMA BesideJoinedCaptures ==
  ASSUME CaptureInv, BesideJoined
  PROVE  AllCaptured
<1>1. PICK c \in Clients : c = Head(commands).client /\ c # Nobody
  BY CaptureFacts, BesideJoinedSits, ClientsAreSomebody
<1>2. PICK D \in [Desk -> DeskState] :
        D = BesideEnded(desks) /\ D[FIRST] = desks[FIRST] /\ D[BESIDE] = EmptyDesk
  BY CaptureFacts
<1>3. UNCHANGED <<outputs, done>> /\ Captured(FIRST, desks[FIRST], outputs, done)
  BY DEF BesideJoined, CaptureInv, Desk
<1>4. CASE Others = {}
  <2>1. desks' = D
    BY <1>2, <1>4 DEF BesideJoined
  <2>2. QED
    BY <1>2, <1>3, <2>1, EmptyDeskCaptured DEF AllCaptured, Desk
<1>5. CASE Others # {}
  <2>1. PICK k : k = [D[BESIDE] EXCEPT !.client   = c,
                                       !.selected = First(Others),
                                       !.picture  = Blank,
                                       !.frame    = NoFrame,
                                       !.timer    = FALSE]
    OBVIOUS
  <2>2. First(Others) \in Outputs
    BY <1>5, CaptureFacts, FirstIsIn, Others \in SUBSET Outputs DEF Others, TypeOK
  <2>3. D[BESIDE] \in DeskState
    BY <1>2, EmptyDeskType
  <2>4. k \in DeskState /\ k.picture = Blank /\ k.frame = NoFrame /\ k.timer = FALSE
    BY <1>1, <2>1, <2>2, <2>3 DEF DeskState, Frame
  <2>5. Captured(BESIDE, Started(k, outputs), outputs, done)
    BY <2>4, CaptureFacts, StartedCaptured DEF Holds, NoFrame
  <2>6. desks' = [D EXCEPT ![BESIDE] = Started(k, outputs)]
    BY <1>1, <1>2, <1>5, <2>1 DEF BesideJoined
  <2>7. desks'[FIRST] = desks[FIRST] /\ desks'[BESIDE] = Started(k, outputs)
    BY <1>2, <2>6, CaptureFacts
  <2>8. QED
    BY <1>3, <2>5, <2>7 DEF AllCaptured, Desk
<1>6. QED
  BY <1>4, <1>5

LEMMA ClientLeftCaptures ==
  ASSUME CaptureInv, ClientLeft
  PROVE  AllCaptured
<1>1. PICK D \in [Desk -> DeskState] :
        D = BesideEnded(desks) /\ D[FIRST] = desks[FIRST] /\ D[BESIDE] = EmptyDesk
  BY CaptureFacts
<1>2. UNCHANGED <<outputs, done>>
  BY DEF ClientLeft
<1>3. CASE desks' = [D EXCEPT ![FIRST] = Stopped([D[FIRST] EXCEPT !.client = Nobody])]
  <2>1. PICK k : k = [D[FIRST] EXCEPT !.client = Nobody]
    OBVIOUS
  <2>2. D[FIRST] \in DeskState
    BY <1>1, CaptureFacts
  <2>3. /\ k \in DeskState
        /\ k.client = Nobody
        /\ k.selected = desks[FIRST].selected
        /\ k.picture = desks[FIRST].picture
    BY <1>1, <2>1, <2>2 DEF DeskState
  <2>4. PICK n : n = Stopped(k)
    OBVIOUS
  <2>5. /\ n.client = Nobody /\ n.frame = NoFrame /\ n.timer = FALSE
        /\ n.selected = desks[FIRST].selected /\ n.picture = desks[FIRST].picture
    BY <2>3, <2>4, StoppedIs
  <2>6. Captured(FIRST, desks[FIRST], outputs, done)
    BY CaptureFacts DEF CaptureInv
  <2>7. Captured(FIRST, n, outputs, done)
    BY <2>5, <2>6 DEF Captured, Holds, Running, NoFrame
  <2>8. desks'[FIRST] = n /\ desks'[BESIDE] = EmptyDesk
    BY <1>1, <1>3, <2>1, <2>4, CaptureFacts
  <2>9. QED
    BY <1>2, <2>7, <2>8, EmptyDeskCaptured DEF AllCaptured, Desk
<1>4. CASE desks' = D
  BY <1>1, <1>2, <1>4, EmptyDeskCaptured DEF AllCaptured, CaptureInv, Desk
<1>5. CASE desks' = desks
  BY <1>2, <1>5 DEF AllCaptured, CaptureInv
<1>6. QED
  BY <1>1, <1>3, <1>4, <1>5 DEF ClientLeft

LEMMA SelectOutputCaptures ==
  ASSUME CaptureInv, SelectOutput
  PROVE  AllCaptured
<1>1. PICK o : o = Head(commands).output
  OBVIOUS
<1>2. o \in Outputs /\ UNCHANGED <<outputs, done>>
  BY <1>1, CaptureFacts, ReceivedType DEF SelectOutput
<1>3. CASE desks' = Shared(FIRST, o, outputs)
  <2>1. \A d \in Desk : Captured(d, Shared(FIRST, o, outputs)[d], outputs, done)
    BY <1>2, CaptureFacts, SharedCaptured
  <2>2. QED
    BY <1>2, <1>3, <2>1 DEF AllCaptured
<1>4. CASE desks' = desks
  BY <1>2, <1>4 DEF AllCaptured, CaptureInv
<1>5. QED
  BY <1>1, <1>3, <1>4 DEF SelectOutput

(* A new output is on no desk yet.                                         *)
LEMMA BindCaptures ==
  ASSUME CaptureInv, NEW o \in Outputs, Bind(o)
  PROVE  AllCaptured
<1>1. \A d \in Desk : desks[d].selected \in done \cup {NoOutput}
  BY CaptureFacts, BesideShows DEF Desk, OutputsInv, OutputsSafe, SharedIsListed
<1>2. /\ o # NoOutput /\ outputs' = outputs \cup {o} /\ done \subseteq outputs
      /\ o \notin outputs /\ done' = done /\ desks' = desks
  BY CaptureFacts, OutputsAreSomething DEF Bind, TypeOK
<1>3. \A d \in Desk : desks[d].selected \in outputs <=> desks[d].selected \in outputs'
  BY <1>1, <1>2
<1>4. QED
  BY <1>2, <1>3, StaysCaptured DEF AllCaptured, CaptureInv

(* The first output to be listed again is taken by the desktop, which had  *)
(* kept a picture of one that is gone.                                     *)
LEMMA OutputDoneCaptures ==
  ASSUME CaptureInv, NEW o \in Outputs, OutputDone(o)
  PROVE  AllCaptured
<1>1. /\ outputs' = outputs /\ done' = done \cup {o}
      /\ done' \in SUBSET Outputs /\ done' # {}
  BY CaptureFacts DEF OutputDone, TypeOK
<1>2. CASE desks' = Shared(FIRST, Adoptable(done'), outputs)
  <2>1. Adoptable(done') \in Outputs
    BY <1>1, AdoptableIsIn
  <2>2. \A d \in Desk :
          Captured(d, Shared(FIRST, Adoptable(done'), outputs)[d], outputs, done')
    BY <2>1, CaptureFacts, SharedCaptured
  <2>3. QED
    BY <1>1, <1>2, <2>2 DEF AllCaptured
<1>3. CASE desks[FIRST].selected # NoOutput /\ desks' = desks
  <2>1. done # {}
    BY <1>3 DEF CaptureInv, OutputsInv, OutputsSafe, SharedIsListed
  <2>2. QED
    BY <1>1, <1>3, <2>1, StaysCaptured DEF AllCaptured, CaptureInv
<1>4. QED
  BY <1>2, <1>3 DEF OutputDone

(* An output that goes takes the capture of its desk with it.              *)
LEMMA GlobalRemoveCaptures ==
  ASSUME CaptureInv, NEW o \in Outputs, GlobalRemove(o)
  PROVE  AllCaptured
<1>1. /\ outputs' = outputs \ {o} /\ outputs' \in SUBSET Outputs
      /\ done' = done \ {o} /\ done' \in SUBSET Outputs
      /\ o # NoOutput
  BY CaptureFacts, OutputsAreSomething DEF GlobalRemove, TypeOK
<1>2. \A d \in Desk : /\ desks[d] \in DeskState
                      /\ Captured(d, desks[d], outputs, done)
  BY CaptureFacts DEF CaptureInv
<1>3. \A d \in Desk : desks[d].selected # o =>
        (desks[d].selected \in outputs <=> desks[d].selected \in outputs')
  BY <1>1
<1>4. CASE /\ desks[FIRST].selected = o /\ done' # {}
           /\ desks' = Shared(FIRST, Adoptable(done'), outputs')
  <2>1. Adoptable(done') \in Outputs
    BY <1>1, <1>4, AdoptableIsIn
  <2>2. desks[BESIDE].selected # o
    BY <1>1, <1>4 DEF CaptureInv, OutputsInv, OutputsSafe, OutputOnOneDesk
  <2>3. \A d \in Desk :
          Captured(d, Shared(FIRST, Adoptable(done'), outputs')[d], outputs', done')
    BY <1>1, <1>3, <2>1, <2>2, SharedCaptured DEF Desk
  <2>4. QED
    BY <1>4, <2>3 DEF AllCaptured
<1>5. CASE /\ desks[FIRST].selected = o /\ done' = {}
           /\ desks' = [desks EXCEPT ![FIRST] = [Stopped(@) EXCEPT !.selected = NoOutput]]
  <2>1. PICK s \in DeskState :
          s = Stopped(desks[FIRST]) /\ s.frame = NoFrame /\ s.timer = FALSE
    BY <1>2, StoppedIs DEF Desk
  <2>2. PICK k : k = [s EXCEPT !.selected = NoOutput]
    OBVIOUS
  <2>3. /\ k.selected = NoOutput /\ k.frame = NoFrame /\ k.timer = FALSE
    BY <2>1, <2>2 DEF DeskState
  <2>4. Captured(FIRST, k, outputs', done')
    BY <1>1, <1>5, <2>3, OutputsAreSomething DEF Captured, Holds, Running, NoFrame
  <2>5. desks[BESIDE] = EmptyDesk
    BY <1>1, <1>5, CaptureFacts
    DEF OutputsInv, OutputsSafe, SharedIsListed, OutputOnOneDesk, SeatsInv, BesideGivesBack
  <2>6. desks'[FIRST] = k /\ desks'[BESIDE] = EmptyDesk
    BY <1>5, <2>1, <2>2, <2>5, CaptureFacts
  <2>7. QED
    BY <2>4, <2>6, EmptyDeskCaptured DEF AllCaptured, Desk
<1>6. CASE /\ desks[FIRST].selected # o
           /\ \/ desks' = BesideEnded(desks)
              \/ desks' = desks /\ desks[BESIDE].selected # o
  <2>1. /\ desks'[FIRST] = desks[FIRST]
        /\ \/ desks'[BESIDE] = EmptyDesk
           \/ desks'[BESIDE] = desks[BESIDE] /\ desks[BESIDE].selected # o
    BY <1>6, CaptureFacts
  <2>2. Captured(FIRST, desks[FIRST], outputs', done')
    BY <1>1, <1>2, <1>3, <1>6, StaysCaptured DEF Desk
  <2>3. desks[BESIDE].selected # o => Captured(BESIDE, desks[BESIDE], outputs', done')
    BY <1>1, <1>2, <1>3, StaysCaptured DEF Desk
  <2>4. QED
    BY <2>1, <2>2, <2>3, EmptyDeskCaptured DEF AllCaptured, Desk
<1>7. QED
  BY <1>4, <1>5, <1>6 DEF GlobalRemove

(* A step of a capture.                                                    *)
LEMMA CaptureCaptures ==
  ASSUME CaptureInv, NEW d \in Desk,
         BufferDone(d) \/ FrameReady(d) \/ CaptureFailed(d) \/ CaptureTimer(d)
  PROVE  AllCaptured
<1>1. /\ desks \in [Desk -> DeskState] /\ desks[d] \in DeskState
      /\ desks[d].frame \in Frame
      /\ Captured(d, desks[d], outputs, done)
  BY CaptureFacts DEF CaptureInv, DeskState
<1>2. SUFFICES ASSUME NEW k, Capture(d, k) PROVE Captured(d, k, outputs, done)
  <2>1. PICK k : Capture(d, k)
    BY DEF BufferDone, FrameReady, CaptureFailed, CaptureTimer
  <2>2. Captured(d, k, outputs, done)
    BY <1>2, <2>1
  <2>3. QED
    BY <1>1, <2>1, <2>2 DEF Capture, AllCaptured, CaptureInv
<1>3. desks' = [desks EXCEPT ![d] = k] /\ desks'[d] = k
  BY <1>1, <1>2 DEF Capture
<1>4. CASE BufferDone(d)
  <2>1. PICK step : /\ step = IF desks[d].picture = Blank THEN "whole" ELSE "damage"
                    /\ k = [desks[d] EXCEPT !.frame.step = step]
    BY <1>1, <1>3, <1>4 DEF BufferDone, Capture
  <2>2. PICK f : f = [desks[d].frame EXCEPT !.step = step]
    OBVIOUS
  <2>3. desks[d].frame # NoFrame
    BY <1>4 DEF BufferDone, NoFrame
  <2>4. f.of = desks[d].frame.of /\ f.step = step /\ f # NoFrame
    BY <1>1, <2>1, <2>2 DEF Frame, NoFrame
  <2>5. /\ k.client = desks[d].client /\ k.selected = desks[d].selected
        /\ k.picture = desks[d].picture /\ k.frame = f
    BY <1>1, <2>1, <2>2 DEF DeskState
  <2>6. QED
    BY <1>1, <2>1, <2>3, <2>4, <2>5 DEF Captured, Holds, Running
<1>5. CASE FrameReady(d)
  <2>1. k = [desks[d] EXCEPT !.frame   = NoFrame,
                             !.picture = desks[d].frame.of,
                             !.timer   = TRUE]
    BY <1>1, <1>3, <1>5 DEF FrameReady, Capture
  <2>2. desks[d].frame # NoFrame
    BY <1>5 DEF FrameReady, NoFrame
  <2>3. /\ k.client = desks[d].client /\ k.selected = desks[d].selected
        /\ k.picture = desks[d].frame.of /\ k.frame = NoFrame /\ k.timer = TRUE
    BY <1>1, <2>1 DEF DeskState
  <2>4. QED
    BY <1>1, <2>2, <2>3 DEF Captured, Holds, Running, NoFrame
<1>6. CASE CaptureFailed(d)
  <2>1. k = [desks[d] EXCEPT !.frame = NoFrame, !.timer = TRUE]
    BY <1>1, <1>3, <1>6 DEF CaptureFailed, Capture
  <2>2. desks[d].frame # NoFrame
    BY <1>6 DEF CaptureFailed
  <2>3. /\ k.client = desks[d].client /\ k.selected = desks[d].selected
        /\ k.picture = desks[d].picture /\ k.frame = NoFrame /\ k.timer = TRUE
    BY <1>1, <2>1 DEF DeskState
  <2>4. QED
    BY <1>1, <2>2, <2>3 DEF Captured, Holds, Running, NoFrame
<1>7. CASE CaptureTimer(d)
  <2>1. PICK n : n = [desks[d] EXCEPT !.timer = FALSE]
    OBVIOUS
  <2>2. /\ n \in DeskState
        /\ n.client = desks[d].client /\ n.selected = desks[d].selected
        /\ n.picture = desks[d].picture /\ n.frame = desks[d].frame
        /\ n.timer = FALSE
    BY <1>1, <2>1 DEF DeskState
  <2>3. k = Started(n, outputs) /\ desks[d].timer
    BY <1>1, <1>3, <1>7, <2>1 DEF CaptureTimer, Capture
  <2>4. QED
    BY <1>1, <2>2, <2>3, CaptureFacts, StartedCaptured DEF Captured, Holds, Running
<1>8. QED
  BY <1>4, <1>5, <1>6, <1>7

LEMMA CaptureNext == CaptureInv /\ [Next]_vars => CaptureInv'
<1> SUFFICES ASSUME CaptureInv, [Next]_vars PROVE AllCaptured
  BY OutputsNext DEF CaptureInv, AllCaptured
<1>1. ASSUME UNCHANGED <<desks, outputs, done>> PROVE AllCaptured
  BY <1>1 DEF CaptureInv, AllCaptured
<1>2. ASSUME NEW c \in Clients, Tells(c) PROVE AllCaptured
  BY <1>1, <1>2 DEF Tells, Send
<1>3. CASE RefuseBeside
  BY <1>1, <1>3 DEF RefuseBeside
<1>4. CASE UNCHANGED vars
  BY <1>1, <1>4 DEF vars
<1>5. QED
  BY <1>2, <1>3, <1>4, CaptureFacts, SessionTells, ClientJoinedCaptures,
     BesideJoinedCaptures, ClientLeftCaptures, SelectOutputCaptures, BindCaptures,
     OutputDoneCaptures, GlobalRemoveCaptures, CaptureCaptures
  DEF Next, Handle

(* The inductive invariant of the captures: that of the outputs, and that  *)
(* each desk is captured while it is watched and holds what it shares.     *)
THEOREM CaptureCorrect == Spec => []CaptureInv
BY CaptureInit, CaptureNext, PTL DEF Spec

(* What a framebuffer shows, and what is being captured into it, is the    *)
(* output its desk shares (share_output blanks it and drops the frame in   *)
(* flight).                                                                *)
THEOREM PictureRight == Spec => []PictureIsOfItsOutput
<1>1. CaptureInv => PictureIsOfItsOutput
  BY DEF CaptureInv, PictureIsOfItsOutput, Captured, Holds
<1>2. QED
  BY <1>1, CaptureCorrect, PTL

(* While a client is on a desk whose output exists a frame is asked for or *)
(* about to be, nobody is captured for otherwise, and a blank framebuffer  *)
(* does not wait for an idle output (start_capture, stop_capture).         *)
THEOREM CaptureLives == Spec => []CaptureAlive
<1>1. CaptureInv => CaptureAlive
  BY DEF CaptureInv, CaptureAlive, Captured, Running
<1>2. QED
  BY <1>1, CaptureCorrect, PTL
==============================================================================
