---------------------------- MODULE CursorProofs ----------------------------
(***************************************************************************)
(* The cursor, for every shape it takes and transform of the outputs: a    *)
(* session is told of it in order, may be stopped, replaced or turned with *)
(* the output at any point, and yet what is shown, once all is read, is    *)
(* captured of the cursor as it looks.                                     *)
(***************************************************************************)
EXTENDS Cursor, TLAPS

-----------------------------------------------------------------------------
(* Each thing the compositor has told of its cursor is either still on the *)
(* wire, last of its kind of the session there is, or taken in as it was   *)
(* told.                                                                   *)

IsSeq(q) == q \in Seq(Range(q))

\* What is at i is of session id, and of one of the kinds.
Of(q, i, id, K) == q[i].id = id /\ q[i].is.of \in K

NoneOf(q, id, K) == \A i \in 1 .. Len(q) : ~Of(q, i, id, K)

\* The last of those kinds is e.
EndsWith(q, id, K, e) ==
  \E i \in 1 .. Len(q) : Of(q, i, id, K) /\ q[i].is = e /\ \A j \in i + 1 .. Len(q) : ~Of(q, j, id, K)

\* e is what is last told, or is taken in now.
Tells(q, id, K, e, now) == EndsWith(q, id, K, e) \/ (NoneOf(q, id, K) /\ now)

IsCapture(c) ==
  /\ c = [id |-> c.id, last |-> c.last, stopped |-> c.stopped, retry |-> c.retry,
          frame |-> c.frame, constraints |-> c.constraints, entered |-> c.entered,
          hotspot |-> c.hotspot, image |-> c.image]
  /\ c.last \in Nat /\ c.id \in {0, c.last} /\ c.entered \in BOOLEAN
  /\ c.frame \in BOOLEAN /\ c.retry \in BOOLEAN

IsLink(l) ==
  /\ l = [id |-> l.id, asked |-> l.asked, damaged |-> l.damaged, buffer |-> l.buffer]
  /\ l.damaged \in BOOLEAN

IsPlane(p) ==
  /\ p = [shape |-> p.shape, inside |-> p.inside, transform |-> p.transform, pointer |-> p.pointer]
  /\ p.inside \in BOOLEAN

\* What tells of a plane.
Size(p)    == [of |-> "done", size |-> SizeOf(p)]
Hotspot(p) == [of |-> "hotspot", at |-> p.shape.hotspot]
Side(p)    == [of |-> IF p.inside THEN "enter" ELSE "leave"]
Ready(p)   == [of |-> "ready", transform |-> p.transform]

\* What an image is captured with: a frame answered before either of the others is
\* told again is of another cursor.
Imaging == {"done", "hotspot", "ready"}

(* What a session the compositor still has was told, and has captured: a   *)
(* cursor it has no frame to answer for is in the buffer, and its frame is *)
(* the last to be read or its image is the one held.                       *)
Traces(p, l, q, c) ==
  /\ NoneOf(q, c.id, {"stopped"})
  /\ Tells(q, c.id, {"done"}, Size(p), c.constraints = SizeOf(p))
  /\ Tells(q, c.id, {"hotspot"}, Hotspot(p), c.hotspot = p.shape.hotspot)
  /\ Tells(q, c.id, {"enter", "leave"}, Side(p), c.entered = p.inside)
  /\ ~l.damaged =>
       /\ SizeOf(p) # NoBuffer /\ l.buffer = Turned(p.transform, p.shape)
       /\ Tells(q, c.id, Imaging, Ready(p), c.image = Captures(p))

(* Nothing on the wire is of a session yet to come, what is shown is the   *)
(* image held exactly while the cursor is on the output, a frame of it is  *)
(* in flight or will be retried, and a session the compositor has dropped  *)
(* is going to be told so.                                                 *)
CursorOk(p, l, q, c, s) ==
  /\ IsPlane(p) /\ IsLink(l) /\ IsCapture(c) /\ IsSeq(q)
  /\ l.id \in {0, c.id}
  /\ \A i \in 1 .. Len(q) : q[i].id \in 1 .. c.last
  /\ s = IF c.id # 0 /\ c.entered THEN c.image ELSE NoCursor
  /\ c.id # 0 /\ c.constraints # NoBuffer => c.frame \/ c.retry
  /\ c.id # 0 /\ l.id = 0 => ~NoneOf(q, c.id, {"stopped"})
  /\ l.id # 0 => Traces(p, l, q, c)

CursorInv == CursorOk(plane, link, wire, cursorCapture, shown)

-----------------------------------------------------------------------------
(* What a sequence tells, as it is read and added to.                      *)

LEMMA SeqAt ==
  ASSUME NEW q, IsSeq(q)
  PROVE  /\ Len(q) \in Nat /\ DOMAIN q = 1 .. Len(q)
         /\ \A i \in 1 .. Len(q) : q[i] \in Range(q)
<1>. QED  BY DEF IsSeq

LEMMA SeqFrom ==
  ASSUME NEW S, NEW q \in Seq(S)
  PROVE  IsSeq(q)
<1>1. Len(q) \in Nat /\ DOMAIN q = 1 .. Len(q) /\ q = [i \in 1 .. Len(q) |-> q[i]]
  OBVIOUS
<1>2. \A i \in 1 .. Len(q) : q[i] \in Range(q)
  BY <1>1 DEF Range
<1>. HIDE DEF Range
<1>3. [i \in 1 .. Len(q) |-> q[i]] \in Seq(Range(q))
  BY <1>1, <1>2
<1>. QED  BY <1>1, <1>3 DEF IsSeq

LEMMA SeqNil == IsSeq(<<>>) /\ Len(<<>>) = 0
<1>. QED  BY DEF IsSeq

\* Where what is in both is.
Joined(q, r) ==
  /\ IsSeq(q \o r) /\ Len(q \o r) = Len(q) + Len(r)
  /\ \A i \in 1 .. Len(q) : (q \o r)[i] = q[i]
  /\ \A i \in 1 .. Len(r) : (q \o r)[Len(q) + i] = r[i]
  /\ \A i \in 1 .. Len(q \o r) :
       i \in 1 .. Len(q) \/ \E j \in 1 .. Len(r) : i = Len(q) + j

LEMMA SeqJoin ==
  ASSUME NEW q, NEW r, IsSeq(q), IsSeq(r)
  PROVE  Joined(q, r)
<1> DEFINE S == Range(q) \cup Range(r)
<1>1. q \in Seq(S) /\ r \in Seq(S)
  BY SeqAt DEF IsSeq
<1>. HIDE DEF S
<1>2. q \o r \in Seq(S) /\ Len(q \o r) = Len(q) + Len(r)
  BY <1>1
<1>3. Len(q) \in Nat /\ Len(r) \in Nat
  BY <1>1
<1>4. \A i \in 1 .. Len(q) : (q \o r)[i] = q[i]
  BY <1>1, <1>3
<1>5. \A i \in 1 .. Len(r) : (q \o r)[Len(q) + i] = r[i]
  BY <1>1, <1>3
<1>6. \A i \in 1 .. Len(q \o r) :
       i \in 1 .. Len(q) \/ \E j \in 1 .. Len(r) : i = Len(q) + j
  <2>. SUFFICES ASSUME NEW i \in 1 .. Len(q \o r), i \notin 1 .. Len(q)
                PROVE  \E j \in 1 .. Len(r) : i = Len(q) + j
    OBVIOUS
  <2>1. i - Len(q) \in 1 .. Len(r) /\ i = Len(q) + (i - Len(q))
    BY <1>2, <1>3
  <2>. QED  BY <2>1
<1>7. IsSeq(q \o r)
  BY <1>2, SeqFrom
<1>. QED  BY <1>2, <1>4, <1>5, <1>6, <1>7 DEF Joined

LEMMA SeqTail ==
  ASSUME NEW q, IsSeq(q), q # <<>>
  PROVE  /\ IsSeq(Tail(q)) /\ Len(q) \in Nat /\ Len(q) >= 1 /\ Len(Tail(q)) = Len(q) - 1
         /\ \A i \in 1 .. Len(q) - 1 : Tail(q)[i] = q[i + 1]
         /\ Head(q) = q[1]
<1>1. q \in Seq(Range(q))
  BY DEF IsSeq
<1>2. Tail(q) \in Seq(Range(q)) /\ Len(Tail(q)) = Len(q) - 1 /\ Len(q) \in Nat /\ Len(q) >= 1
  BY <1>1
<1>3. \A i \in 1 .. Len(q) - 1 : Tail(q)[i] = q[i + 1]
  BY <1>1, <1>2
<1>4. IsSeq(Tail(q))
  BY <1>2, SeqFrom
<1>. QED  BY <1>1, <1>2, <1>3, <1>4

LEMMA NoneJoined ==
  ASSUME NEW q, NEW r, NEW id, NEW K, IsSeq(q), IsSeq(r)
  PROVE  NoneOf(q \o r, id, K) <=> NoneOf(q, id, K) /\ NoneOf(r, id, K)
<1>1. /\ Len(q) \in Nat /\ Len(r) \in Nat /\ Len(q \o r) = Len(q) + Len(r)
      /\ \A i \in 1 .. Len(q) : (q \o r)[i] = q[i]
      /\ \A i \in 1 .. Len(r) : (q \o r)[Len(q) + i] = r[i]
      /\ \A i \in 1 .. Len(q \o r) :
            i \in 1 .. Len(q) \/ \E j \in 1 .. Len(r) : i = Len(q) + j
  <2>1. Len(q) \in Nat /\ Len(r) \in Nat
    BY SeqAt
  <2>2. Joined(q, r)
    BY SeqJoin
  <2>. QED  BY <2>1, <2>2 DEF Joined
<1>2. \A i \in 1 .. Len(q) : i \in 1 .. Len(q \o r) /\ (Of(q \o r, i, id, K) <=> Of(q, i, id, K))
  BY <1>1 DEF Of
<1>3. \A i \in 1 .. Len(r) : /\ Len(q) + i \in 1 .. Len(q \o r)
                             /\ Of(q \o r, Len(q) + i, id, K) <=> Of(r, i, id, K)
  BY <1>1 DEF Of
<1>. QED  BY <1>1, <1>2, <1>3 DEF NoneOf

LEMMA EndJoined ==
  ASSUME NEW q, NEW r, NEW id, NEW K, NEW e, IsSeq(q), IsSeq(r)
  PROVE  /\ EndsWith(r, id, K, e) => EndsWith(q \o r, id, K, e)
         /\ EndsWith(q, id, K, e) /\ NoneOf(r, id, K) => EndsWith(q \o r, id, K, e)
<1>1. /\ Len(q) \in Nat /\ Len(r) \in Nat /\ Len(q \o r) = Len(q) + Len(r)
      /\ \A i \in 1 .. Len(q) : (q \o r)[i] = q[i]
      /\ \A i \in 1 .. Len(r) : (q \o r)[Len(q) + i] = r[i]
      /\ \A i \in 1 .. Len(q \o r) :
            i \in 1 .. Len(q) \/ \E j \in 1 .. Len(r) : i = Len(q) + j
  <2>1. Len(q) \in Nat /\ Len(r) \in Nat
    BY SeqAt
  <2>2. Joined(q, r)
    BY SeqJoin
  <2>. QED  BY <2>1, <2>2 DEF Joined
<1>2. ASSUME EndsWith(r, id, K, e)
      PROVE  EndsWith(q \o r, id, K, e)
  <2>1. PICK i \in 1 .. Len(r) : /\ Of(r, i, id, K) /\ r[i].is = e
                                /\ \A j \in i + 1 .. Len(r) : ~Of(r, j, id, K)
    BY <1>2 DEF EndsWith
  <2>2. /\ Len(q) + i \in 1 .. Len(q \o r) /\ Of(q \o r, Len(q) + i, id, K)
        /\ (q \o r)[Len(q) + i].is = e
    BY <1>1, <2>1 DEF Of
  <2>3. ASSUME NEW j \in Len(q) + i + 1 .. Len(q \o r)
        PROVE  ~Of(q \o r, j, id, K)
    <3>1. j - Len(q) \in i + 1 .. Len(r) /\ j = Len(q) + (j - Len(q)) /\ j - Len(q) \in 1 .. Len(r)
      BY <1>1, <2>1
    <3>2. (q \o r)[j] = r[j - Len(q)]
      BY <1>1, <3>1
    <3>. QED  BY <2>1, <3>1, <3>2 DEF Of
  <2>. QED  BY <2>2, <2>3 DEF EndsWith
<1>3. ASSUME EndsWith(q, id, K, e), NoneOf(r, id, K)
      PROVE  EndsWith(q \o r, id, K, e)
  <2>1. PICK i \in 1 .. Len(q) : /\ Of(q, i, id, K) /\ q[i].is = e
                                /\ \A j \in i + 1 .. Len(q) : ~Of(q, j, id, K)
    BY <1>3 DEF EndsWith
  <2>2. i \in 1 .. Len(q \o r) /\ Of(q \o r, i, id, K) /\ (q \o r)[i].is = e
    BY <1>1, <2>1 DEF Of
  <2>3. ASSUME NEW j \in i + 1 .. Len(q \o r)
        PROVE  ~Of(q \o r, j, id, K)
    <3>0. j \in 1 .. Len(q \o r)
      BY <1>1, <2>1
    <3>1. CASE j \in 1 .. Len(q)
      <4>1. j \in i + 1 .. Len(q) /\ (q \o r)[j] = q[j]
        BY <1>1, <2>1, <3>1
      <4>. QED  BY <2>1, <4>1 DEF Of
    <3>2. CASE j \notin 1 .. Len(q)
      <4>1. PICK k \in 1 .. Len(r) : j = Len(q) + k
        BY <1>1, <3>0, <3>2
      <4>2. (q \o r)[j] = r[k]
        BY <1>1, <4>1
      <4>. QED  BY <1>3, <4>2 DEF Of, NoneOf
    <3>. QED  BY <3>1, <3>2
  <2>. QED  BY <2>2, <2>3 DEF EndsWith
<1>. QED  BY <1>2, <1>3

LEMMA TellsStill ==
  ASSUME NEW q, NEW r, NEW id, NEW K, NEW e, NEW now, IsSeq(q), IsSeq(r),
         Tells(q, id, K, e, now), NoneOf(r, id, K)
  PROVE  Tells(q \o r, id, K, e, now)
<1>. QED  BY EndJoined, NoneJoined DEF Tells

LEMMA TellsAnew ==
  ASSUME NEW q, NEW r, NEW id, NEW K, NEW e, NEW now, IsSeq(q), IsSeq(r), EndsWith(r, id, K, e)
  PROVE  Tells(q \o r, id, K, e, now)
<1>. QED  BY EndJoined DEF Tells

LEMMA TellsRead ==
  ASSUME NEW q, NEW id, NEW K, NEW e, NEW now, NEW then, IsSeq(q), q # <<>>,
         Tells(q, id, K, e, now),
         Of(q, 1, id, K) /\ q[1].is = e /\ NoneOf(Tail(q), id, K) => then,
         NoneOf(q, id, K) /\ now => then
  PROVE  Tells(Tail(q), id, K, e, then)
<1>1. /\ Len(q) \in Nat /\ Len(q) >= 1 /\ Len(Tail(q)) = Len(q) - 1
      /\ \A i \in 1 .. Len(q) - 1 : Tail(q)[i] = q[i + 1]
  BY SeqTail
<1>2. \A i \in 1 .. Len(q) - 1 : Of(Tail(q), i, id, K) <=> Of(q, i + 1, id, K)
  BY <1>1 DEF Of
<1>3. ASSUME EndsWith(q, id, K, e)
      PROVE  EndsWith(Tail(q), id, K, e) \/ (NoneOf(Tail(q), id, K) /\ then)
  <2>1. PICK i \in 1 .. Len(q) : /\ Of(q, i, id, K) /\ q[i].is = e
                                /\ \A j \in i + 1 .. Len(q) : ~Of(q, j, id, K)
    BY <1>3 DEF EndsWith
  <2>2. CASE i = 1
    <3>1. \A j \in 1 .. Len(q) - 1 : j + 1 \in i + 1 .. Len(q)
      BY <1>1, <2>2
    <3>2. NoneOf(Tail(q), id, K)
      BY <1>1, <1>2, <2>1, <3>1 DEF NoneOf
    <3>. QED  BY <2>1, <2>2, <3>2
  <2>3. CASE i # 1
    <3>1. i - 1 \in 1 .. Len(q) - 1 /\ (i - 1) + 1 = i
      BY <1>1, <2>3
    <3>2. Of(Tail(q), i - 1, id, K) /\ Tail(q)[i - 1].is = e
      BY <1>1, <1>2, <2>1, <3>1
    <3>3. ASSUME NEW j \in (i - 1) + 1 .. Len(Tail(q))
          PROVE  ~Of(Tail(q), j, id, K)
      <4>1. j \in 1 .. Len(q) - 1 /\ j + 1 \in i + 1 .. Len(q)
        BY <1>1, <2>1
      <4>. QED  BY <1>2, <2>1, <4>1
    <3>4. i - 1 \in 1 .. Len(Tail(q))
      BY <1>1, <3>1
    <3>. QED  BY <3>2, <3>3, <3>4 DEF EndsWith
  <2>. QED  BY <2>2, <2>3
<1>4. ASSUME NoneOf(q, id, K)
      PROVE  NoneOf(Tail(q), id, K)
  <2>1. \A i \in 1 .. Len(q) - 1 : i + 1 \in 1 .. Len(q)
    BY <1>1
  <2>. QED  BY <1>1, <1>2, <1>4, <2>1 DEF NoneOf
<1>. QED  BY <1>3, <1>4 DEF Tells

LEMMA NoneRead ==
  ASSUME NEW q, NEW id, NEW K, IsSeq(q), q # <<>>
  PROVE  NoneOf(q, id, K) <=> ~Of(q, 1, id, K) /\ NoneOf(Tail(q), id, K)
<1>1. /\ Len(q) \in Nat /\ Len(q) >= 1 /\ Len(Tail(q)) = Len(q) - 1
      /\ \A i \in 1 .. Len(q) - 1 : Tail(q)[i] = q[i + 1]
  BY SeqTail
<1>2. \A i \in 1 .. Len(q) - 1 : Of(Tail(q), i, id, K) <=> Of(q, i + 1, id, K)
  BY <1>1 DEF Of
<1>3. \A i \in 1 .. Len(q) - 1 : i + 1 \in 1 .. Len(q)
  BY <1>1
<1>4. ASSUME ~Of(q, 1, id, K), NoneOf(Tail(q), id, K), NEW i \in 1 .. Len(q)
      PROVE  ~Of(q, i, id, K)
  <2>1. CASE i = 1
    BY <1>4, <2>1
  <2>2. CASE i # 1
    <3>1. i - 1 \in 1 .. Len(q) - 1 /\ (i - 1) + 1 = i
      BY <1>1, <2>2
    <3>. QED  BY <1>1, <1>2, <1>4, <3>1 DEF NoneOf
  <2>. QED  BY <2>1, <2>2
<1>. QED  BY <1>1, <1>2, <1>3, <1>4 DEF NoneOf

(* What the compositor sends at once.                                      *)
LEMMA SendsIs ==
  ASSUME NEW id, NEW ev, IsSeq(ev)
  PROVE  /\ IsSeq(CursorSends(id, ev)) /\ Len(CursorSends(id, ev)) = Len(ev)
         /\ \A i \in 1 .. Len(ev) : CursorSends(id, ev)[i] = [id |-> id, is |-> ev[i]]
<1> DEFINE r == CursorSends(id, ev)
<1>1. DOMAIN ev = 1 .. Len(ev) /\ Len(ev) \in Nat
  BY SeqAt
<1>2. DOMAIN r = 1 .. Len(ev) /\ \A i \in 1 .. Len(ev) : r[i] = [id |-> id, is |-> ev[i]]
  BY <1>1 DEF CursorSends
<1>3. r = [i \in 1 .. Len(ev) |-> r[i]]
  BY <1>1 DEF CursorSends
<1>4. \A i \in 1 .. Len(ev) : r[i] \in Range(r)
  BY <1>2 DEF Range
<1>. HIDE DEF r
<1>5. r \in Seq(Range(r)) /\ Len(r) = Len(ev)
  BY <1>1, <1>3, <1>4
<1>. QED  BY <1>2, <1>5 DEF IsSeq, r

LEMMA SendsJoin ==
  ASSUME NEW id, NEW x, NEW y, IsSeq(x), IsSeq(y)
  PROVE  CursorSends(id, x \o y) = CursorSends(id, x) \o CursorSends(id, y)
<1> DEFINE a == CursorSends(id, x)
           b == CursorSends(id, y)
           c == CursorSends(id, x \o y)
<1>1. Joined(x, y) /\ Len(x) \in Nat /\ Len(y) \in Nat
  BY SeqJoin, SeqAt
<1>2. IsSeq(x \o y) /\ Len(x \o y) = Len(x) + Len(y)
  BY <1>1 DEF Joined
<1>3. /\ IsSeq(a) /\ Len(a) = Len(x) /\ \A i \in 1 .. Len(x) : a[i] = [id |-> id, is |-> x[i]]
      /\ IsSeq(b) /\ Len(b) = Len(y) /\ \A i \in 1 .. Len(y) : b[i] = [id |-> id, is |-> y[i]]
  BY SendsIs
<1>4. IsSeq(c) /\ Len(c) = Len(x \o y)
      /\ \A i \in 1 .. Len(x \o y) : c[i] = [id |-> id, is |-> (x \o y)[i]]
  BY <1>2, SendsIs
<1>. HIDE DEF a, b, c
<1>5. Joined(a, b)
  BY <1>3, SeqJoin
<1>6. IsSeq(a \o b) /\ Len(a \o b) = Len(x) + Len(y)
  BY <1>3, <1>5 DEF Joined
<1>7. ASSUME NEW i \in 1 .. Len(x) + Len(y)
      PROVE  c[i] = (a \o b)[i]
  <2>1. CASE i \in 1 .. Len(x)
    <3>1. (x \o y)[i] = x[i]
      BY <1>1, <2>1 DEF Joined
    <3>2. (a \o b)[i] = a[i]
      BY <1>3, <1>5, <2>1 DEF Joined
    <3>. QED  BY <1>2, <1>3, <1>4, <2>1, <3>1, <3>2
  <2>2. CASE i \notin 1 .. Len(x)
    <3>1. PICK j \in 1 .. Len(y) : i = Len(x) + j
      BY <1>1, <1>2, <2>2 DEF Joined
    <3>2. (x \o y)[i] = y[j]
      BY <1>1, <3>1 DEF Joined
    <3>3. (a \o b)[i] = b[j]
      BY <1>3, <1>5, <3>1 DEF Joined
    <3>. QED  BY <1>2, <1>3, <1>4, <3>1, <3>2, <3>3
  <2>. QED  BY <2>1, <2>2
<1>8. c \in Seq(Range(c)) /\ a \o b \in Seq(Range(a \o b)) /\ Len(c) = Len(a \o b)
  BY <1>2, <1>4, <1>6 DEF IsSeq
<1>9. \A i \in 1 .. Len(c) : c[i] = (a \o b)[i]
  BY <1>6, <1>7, <1>8
<1>10. \A S, z : z \in Seq(S) => z = [i \in 1 .. Len(z) |-> z[i]]
  OBVIOUS
<1>11. c = a \o b
  <2>1. c = [i \in 1 .. Len(c) |-> c[i]]
    BY <1>8, <1>10
  <2>2. PICK ab : ab = a \o b
    OBVIOUS
  <2>3. ab = [i \in 1 .. Len(ab) |-> ab[i]]
    BY <1>8, <1>10, <2>2
  <2>. QED  BY <1>8, <1>9, <2>1, <2>2, <2>3
<1>. QED  BY <1>11 DEF a, b, c

LEMMA NoneSent ==
  ASSUME NEW id, NEW K
  PROVE  /\ IsSeq(CursorSends(id, <<>>)) /\ NoneOf(CursorSends(id, <<>>), id, K)
         /\ \A i \in 1 .. Len(CursorSends(id, <<>>)) : CursorSends(id, <<>>)[i].id = id
<1>1. IsSeq(CursorSends(id, <<>>)) /\ Len(CursorSends(id, <<>>)) = 0
  BY SeqNil, SendsIs
<1>2. 1 .. Len(CursorSends(id, <<>>)) = {}
  BY <1>1
<1>. QED  BY <1>1, <1>2 DEF NoneOf

LEMMA OneSent ==
  ASSUME NEW id, NEW a, NEW K
  PROVE  /\ IsSeq(CursorSends(id, <<a>>))
         /\ \A i \in 1 .. Len(CursorSends(id, <<a>>)) : CursorSends(id, <<a>>)[i].id = id
         /\ a.of \in K => EndsWith(CursorSends(id, <<a>>), id, K, a)
         /\ a.of \notin K => NoneOf(CursorSends(id, <<a>>), id, K)
<1> DEFINE r == CursorSends(id, <<a>>)
<1>1. IsSeq(<<a>>) /\ Len(<<a>>) = 1 /\ <<a>>[1] = a
  BY DEF IsSeq, Range
<1>2. IsSeq(r) /\ Len(r) = 1 /\ r[1] = [id |-> id, is |-> a]
  BY <1>1, SendsIs
<1>. HIDE DEF r
<1>3. Of(r, 1, id, K) <=> a.of \in K
  BY <1>2 DEF Of
<1>4. 1 .. Len(r) = {1} /\ 1 + 1 .. Len(r) = {}
  BY <1>2
<1>5. r[1].is = a /\ r[1].id = id
  BY <1>2
<1>6. /\ a.of \in K => EndsWith(r, id, K, a)
      /\ a.of \notin K => NoneOf(r, id, K)
  BY <1>3, <1>4, <1>5 DEF EndsWith, NoneOf
<1>. QED  BY <1>2, <1>4, <1>5, <1>6 DEF r


-----------------------------------------------------------------------------
(* The steps of the cursor.                                                *)

LEMMA EndsIsSome ==
  ASSUME NEW q, NEW id, NEW K, NEW e, EndsWith(q, id, K, e)
  PROVE  ~NoneOf(q, id, K)
<1>. QED  BY DEF EndsWith, NoneOf

\* A cursor of the same shape, the same way up, is captured the same.
LEMMA SameLooks ==
  ASSUME NEW p, NEW p2, p2.shape = p.shape, p2.transform = p.transform
  PROVE  /\ SizeOf(p2) = SizeOf(p) /\ Size(p2) = Size(p) /\ Hotspot(p2) = Hotspot(p)
         /\ Ready(p2) = Ready(p) /\ Captures(p2) = Captures(p)
         /\ Turned(p2.transform, p2.shape) = Turned(p.transform, p.shape)
<1>1. SizeOf(p2) = SizeOf(p)
  BY DEF SizeOf
<1>2. Captures(p2) = Captures(p)
  BY DEF Captures
<1>. QED  BY <1>1, <1>2 DEF Size, Hotspot, Ready

\* No session is open.
LEMMA NoSession ==
  ASSUME NEW p, NEW l, NEW q, NEW c, IsPlane(p), IsLink(l), IsCapture(c), IsSeq(q),
         \A i \in 1 .. Len(q) : q[i].id \in 1 .. c.last, c.id = 0, l.id = 0
  PROVE  CursorOk(p, l, q, c, NoCursor)
<1>. QED  BY DEF CursorOk

\* The compositor sends r.
LEMMA Sends ==
  ASSUME NEW p, NEW l, NEW q, NEW c, NEW s, CursorOk(p, l, q, c, s),
         NEW p2, NEW l2, NEW r, IsPlane(p2), IsLink(l2), IsSeq(r), l.id # 0, l2.id \in {0, l.id},
         \A i \in 1 .. Len(r) : r[i].id = l.id,
         l2.id = 0 => ~NoneOf(r, l.id, {"stopped"}),
         l2.id # 0 => Traces(p2, l2, q \o r, c)
  PROVE  CursorOk(p2, l2, q \o r, c, s)
<1>1. c.id = l.id /\ c.id = c.last /\ c.last \in Nat /\ IsSeq(q) /\ l2.id \in {0, c.id}
  BY DEF CursorOk, IsCapture
<1>2. IsSeq(q \o r) /\ \A i \in 1 .. Len(q \o r) : (q \o r)[i].id \in 1 .. c.last
  <2>1. /\ IsSeq(q \o r)
        /\ \A i \in 1 .. Len(q) : (q \o r)[i] = q[i]
        /\ \A i \in 1 .. Len(r) : (q \o r)[Len(q) + i] = r[i]
        /\ \A i \in 1 .. Len(q \o r) :
              i \in 1 .. Len(q) \/ \E j \in 1 .. Len(r) : i = Len(q) + j
    <3>1. Joined(q, r)
      BY <1>1, SeqJoin
    <3>. QED  BY <3>1 DEF Joined
  <2>2. \A i \in 1 .. Len(q) : q[i].id \in 1 .. c.last
    BY DEF CursorOk
  <2>3. \A i \in 1 .. Len(r) : r[i].id \in 1 .. c.last
    BY <1>1
  <2>4. ASSUME NEW i \in 1 .. Len(q \o r)
        PROVE  (q \o r)[i].id \in 1 .. c.last
    <3>1. CASE i \in 1 .. Len(q)
      BY <2>1, <2>2, <3>1
    <3>2. CASE i \notin 1 .. Len(q)
      <4>1. PICK j \in 1 .. Len(r) : i = Len(q) + j
        BY <2>1, <3>2
      <4>. QED  BY <2>1, <2>3, <4>1
    <3>. QED  BY <3>1, <3>2
  <2>. QED  BY <2>1, <2>4
<1>3. l2.id = 0 => ~NoneOf(q \o r, c.id, {"stopped"})
  BY <1>1, NoneJoined
<1>. QED  BY <1>1, <1>2, <1>3 DEF CursorOk

\* No session: nothing is sent.
LEMMA SendsNothing ==
  ASSUME NEW p, NEW l, NEW q, NEW c, NEW s, CursorOk(p, l, q, c, s),
         NEW p2, NEW l2, IsPlane(p2), IsLink(l2), l.id = 0, l2.id = 0
  PROVE  CursorOk(p2, l2, q, c, s)
<1>. QED  BY DEF CursorOk

\* A session is opened, of an id no event is of.
LEMMA Opens ==
  ASSUME NEW p, NEW q, NEW c, IsPlane(p), IsCapture(c), IsSeq(q),
         \A i \in 1 .. Len(q) : q[i].id \in 1 .. c.last,
         NEW c2, NEW l2,
         c2 = [c EXCEPT !.id = c.last + 1, !.last = c.last + 1, !.frame = FALSE,
                        !.constraints = NoBuffer, !.entered = FALSE, !.hotspot = <<0, 0>>,
                        !.image = NoCursor],
         l2 = [id |-> c.last + 1, asked |-> NoBuffer, damaged |-> TRUE, buffer |-> NoCursor]
  PROVE  CursorOk(p, l2, q \o CursorSends(c.last + 1, CursorOpening(p)), c2, NoCursor)
<1> DEFINE id == c.last + 1
           r  == CursorSends(id, CursorOpening(p))
           two == <<Size(p), Hotspot(p)>>
           in  == IF p.inside THEN <<[of |-> "enter"]>> ELSE <<>>
<1>1. /\ c.last \in Nat /\ id # 0 /\ id \in Nat
      /\ c2 = [id |-> id, last |-> id, stopped |-> c.stopped, retry |-> c.retry,
               frame |-> FALSE, constraints |-> NoBuffer, entered |-> FALSE,
               hotspot |-> <<0, 0>>, image |-> NoCursor]
      /\ c.retry \in BOOLEAN /\ p.inside \in BOOLEAN
  <2>1. c = [id |-> c.id, last |-> c.last, stopped |-> c.stopped, retry |-> c.retry,
             frame |-> c.frame, constraints |-> c.constraints, entered |-> c.entered,
             hotspot |-> c.hotspot, image |-> c.image]
    BY DEF IsCapture
  <2>2. c.last \in Nat /\ c.retry \in BOOLEAN /\ p.inside \in BOOLEAN
    BY DEF IsCapture, IsPlane
  <2>. HIDE DEF id
  <2>3. c2 = [c EXCEPT !.id = id, !.last = id, !.frame = FALSE,
                       !.constraints = NoBuffer, !.entered = FALSE, !.hotspot = <<0, 0>>,
                       !.image = NoCursor]
    BY DEF id
  <2>4. c2 = [id |-> id, last |-> id, stopped |-> c.stopped, retry |-> c.retry,
               frame |-> FALSE, constraints |-> NoBuffer, entered |-> FALSE,
               hotspot |-> <<0, 0>>, image |-> NoCursor]
    BY <2>1, <2>3
  <2>5. id # 0 /\ id \in Nat
    BY <2>2 DEF id
  <2>. QED  BY <2>2, <2>4, <2>5
<1>2. IsSeq(CursorOpening(p)) /\ Len(CursorOpening(p)) = IF p.inside THEN 3 ELSE 2
  <2>1. IsSeq(two) /\ Len(two) = 2
    <3>1. two \in Seq({Size(p), Hotspot(p)})
      OBVIOUS
    <3>2. Len(two) = 2
      OBVIOUS
    <3>. QED  BY <3>1, <3>2, SeqFrom
  <2>2. IsSeq(in) /\ Len(in) = IF p.inside THEN 1 ELSE 0
    <3>1. <<[of |-> "enter"]>> \in Seq({[of |-> "enter"]}) /\ Len(<<[of |-> "enter"]>>) = 1
      OBVIOUS
    <3>2. IsSeq(<<[of |-> "enter"]>>)
      BY <3>1, SeqFrom
    <3>. QED  BY <3>1, <3>2, SeqNil
  <2>3. CursorOpening(p) = two \o in
    BY DEF CursorOpening, Size, Hotspot
  <2>. HIDE DEF two, in
  <2>4. Joined(two, in)
    BY <2>1, <2>2, SeqJoin
  <2>. QED  BY <1>1, <2>1, <2>2, <2>3, <2>4 DEF Joined
<1>3. /\ CursorOpening(p)[1] = Size(p) /\ CursorOpening(p)[2] = Hotspot(p)
      /\ p.inside => CursorOpening(p)[3] = [of |-> "enter"]
  <2>1. CASE p.inside
    BY <2>1 DEF CursorOpening, Size, Hotspot
  <2>2. CASE ~p.inside
    BY <2>2 DEF CursorOpening, Size, Hotspot
  <2>. QED  BY <2>1, <2>2
<1>4. /\ IsSeq(r) /\ Len(r) = (IF p.inside THEN 3 ELSE 2)
      /\ r[1] = [id |-> id, is |-> Size(p)] /\ r[2] = [id |-> id, is |-> Hotspot(p)]
      /\ p.inside => r[3] = [id |-> id, is |-> [of |-> "enter"]]
  <2>. HIDE DEF id
  <2>1. /\ IsSeq(r) /\ Len(r) = Len(CursorOpening(p))
        /\ \A i \in 1 .. Len(CursorOpening(p)) : r[i] = [id |-> id, is |-> CursorOpening(p)[i]]
    BY <1>2, SendsIs
  <2>. HIDE DEF r
  <2>2. 1 \in 1 .. Len(CursorOpening(p)) /\ 2 \in 1 .. Len(CursorOpening(p))
    BY <1>1, <1>2
  <2>3. p.inside => 3 \in 1 .. Len(CursorOpening(p))
    BY <1>2
  <2>4. r[1] = [id |-> id, is |-> Size(p)] /\ r[2] = [id |-> id, is |-> Hotspot(p)]
    BY <1>3, <2>1, <2>2
  <2>5. p.inside => r[3] = [id |-> id, is |-> [of |-> "enter"]]
    BY <1>3, <2>1, <2>3
  <2>. QED  BY <1>2, <2>1, <2>4, <2>5
<1>5. /\ r[1].id = id /\ r[1].is = Size(p) /\ r[1].is.of = "done"
      /\ r[2].id = id /\ r[2].is = Hotspot(p) /\ r[2].is.of = "hotspot"
      /\ p.inside => r[3].id = id /\ r[3].is = Side(p) /\ r[3].is.of = "enter"
  <2>. HIDE DEF r
  <2>. QED  BY <1>4 DEF Size, Hotspot, Side
<1>. HIDE DEF r, two, in
<1>6. \A i \in 1 .. Len(r) : i = 1 \/ i = 2 \/ (i = 3 /\ p.inside)
  BY <1>1, <1>4
<1>7. 1 \in 1 .. Len(r) /\ 2 \in 1 .. Len(r) /\ (p.inside => 3 \in 1 .. Len(r)) /\ Len(r) \in Nat
  BY <1>1, <1>4
<1>8. EndsWith(r, id, {"done"}, Size(p))
  <2>1. Of(r, 1, id, {"done"}) /\ \A j \in 1 .. Len(r) : j # 1 => ~Of(r, j, id, {"done"})
    BY <1>5, <1>6 DEF Of
  <2>. QED  BY <1>5, <1>7, <2>1 DEF EndsWith
<1>9. EndsWith(r, id, {"hotspot"}, Hotspot(p))
  <2>1. Of(r, 2, id, {"hotspot"}) /\ \A j \in 1 .. Len(r) : j > 2 => ~Of(r, j, id, {"hotspot"})
    BY <1>5, <1>6 DEF Of
  <2>. QED  BY <1>5, <1>7, <2>1 DEF EndsWith
<1>10. IF p.inside THEN EndsWith(r, id, {"enter", "leave"}, Side(p))
                   ELSE NoneOf(r, id, {"enter", "leave"})
  <2>1. CASE p.inside
    <3>1. Of(r, 3, id, {"enter", "leave"}) /\ Len(r) = 3
      BY <1>4, <1>5, <2>1 DEF Of
    <3>. QED  BY <1>5, <1>7, <2>1, <3>1 DEF EndsWith
  <2>2. CASE ~p.inside
    BY <1>5, <1>6, <2>2 DEF Of, NoneOf
  <2>. QED  BY <2>1, <2>2
<1>11. \A i \in 1 .. Len(r) : r[i].id = id
  BY <1>5, <1>6
<1>12. \A i \in 1 .. Len(q) : q[i].id # id
  BY <1>1
<1>13. NoneOf(q, id, {"enter", "leave"})
  BY <1>12 DEF NoneOf, Of
<1>14. c2.id = id /\ c2.last = id /\ c2.entered = FALSE /\ c2.constraints = NoBuffer
       /\ l2.id = id /\ l2.damaged = TRUE
  BY <1>1
<1>15. IsCapture(c2) /\ IsLink(l2)
  <2>. HIDE DEF id
  <2>2. IsCapture(c2)
    <3>1. c2.id = id /\ c2.last = id
      BY <1>14
    <3>3. c2.stopped = c.stopped
      BY <1>1
    <3>4. c2.retry = c.retry
      BY <1>1
    <3>5. c2.frame = FALSE
      BY <1>1
    <3>6. c2.constraints = NoBuffer
      BY <1>1
    <3>7. c2.entered = FALSE
      BY <1>1
    <3>8. c2.hotspot = <<0, 0>>
      BY <1>1
    <3>9. c2.image = NoCursor
      BY <1>1
    <3>. QED  BY <1>1, <3>1, <3>3, <3>4, <3>5, <3>6, <3>7, <3>8, <3>9 DEF IsCapture
  <2>3. IsLink(l2)
    <3>1. l2 = [id |-> id, asked |-> NoBuffer, damaged |-> TRUE, buffer |-> NoCursor]
      BY DEF id
    <3>. HIDE DEF NoBuffer, NoCursor
    <3>2. l2.id = id /\ l2.asked = NoBuffer /\ l2.damaged = TRUE /\ l2.buffer = NoCursor
      BY <3>1
    <3>. QED  BY <3>1, <3>2 DEF IsLink
  <2>. QED  BY <2>2, <2>3
<1>16. Traces(p, l2, q \o r, c2)
  <2>1. /\ Tells(q \o r, id, {"done"}, Size(p), c2.constraints = SizeOf(p))
        /\ Tells(q \o r, id, {"hotspot"}, Hotspot(p), c2.hotspot = p.shape.hotspot)
    BY <1>4, <1>8, <1>9, TellsAnew
  <2>2. Tells(q \o r, id, {"enter", "leave"}, Side(p), c2.entered = p.inside)
    <3>1. CASE p.inside
      BY <1>4, <1>10, <3>1, TellsAnew
    <3>2. CASE ~p.inside
      <4>1. c2.entered = p.inside
        BY <1>1, <1>14, <3>2
      <4>2. NoneOf(q \o r, id, {"enter", "leave"})
        BY <1>4, <1>10, <1>13, <3>2, NoneJoined
      <4>. QED  BY <4>1, <4>2 DEF Tells
    <3>. QED  BY <3>1, <3>2
  <2>3. NoneOf(q \o r, id, {"stopped"})
    <3>1. NoneOf(q, id, {"stopped"})
      BY <1>12 DEF NoneOf, Of
    <3>2. NoneOf(r, id, {"stopped"})
      BY <1>5, <1>6 DEF NoneOf, Of
    <3>. QED  BY <1>4, <3>1, <3>2, NoneJoined
  <2>. QED  BY <1>14, <2>1, <2>2, <2>3 DEF Traces
<1>17. /\ IsSeq(q \o r) /\ Len(q \o r) = Len(q) + Len(r)
       /\ \A i \in 1 .. Len(q) : (q \o r)[i] = q[i]
       /\ \A i \in 1 .. Len(r) : (q \o r)[Len(q) + i] = r[i]
       /\ \A i \in 1 .. Len(q \o r) :
            i \in 1 .. Len(q) \/ \E j \in 1 .. Len(r) : i = Len(q) + j
  <2>1. Joined(q, r)
    BY <1>4, SeqJoin
  <2>. QED  BY <2>1 DEF Joined
<1>18. ASSUME NEW i \in 1 .. Len(q \o r)
       PROVE  (q \o r)[i].id \in 1 .. c2.last
  <2>1. CASE i \in 1 .. Len(q)
    BY <1>1, <1>14, <1>17, <2>1
  <2>2. CASE i \notin 1 .. Len(q)
    <3>1. PICK j \in 1 .. Len(r) : i = Len(q) + j
      BY <1>17, <2>2
    <3>. QED  BY <1>1, <1>11, <1>14, <1>17, <3>1
  <2>. QED  BY <2>1, <2>2
<1>19. CursorOk(p, l2, q \o r, c2, NoCursor)
  <2>. HIDE DEF id
  <2>. QED  BY <1>1, <1>14, <1>15, <1>16, <1>17, <1>18 DEF CursorOk
<1>. QED  BY <1>19 DEF r

LEMMA CursorBegins == CursorInit => CursorInv
<1>. SUFFICES ASSUME CursorInit PROVE CursorInv
  OBVIOUS
<1>1. IsPlane(plane) /\ IsLink(link)
  BY DEF CursorInit, IsPlane, IsLink
<1>2. IsCapture(cursorCapture)
  BY DEF CursorInit, IsCapture
<1>3. IsSeq(wire) /\ \A i \in 1 .. Len(wire) : wire[i].id \in 1 .. cursorCapture.last
  BY SeqNil DEF CursorInit
<1>4. cursorCapture.id = 0 /\ link.id = 0 /\ shown = NoCursor
  BY DEF CursorInit
<1>. QED  BY <1>1, <1>2, <1>3, <1>4, NoSession DEF CursorInv


\* What the invariant says of a session the compositor still has.
LEMMA SessionIs ==
  ASSUME CursorInv
  PROVE  /\ IsPlane(plane) /\ IsLink(link) /\ IsCapture(cursorCapture) /\ IsSeq(wire)
         /\ link.id # 0 => link.id = cursorCapture.id /\ Traces(plane, link, wire, cursorCapture)
<1>. QED  BY DEF CursorInv, CursorOk

LEMMA PlaneIs ==
  ASSUME NEW p, IsPlane(p), NEW sh, NEW in \in BOOLEAN, NEW t, NEW ptr,
         NEW p2, p2 = [shape |-> sh, inside |-> in, transform |-> t, pointer |-> ptr]
  PROVE  IsPlane(p2) /\ p2.shape = sh /\ p2.inside = in /\ p2.transform = t /\ p2.pointer = ptr
<1>1. p2.shape = sh /\ p2.inside = in /\ p2.transform = t /\ p2.pointer = ptr
  OBVIOUS
<1>. QED  BY <1>1 DEF IsPlane

LEMMA FromJoined ==
  ASSUME NEW q, NEW r, NEW id, IsSeq(q), IsSeq(r),
         \A i \in 1 .. Len(q) : q[i].id = id, \A i \in 1 .. Len(r) : r[i].id = id
  PROVE  IsSeq(q \o r) /\ \A i \in 1 .. Len(q \o r) : (q \o r)[i].id = id
<1>1. Joined(q, r)
  BY SeqJoin
<1>2. ASSUME NEW i \in 1 .. Len(q \o r)
      PROVE  (q \o r)[i].id = id
  <2>1. CASE i \in 1 .. Len(q)
    BY <1>1, <2>1 DEF Joined
  <2>2. CASE i \notin 1 .. Len(q)
    <3>1. PICK j \in 1 .. Len(r) : i = Len(q) + j
      BY <1>1, <2>2 DEF Joined
    <3>. QED  BY <1>1, <3>1 DEF Joined
  <2>. QED  BY <2>1, <2>2
<1>. QED  BY <1>1, <1>2 DEF Joined

LEMMA ShapeKeeps == CursorInv /\ ShapeChanges => CursorInv'
<1>. SUFFICES ASSUME CursorInv, ShapeChanges PROVE CursorInv'
  OBVIOUS
<1> DEFINE Now(sh)   == [plane EXCEPT !.shape = sh, !.inside = @ /\ sh.w > 0]
           Sized(sh) == IF SizeOf(Now(sh)) = SizeOf(plane) THEN <<>>
                        ELSE <<[of |-> "done", size |-> SizeOf(Now(sh))]>>
           Leave(sh) == IF Now(sh).inside = plane.inside THEN <<>> ELSE <<[of |-> "leave"]>>
<1>1. PICK sh : /\ plane' = Now(sh)
                /\ wire' = IF link.id = 0 THEN wire
                           ELSE wire \o CursorSends(link.id,
                             Sized(sh) \o Leave(sh) \o <<[of |-> "hotspot", at |-> sh.hotspot]>>)
  BY DEF ShapeChanges
<1>2. PICK p2 : p2 = plane'
  OBVIOUS
<1>3. PICK l2 : l2 = link'
  OBVIOUS
<1>4. /\ IsPlane(plane) /\ IsLink(link) /\ IsCapture(cursorCapture) /\ IsSeq(wire)
      /\ link.id # 0 => link.id = cursorCapture.id /\ Traces(plane, link, wire, cursorCapture)
  BY SessionIs
<1>5. PICK in \in BOOLEAN : in = (plane.inside /\ sh.w > 0)
  OBVIOUS
<1>6. /\ IsPlane(p2) /\ p2.shape = sh /\ p2.inside = in /\ p2.transform = plane.transform
  <2>1. p2 = [shape |-> sh, inside |-> in, transform |-> plane.transform, pointer |-> plane.pointer]
    BY <1>1, <1>2, <1>4, <1>5 DEF IsPlane
  <2>. QED  BY <1>4, <2>1, PlaneIs
<1>7. IsLink(l2) /\ l2.id = link.id /\ l2.damaged = TRUE
  <2>1. l2 = [id |-> link.id, asked |-> link.asked, damaged |-> TRUE, buffer |-> link.buffer]
    BY <1>3, <1>4 DEF IsLink, ShapeChanges
  <2>2. IsLink(l2)
    <3>1. /\ l2.id = link.id /\ l2.asked = link.asked /\ l2.buffer = link.buffer
      BY <2>1
    <3>2. l2.damaged = TRUE
      BY <2>1
    <3>. QED  BY <2>1, <3>1, <3>2 DEF IsLink
  <2>3. l2.id = link.id
    BY <2>1
  <2>4. l2.damaged = TRUE
    BY <2>1
  <2>. QED  BY <2>2, <2>3, <2>4
<1>8. UNCHANGED <<cursorCapture, shown>>
  BY DEF ShapeChanges
<1>9. CASE link.id = 0
  <2>1. wire' = wire
    BY <1>1, <1>9
  <2>2. CursorOk(p2, l2, wire, cursorCapture, shown)
    BY <1>6, <1>7, <1>9, SendsNothing DEF CursorInv
  <2>. QED  BY <1>2, <1>3, <1>8, <2>1, <2>2 DEF CursorInv
<1>10. CASE link.id # 0
  <2> DEFINE h  == <<Hotspot(p2)>>
             d  == IF SizeOf(p2) = SizeOf(plane) THEN <<>> ELSE <<Size(p2)>>
             v  == IF p2.inside = plane.inside THEN <<>> ELSE <<Side(p2)>>
             id == link.id
             a  == CursorSends(id, d)
             b  == CursorSends(id, v)
             c  == CursorSends(id, h)
             r  == (a \o b) \o c
  <2>1. /\ Sized(sh) = d /\ Leave(sh) = v
        /\ <<[of |-> "hotspot", at |-> sh.hotspot]>> = h
    <3>1. Now(sh) = p2
      BY <1>1, <1>2
    <3>. HIDE DEF Now
    <3>2. p2.inside # plane.inside => Side(p2) = [of |-> "leave"]
      BY <1>4, <1>5, <1>6 DEF Side, IsPlane
    <3>3. Sized(sh) = d
      BY <1>6, <3>1 DEF Size
    <3>4. Leave(sh) = v
      BY <3>1, <3>2
    <3>5. <<[of |-> "hotspot", at |-> sh.hotspot]>> = h
      BY <1>6 DEF Hotspot
    <3>. QED  BY <3>3, <3>4, <3>5
  <2>2. IsSeq(d) /\ IsSeq(v) /\ IsSeq(h)
    <3>1. \A x : IsSeq(<<x>>)
      <4>. TAKE x
      <4>1. <<x>> \in Seq({x})
        OBVIOUS
      <4>. QED  BY <4>1, SeqFrom
    <3>. QED  BY <3>1, SeqNil
  <2>3. wire' = wire \o r
    <3>1. wire' = wire \o CursorSends(id, (d \o v) \o h)
      <4>. HIDE DEF Sized, Leave, d, v, h
      <4>. QED  BY <1>1, <1>10, <2>1
    <3>. HIDE DEF d, v, h
    <3>2. Joined(d, v)
      BY <2>2, SeqJoin
    <3>3. IsSeq(d \o v)
      BY <3>2 DEF Joined
    <3>4. CursorSends(id, (d \o v) \o h) = r
      BY <2>2, <3>3, SendsJoin
    <3>. QED  BY <3>1, <3>4
  <2>. HIDE DEF Now, Sized, Leave
  <2>4. /\ Size(p2).of = "done" /\ Hotspot(p2).of = "hotspot"
        /\ Side(p2).of \in {"enter", "leave"}
    BY DEF Size, Hotspot, Side
  <2>5. /\ IsSeq(a) /\ \A i \in 1 .. Len(a) : a[i].id = id
        /\ NoneOf(a, id, {"hotspot"}) /\ NoneOf(a, id, {"enter", "leave"})
        /\ NoneOf(a, id, {"stopped"})
        /\ IF SizeOf(p2) = SizeOf(plane) THEN NoneOf(a, id, {"done"})
                                        ELSE EndsWith(a, id, {"done"}, Size(p2))
    <3>1. CASE SizeOf(p2) = SizeOf(plane)
      BY <3>1, NoneSent
    <3>2. CASE SizeOf(p2) # SizeOf(plane)
      BY <2>4, <3>2, OneSent
    <3>. QED  BY <3>1, <3>2
  <2>6. /\ IsSeq(b) /\ \A i \in 1 .. Len(b) : b[i].id = id
        /\ NoneOf(b, id, {"hotspot"}) /\ NoneOf(b, id, {"done"})
        /\ NoneOf(b, id, {"stopped"})
        /\ IF p2.inside = plane.inside THEN NoneOf(b, id, {"enter", "leave"})
                                      ELSE EndsWith(b, id, {"enter", "leave"}, Side(p2))
    <3>1. CASE p2.inside = plane.inside
      BY <3>1, NoneSent
    <3>2. CASE p2.inside # plane.inside
      BY <2>4, <3>2, OneSent
    <3>. QED  BY <3>1, <3>2
  <2>7. /\ IsSeq(c) /\ \A i \in 1 .. Len(c) : c[i].id = id
        /\ EndsWith(c, id, {"hotspot"}, Hotspot(p2))
        /\ NoneOf(c, id, {"done"}) /\ NoneOf(c, id, {"enter", "leave"})
        /\ NoneOf(c, id, {"stopped"})
    BY <2>4, OneSent
  <2>. HIDE DEF a, b, c
  <2>8. IsSeq(a \o b) /\ IsSeq(r) /\ \A i \in 1 .. Len(r) : r[i].id = id
    BY <2>5, <2>6, <2>7, FromJoined
  <2>9. Tells(wire \o r, id, {"done"}, Size(p2), cursorCapture.constraints = SizeOf(p2))
    <3>1. CASE SizeOf(p2) = SizeOf(plane)
      <4>1. NoneOf(r, id, {"done"})
        BY <2>5, <2>6, <2>7, <2>8, <3>1, NoneJoined
      <4>2. Size(p2) = Size(plane)
        BY <3>1 DEF Size
      <4>3. Tells(wire, id, {"done"}, Size(p2), cursorCapture.constraints = SizeOf(p2))
        BY <1>4, <1>10, <3>1, <4>2 DEF Traces
      <4>. QED  BY <1>4, <2>8, <4>1, <4>3, TellsStill
    <3>2. CASE SizeOf(p2) # SizeOf(plane)
      <4>1. EndsWith(r, id, {"done"}, Size(p2))
        BY <2>5, <2>6, <2>7, <2>8, <3>2, EndJoined
      <4>. QED  BY <1>4, <2>8, <4>1, TellsAnew
    <3>. QED  BY <3>1, <3>2
  <2>10. Tells(wire \o r, id, {"hotspot"}, Hotspot(p2), cursorCapture.hotspot = p2.shape.hotspot)
    <3>1. EndsWith(r, id, {"hotspot"}, Hotspot(p2))
      BY <2>7, <2>8, EndJoined
    <3>. QED  BY <1>4, <2>8, <3>1, TellsAnew
  <2>11. Tells(wire \o r, id, {"enter", "leave"}, Side(p2), cursorCapture.entered = p2.inside)
    <3>1. CASE p2.inside = plane.inside
      <4>1. NoneOf(r, id, {"enter", "leave"})
        BY <2>5, <2>6, <2>7, <2>8, <3>1, NoneJoined
      <4>2. Side(p2) = Side(plane)
        BY <3>1 DEF Side
      <4>3. Tells(wire, id, {"enter", "leave"}, Side(p2), cursorCapture.entered = p2.inside)
        BY <1>4, <1>10, <3>1, <4>2 DEF Traces
      <4>. QED  BY <1>4, <2>8, <4>1, <4>3, TellsStill
    <3>2. CASE p2.inside # plane.inside
      <4>1. EndsWith(r, id, {"enter", "leave"}, Side(p2))
        BY <2>5, <2>6, <2>7, <2>8, <3>2, EndJoined
      <4>. QED  BY <1>4, <2>8, <4>1, TellsAnew
    <3>. QED  BY <3>1, <3>2
  <2>14. NoneOf(wire \o r, id, {"stopped"})
    <3>1. NoneOf(r, id, {"stopped"})
      BY <2>5, <2>6, <2>7, <2>8, NoneJoined
    <3>2. NoneOf(wire, id, {"stopped"})
      BY <1>4, <1>10 DEF Traces
    <3>. QED  BY <1>4, <2>8, <3>1, <3>2, NoneJoined
  <2>. HIDE DEF r
  <2>12. Traces(p2, l2, wire \o r, cursorCapture)
    BY <1>4, <1>7, <1>10, <2>9, <2>10, <2>11, <2>14 DEF Traces
  <2>13. CursorOk(p2, l2, wire \o r, cursorCapture, shown)
    BY <1>6, <1>7, <1>10, <2>8, <2>12, Sends DEF CursorInv
  <2>. QED  BY <1>2, <1>3, <1>8, <2>3, <2>13 DEF CursorInv
<1>. QED  BY <1>9, <1>10


\* What is sent tells nothing of K.
LEMMA OtherSent ==
  ASSUME NEW id, NEW a, NEW K, a.of \notin K, NEW q, IsSeq(q), NEW e, NEW now,
         Tells(q, id, K, e, now)
  PROVE  Tells(q \o CursorSends(id, <<a>>), id, K, e, now)
<1>1. PICK r : r = CursorSends(id, <<a>>)
  OBVIOUS
<1>2. IsSeq(r) /\ NoneOf(r, id, K)
  BY <1>1, OneSent
<1>. QED  BY <1>1, <1>2, TellsStill

LEMMA NotSent ==
  ASSUME NEW id, NEW a, NEW K, a.of \notin K, NEW q, IsSeq(q), NoneOf(q, id, K)
  PROVE  NoneOf(q \o CursorSends(id, <<a>>), id, K)
<1>1. PICK r : r = CursorSends(id, <<a>>)
  OBVIOUS
<1>2. IsSeq(r) /\ NoneOf(r, id, K)
  BY <1>1, OneSent
<1>. QED  BY <1>1, <1>2, NoneJoined

LEMMA ThisSent ==
  ASSUME NEW id, NEW a, NEW K, a.of \in K, NEW q, IsSeq(q), NEW now
  PROVE  Tells(q \o CursorSends(id, <<a>>), id, K, a, now)
<1>1. PICK r : r = CursorSends(id, <<a>>)
  OBVIOUS
<1>2. IsSeq(r) /\ EndsWith(r, id, K, a)
  BY <1>1, OneSent
<1>. QED  BY <1>1, <1>2, TellsAnew

LEMMA CrossesKeeps == CursorInv /\ Crosses => CursorInv'
<1>. SUFFICES ASSUME CursorInv, Crosses PROVE CursorInv'
  OBVIOUS
<1>1. /\ IsPlane(plane) /\ IsLink(link) /\ IsCapture(cursorCapture) /\ IsSeq(wire)
      /\ link.id # 0 => link.id = cursorCapture.id /\ Traces(plane, link, wire, cursorCapture)
  BY SessionIs
<1>2. PICK in \in BOOLEAN : in = ~plane.inside
  OBVIOUS
<1>3. PICK p2 : p2 = plane'
  OBVIOUS
<1>4. /\ IsPlane(p2) /\ p2.shape = plane.shape /\ p2.inside = in /\ p2.transform = plane.transform
  <2>1. p2 = [shape |-> plane.shape, inside |-> in, transform |-> plane.transform,
              pointer |-> plane.pointer]
    BY <1>1, <1>2, <1>3 DEF IsPlane, Crosses
  <2>. QED  BY <1>1, <2>1, PlaneIs
<1>5. UNCHANGED <<link, cursorCapture, shown>>
  BY DEF Crosses
<1>6. CASE link.id = 0
  <2>1. wire' = wire
    BY <1>6 DEF Crosses
  <2>2. CursorOk(p2, link, wire, cursorCapture, shown)
    BY <1>1, <1>4, <1>6, SendsNothing DEF CursorInv
  <2>. QED  BY <1>3, <1>5, <2>1, <2>2 DEF CursorInv
<1>7. CASE link.id # 0
  <2>1. Side(p2) = [of |-> IF plane.inside THEN "leave" ELSE "enter"]
    BY <1>1, <1>2, <1>4 DEF Side, IsPlane
  <2>2. PICK r : r = CursorSends(link.id, <<Side(p2)>>)
    OBVIOUS
  <2>3. wire' = wire \o r
    BY <1>7, <2>1, <2>2 DEF Crosses
  <2>4. Side(p2).of \in {"enter", "leave"}
    BY DEF Side
  <2>5. IsSeq(r) /\ \A i \in 1 .. Len(r) : r[i].id = link.id
    BY <2>2, OneSent
  <2>6. /\ Size(p2) = Size(plane) /\ SizeOf(p2) = SizeOf(plane) /\ Hotspot(p2) = Hotspot(plane)
        /\ Ready(p2) = Ready(plane) /\ Captures(p2) = Captures(plane)
        /\ Turned(p2.transform, p2.shape) = Turned(plane.transform, plane.shape)
    BY <1>4, SameLooks
  <2>7. Tells(wire \o r, link.id, {"enter", "leave"}, Side(p2), cursorCapture.entered = p2.inside)
    BY <1>1, <2>2, <2>4, ThisSent
  <2>8. /\ Side(p2).of \notin {"done"} /\ Side(p2).of \notin {"hotspot"} /\ Side(p2).of \notin Imaging
        /\ Side(p2).of \notin {"stopped"}
    BY <2>4 DEF Imaging
  <2>14. NoneOf(wire \o r, link.id, {"stopped"})
    BY <1>1, <1>7, <2>2, <2>8, NotSent DEF Traces
  <2>9. Tells(wire \o r, link.id, {"done"}, Size(p2), cursorCapture.constraints = SizeOf(p2))
    <3>1. Tells(wire, link.id, {"done"}, Size(p2), cursorCapture.constraints = SizeOf(p2))
      BY <1>1, <1>7, <2>6 DEF Traces
    <3>. QED  BY <1>1, <2>2, <2>8, <3>1, OtherSent
  <2>10. Tells(wire \o r, link.id, {"hotspot"}, Hotspot(p2), cursorCapture.hotspot = p2.shape.hotspot)
    <3>1. Tells(wire, link.id, {"hotspot"}, Hotspot(p2), cursorCapture.hotspot = p2.shape.hotspot)
      BY <1>1, <1>4, <1>7, <2>6 DEF Traces
    <3>. QED  BY <1>1, <2>2, <2>8, <3>1, OtherSent
  <2>11. ASSUME ~link.damaged
         PROVE  /\ SizeOf(p2) # NoBuffer /\ link.buffer = Turned(p2.transform, p2.shape)
                /\ Tells(wire \o r, link.id, Imaging, Ready(p2), cursorCapture.image = Captures(p2))
    <3>1. /\ SizeOf(p2) # NoBuffer /\ link.buffer = Turned(p2.transform, p2.shape)
          /\ Tells(wire, link.id, Imaging, Ready(p2), cursorCapture.image = Captures(p2))
      BY <1>1, <1>7, <2>6, <2>11 DEF Traces
    <3>. QED  BY <1>1, <2>2, <2>8, <3>1, OtherSent
  <2>12. Traces(p2, link, wire \o r, cursorCapture)
    BY <1>1, <1>7, <2>7, <2>9, <2>10, <2>11, <2>14 DEF Traces
  <2>13. CursorOk(p2, link, wire \o r, cursorCapture, shown)
    BY <1>1, <1>4, <1>7, <2>5, <2>12, Sends DEF CursorInv
  <2>. QED  BY <1>3, <1>5, <2>3, <2>13 DEF CursorInv
<1>. QED  BY <1>6, <1>7

LEMMA FrameKeeps == CursorInv /\ FrameAnswered => CursorInv'
<1>. SUFFICES ASSUME CursorInv, FrameAnswered PROVE CursorInv'
  OBVIOUS
<1>1. /\ IsPlane(plane) /\ IsLink(link) /\ IsCapture(cursorCapture) /\ IsSeq(wire)
      /\ link.id # 0 /\ link.id = cursorCapture.id /\ Traces(plane, link, wire, cursorCapture)
  BY SessionIs DEF FrameAnswered
<1>2. UNCHANGED <<plane, cursorCapture, shown>> /\ link.asked # NoBuffer
  BY DEF FrameAnswered
<1>3. ASSUME NEW why, wire' = wire \o CursorSends(link.id, <<[of |-> "failed", constraints |-> why]>>),
             link' = [link EXCEPT !.asked = NoBuffer]
      PROVE  CursorInv'
  <2> DEFINE a == [of |-> "failed", constraints |-> why]
  <2>1. a.of = "failed"
    OBVIOUS
  <2>. HIDE DEF a
  <2>2. PICK r : r = CursorSends(link.id, <<a>>)
    OBVIOUS
  <2>3. wire' = wire \o r
    BY <1>3, <2>2 DEF a
  <2>4. IsSeq(r) /\ \A i \in 1 .. Len(r) : r[i].id = link.id
    BY <2>2, OneSent
  <2>5. PICK l2 : l2 = link'
    OBVIOUS
  <2>6. IsLink(l2) /\ l2.id = link.id /\ l2.damaged = link.damaged /\ l2.buffer = link.buffer
    BY <1>1, <1>3, <2>5 DEF IsLink
  <2>7. /\ a.of \notin {"done"} /\ a.of \notin {"hotspot"} /\ a.of \notin {"enter", "leave"}
        /\ a.of \notin Imaging /\ a.of \notin {"stopped"}
    BY <2>1 DEF Imaging
  <2>15. NoneOf(wire \o r, link.id, {"stopped"})
    BY <1>1, <2>2, <2>7, NotSent DEF Traces
  <2>8. Tells(wire \o r, link.id, {"done"}, Size(plane), cursorCapture.constraints = SizeOf(plane))
    <3>1. Tells(wire, link.id, {"done"}, Size(plane), cursorCapture.constraints = SizeOf(plane))
      BY <1>1 DEF Traces
    <3>. QED  BY <1>1, <2>2, <2>7, <3>1, OtherSent
  <2>9. Tells(wire \o r, link.id, {"hotspot"}, Hotspot(plane), cursorCapture.hotspot = plane.shape.hotspot)
    <3>1. Tells(wire, link.id, {"hotspot"}, Hotspot(plane), cursorCapture.hotspot = plane.shape.hotspot)
      BY <1>1 DEF Traces
    <3>. QED  BY <1>1, <2>2, <2>7, <3>1, OtherSent
  <2>10. Tells(wire \o r, link.id, {"enter", "leave"}, Side(plane), cursorCapture.entered = plane.inside)
    <3>1. Tells(wire, link.id, {"enter", "leave"}, Side(plane), cursorCapture.entered = plane.inside)
      BY <1>1 DEF Traces
    <3>. QED  BY <1>1, <2>2, <2>7, <3>1, OtherSent
  <2>11. ASSUME ~link.damaged
         PROVE  /\ SizeOf(plane) # NoBuffer /\ link.buffer = Turned(plane.transform, plane.shape)
                /\ Tells(wire \o r, link.id, Imaging, Ready(plane), cursorCapture.image = Captures(plane))
    <3>1. /\ SizeOf(plane) # NoBuffer /\ link.buffer = Turned(plane.transform, plane.shape)
          /\ Tells(wire, link.id, Imaging, Ready(plane), cursorCapture.image = Captures(plane))
      BY <1>1, <2>11 DEF Traces
    <3>. QED  BY <1>1, <2>2, <2>7, <3>1, OtherSent
  <2>12. Traces(plane, l2, wire \o r, cursorCapture)
    BY <1>1, <2>6, <2>8, <2>9, <2>10, <2>11, <2>15 DEF Traces
  <2>13. CursorOk(plane, l2, wire \o r, cursorCapture, shown)
    BY <1>1, <2>4, <2>6, <2>12, Sends DEF CursorInv
  <2>. QED  BY <1>2, <2>3, <2>5, <2>13 DEF CursorInv
<1>4. ASSUME link.asked = SizeOf(plane),
             wire' = wire \o CursorSends(link.id, <<[of |-> "ready", transform |-> plane.transform]>>),
             link' = [link EXCEPT !.asked = NoBuffer, !.damaged = FALSE,
                                  !.buffer = Turned(plane.transform, plane.shape)]
      PROVE  CursorInv'
  <2> DEFINE a == Ready(plane)
  <2>1. a.of = "ready"
    BY DEF Ready
  <2>. HIDE DEF a
  <2>2. PICK r : r = CursorSends(link.id, <<a>>)
    OBVIOUS
  <2>3. wire' = wire \o r
    BY <1>4, <2>2 DEF a, Ready
  <2>4. IsSeq(r) /\ \A i \in 1 .. Len(r) : r[i].id = link.id
    BY <2>2, OneSent
  <2>5. PICK l2 : l2 = link'
    OBVIOUS
  <2>6. IsLink(l2) /\ l2.id = link.id /\ l2.buffer = Turned(plane.transform, plane.shape)
    BY <1>1, <1>4, <2>5 DEF IsLink
  <2>7. /\ a.of \notin {"done"} /\ a.of \notin {"hotspot"} /\ a.of \notin {"enter", "leave"}
        /\ a.of \in Imaging /\ a.of \notin {"stopped"}
    BY <2>1 DEF Imaging
  <2>15. NoneOf(wire \o r, link.id, {"stopped"})
    BY <1>1, <2>2, <2>7, NotSent DEF Traces
  <2>8. Tells(wire \o r, link.id, {"done"}, Size(plane), cursorCapture.constraints = SizeOf(plane))
    <3>1. Tells(wire, link.id, {"done"}, Size(plane), cursorCapture.constraints = SizeOf(plane))
      BY <1>1 DEF Traces
    <3>. QED  BY <1>1, <2>2, <2>7, <3>1, OtherSent
  <2>9. Tells(wire \o r, link.id, {"hotspot"}, Hotspot(plane), cursorCapture.hotspot = plane.shape.hotspot)
    <3>1. Tells(wire, link.id, {"hotspot"}, Hotspot(plane), cursorCapture.hotspot = plane.shape.hotspot)
      BY <1>1 DEF Traces
    <3>. QED  BY <1>1, <2>2, <2>7, <3>1, OtherSent
  <2>10. Tells(wire \o r, link.id, {"enter", "leave"}, Side(plane), cursorCapture.entered = plane.inside)
    <3>1. Tells(wire, link.id, {"enter", "leave"}, Side(plane), cursorCapture.entered = plane.inside)
      BY <1>1 DEF Traces
    <3>. QED  BY <1>1, <2>2, <2>7, <3>1, OtherSent
  <2>11. Tells(wire \o r, link.id, Imaging, a, cursorCapture.image = Captures(plane))
    BY <1>1, <2>2, <2>7, ThisSent
  <2>12. Tells(wire \o r, link.id, Imaging, Ready(plane), cursorCapture.image = Captures(plane))
    BY <2>11 DEF a
  <2>13. Traces(plane, l2, wire \o r, cursorCapture)
    BY <1>1, <1>2, <1>4, <2>6, <2>8, <2>9, <2>10, <2>12, <2>15 DEF Traces
  <2>14. CursorOk(plane, l2, wire \o r, cursorCapture, shown)
    BY <1>1, <2>4, <2>6, <2>13, Sends DEF CursorInv
  <2>. QED  BY <1>2, <2>3, <2>5, <2>14 DEF CursorInv
<1>. QED  BY <1>3, <1>4 DEF FrameAnswered

LEMMA SourceKeeps == CursorInv /\ SourceGoes => CursorInv'
<1>. SUFFICES ASSUME CursorInv, SourceGoes PROVE CursorInv'
  OBVIOUS
<1>1. /\ IsPlane(plane) /\ IsLink(link) /\ IsCapture(cursorCapture) /\ IsSeq(wire)
      /\ link.id # 0
  BY SessionIs DEF SourceGoes
<1> DEFINE a == [of |-> "stopped"]
<1>2. a.of = "stopped"
  OBVIOUS
<1>. HIDE DEF a
<1>3. PICK r : r = CursorSends(link.id, <<a>>)
  OBVIOUS
<1>4. wire' = wire \o r /\ UNCHANGED <<plane, cursorCapture, shown>>
  BY <1>3 DEF a, SourceGoes
<1>5. /\ IsSeq(r) /\ \A i \in 1 .. Len(r) : r[i].id = link.id
      /\ EndsWith(r, link.id, {"stopped"}, a)
  BY <1>2, <1>3, OneSent
<1>6. PICK l2 : l2 = link'
  OBVIOUS
<1>7. IsLink(l2) /\ l2.id = 0
  BY <1>1, <1>6 DEF IsLink, SourceGoes
<1>8. ~NoneOf(r, link.id, {"stopped"})
  BY <1>5, EndsIsSome
<1>9. CursorOk(plane, l2, wire \o r, cursorCapture, shown)
  BY <1>1, <1>5, <1>7, <1>8, Sends DEF CursorInv
<1>. QED  BY <1>4, <1>6, <1>9 DEF CursorInv


\* start_cursor, of a desk that captures no cursor.
LEMMA StartedKeeps ==
  ASSUME NEW w, CursorInv, Started(w, plane', cursorCapture),
         plane' = plane \/ plane' = [plane EXCEPT !.pointer = TRUE], UNCHANGED shown
  PROVE  CursorInv'
<1>1. /\ IsPlane(plane) /\ IsLink(link) /\ IsCapture(cursorCapture) /\ IsSeq(wire)
  BY SessionIs
<1>2. PICK p2 : p2 = plane'
  OBVIOUS
<1>3. /\ IsPlane(p2) /\ p2.shape = plane.shape /\ p2.inside = plane.inside
      /\ p2.transform = plane.transform
  BY <1>1, <1>2 DEF IsPlane
<1>4. CursorOk(p2, link, wire, cursorCapture, shown)
  <2>1. /\ Size(p2) = Size(plane) /\ SizeOf(p2) = SizeOf(plane) /\ Hotspot(p2) = Hotspot(plane)
        /\ Ready(p2) = Ready(plane) /\ Captures(p2) = Captures(plane)
        /\ Turned(p2.transform, p2.shape) = Turned(plane.transform, plane.shape)
    BY <1>3, SameLooks
  <2>2. Side(p2) = Side(plane)
    BY <1>3 DEF Side
  <2>3. ASSUME Traces(plane, link, wire, cursorCapture)
        PROVE  Traces(p2, link, wire, cursorCapture)
    BY <1>3, <2>1, <2>2, <2>3 DEF Traces
  <2>. QED  BY <1>3, <2>3 DEF CursorInv, CursorOk
<1>5. CASE UNCHANGED <<cursorCapture, link, wire>>
  BY <1>2, <1>4, <1>5 DEF CursorInv
<1>6. CASE ~UNCHANGED <<cursorCapture, link, wire>>
  <2>1. PICK c : c = cursorCapture
    OBVIOUS
  <2>2. PICK c2 : c2 = cursorCapture'
    OBVIOUS
  <2>3. PICK l2 : l2 = link'
    OBVIOUS
  <2>4. /\ c.id = 0
        /\ c2 = [c EXCEPT !.id = c.last + 1, !.last = c.last + 1, !.frame = FALSE,
                          !.constraints = NoBuffer, !.entered = FALSE, !.hotspot = <<0, 0>>,
                          !.image = NoCursor]
        /\ l2 = [id |-> c.last + 1, asked |-> NoBuffer, damaged |-> TRUE, buffer |-> NoCursor]
        /\ wire' = wire \o CursorSends(c.last + 1, CursorOpening(p2))
    BY <1>2, <1>6, <2>1, <2>2, <2>3 DEF Started
  <2>5. shown = NoCursor /\ \A i \in 1 .. Len(wire) : wire[i].id \in 1 .. c.last
    BY <2>1, <2>4 DEF CursorInv, CursorOk
  <2>6. CursorOk(p2, l2, wire \o CursorSends(c.last + 1, CursorOpening(p2)), c2, NoCursor)
    BY <1>1, <1>3, <2>1, <2>4, <2>5, Opens
  <2>. QED  BY <1>2, <2>2, <2>3, <2>4, <2>5, <2>6 DEF CursorInv
<1>. QED  BY <1>5, <1>6

LEMMA PointerKeeps == CursorInv /\ PointerComes => CursorInv'
<1>. QED  BY StartedKeeps DEF PointerComes

LEMMA JoinKeeps == CursorInv /\ ClientJoins => CursorInv'
<1>. SUFFICES ASSUME CursorInv, ClientJoins PROVE CursorInv'
  OBVIOUS
<1>1. Started(TRUE, plane', cursorCapture)
  BY DEF ClientJoins, Started
<1>2. plane' = plane /\ UNCHANGED shown
  BY DEF ClientJoins
<1>. QED  BY <1>1, <1>2, StartedKeeps

LEMMA ShownClosed ==
  ASSUME CursorInv, CaptureClosed(cursorCapture)
  PROVE  shown' = NoCursor
<1>. QED  BY DEF CursorInv, CursorOk, CaptureClosed

\* A capture without a session.
LEMMA UnopenedIs ==
  ASSUME NEW c, IsCapture(c), NEW c2,
         \/ c2 = Unopened(c)
         \/ \E stopped : c2 = [Unopened(c) EXCEPT !.stopped = stopped]
  PROVE  IsCapture(c2) /\ c2.id = 0 /\ c2.last = c.last
<1>1. PICK stopped : c2 = [id |-> 0, last |-> c.last, stopped |-> stopped, retry |-> FALSE,
                         frame |-> FALSE, constraints |-> c.constraints, entered |-> c.entered,
                         hotspot |-> c.hotspot, image |-> c.image]
  BY DEF IsCapture, Unopened
<1>2. c2.id = 0 /\ c2.last = c.last
  BY <1>1
<1>. QED  BY <1>1, <1>2 DEF IsCapture

LEMMA LeaveKeeps == CursorInv /\ ClientLeaves => CursorInv'
<1>. SUFFICES ASSUME CursorInv, ClientLeaves PROVE CursorInv'
  OBVIOUS
<1>1. /\ IsPlane(plane) /\ IsLink(link) /\ IsCapture(cursorCapture) /\ IsSeq(wire)
  BY SessionIs
<1>2. PICK c2 : c2 = cursorCapture'
  OBVIOUS
<1>3. PICK l2 : l2 = link'
  OBVIOUS
<1>4. IsCapture(c2) /\ c2.id = 0 /\ c2.last = cursorCapture.last
  <2>1. c2 = Unopened(cursorCapture)
    BY <1>2 DEF ClientLeaves
  <2>. QED  BY <1>1, <2>1, UnopenedIs
<1>5. IsLink(l2) /\ l2.id = 0
  BY <1>1, <1>3 DEF IsLink, ClientLeaves
<1>6. shown' = NoCursor /\ plane' = plane /\ wire' = wire
  BY ShownClosed DEF ClientLeaves
<1>7. \A i \in 1 .. Len(wire) : wire[i].id \in 1 .. c2.last
  BY <1>4 DEF CursorInv, CursorOk
<1>8. CursorOk(plane, l2, wire, c2, NoCursor)
  BY <1>1, <1>4, <1>5, <1>7, NoSession
<1>. QED  BY <1>2, <1>3, <1>6, <1>8 DEF CursorInv

LEMMA SharesKeeps == CursorInv /\ Shares => CursorInv'
<1>. SUFFICES ASSUME CursorInv, Shares PROVE CursorInv'
  OBVIOUS
<1>1. /\ IsPlane(plane) /\ IsLink(link) /\ IsCapture(cursorCapture) /\ IsSeq(wire)
  BY SessionIs
<1>2. PICK p2 : p2 = plane'
  OBVIOUS
<1>3. PICK c2 : c2 = cursorCapture'
  OBVIOUS
<1>4. PICK l2 : l2 = link'
  OBVIOUS
<1>5. PICK left : left = [Unopened(cursorCapture) EXCEPT !.stopped = FALSE]
  OBVIOUS
<1>6. IsCapture(left) /\ left.id = 0 /\ left.last = cursorCapture.last
  BY <1>1, <1>5, UnopenedIs
<1>7. IsPlane(p2) /\ p2.pointer = plane.pointer
  <2>1. PICK t \in Transforms, b \in BOOLEAN : p2 = [plane EXCEPT !.transform = t, !.inside = b]
    BY <1>2 DEF Shares
  <2>3. p2 = [shape |-> plane.shape, inside |-> b, transform |-> t, pointer |-> plane.pointer]
    BY <1>1, <2>1 DEF IsPlane
  <2>. QED  BY <1>1, <2>3, PlaneIs
<1>8. shown' = NoCursor
  BY ShownClosed DEF Shares
<1>9. \A i \in 1 .. Len(wire) : wire[i].id \in 1 .. left.last
  BY <1>6 DEF CursorInv, CursorOk
<1>10. CASE watched /\ plane.pointer
  <2>1. left.stopped = FALSE
    BY <1>1, <1>5 DEF IsCapture, Unopened
  <2>2. /\ c2 = [left EXCEPT !.id = left.last + 1, !.last = left.last + 1, !.frame = FALSE,
                          !.constraints = NoBuffer, !.entered = FALSE, !.hotspot = <<0, 0>>,
                          !.image = NoCursor]
        /\ l2 = [id |-> left.last + 1, asked |-> NoBuffer, damaged |-> TRUE, buffer |-> NoCursor]
        /\ wire' = wire \o CursorSends(left.last + 1, CursorOpening(p2))
    <3>1. Started(TRUE, plane', left)
      BY <1>5, <1>10 DEF Shares
    <3>. QED  BY <1>2, <1>3, <1>4, <1>6, <1>7, <1>10, <2>1, <3>1 DEF Started
  <2>3. CursorOk(p2, l2, wire \o CursorSends(left.last + 1, CursorOpening(p2)), c2, NoCursor)
    BY <1>1, <1>6, <1>7, <1>9, <2>2, Opens
  <2>. QED  BY <1>2, <1>3, <1>4, <1>8, <2>2, <2>3 DEF CursorInv
<1>11. CASE ~(watched /\ plane.pointer)
  <2>1. c2 = left /\ l2 = [link EXCEPT !.id = 0, !.asked = NoBuffer] /\ wire' = wire
    BY <1>3, <1>4, <1>5, <1>11 DEF Shares
  <2>2. IsLink(l2) /\ l2.id = 0
    BY <1>1, <2>1 DEF IsLink
  <2>3. CursorOk(p2, l2, wire, c2, NoCursor)
    BY <1>1, <1>6, <1>7, <1>9, <2>1, <2>2, NoSession
  <2>. QED  BY <1>2, <1>3, <1>4, <1>8, <2>1, <2>3 DEF CursorInv
<1>. QED  BY <1>10, <1>11


\* capture_cursor, of any capture, whose frame is in flight then or will be retried.
CaptureAsks(c) ==
  /\ IsCapture(cursorCapture') /\ IsLink(link')
  /\ link'.id = link.id /\ link'.damaged = link.damaged /\ link'.buffer = link.buffer
  /\ cursorCapture'.id = c.id /\ cursorCapture'.last = c.last
  /\ cursorCapture'.constraints = c.constraints /\ cursorCapture'.entered = c.entered
  /\ cursorCapture'.hotspot = c.hotspot /\ cursorCapture'.image = c.image
  /\ c.id # 0 /\ c.constraints # NoBuffer => cursorCapture'.frame \/ cursorCapture'.retry

LEMMA CapturesNext ==
  ASSUME NEW c, IsCapture(c), IsLink(link), CaptureCursor(c)
  PROVE  CaptureAsks(c)
<1>1. PICK c2 : c2 = cursorCapture'
  OBVIOUS
<1>2. PICK l2 : l2 = link'
  OBVIOUS
<1>3. CASE c2 = c /\ l2 = link
  BY <1>1, <1>2, <1>3 DEF CaptureCursor, IsCapture, CaptureAsks
<1>4. CASE c2 = [c EXCEPT !.frame = TRUE] /\ l2 = [link EXCEPT !.asked = c.constraints]
  <2>1. /\ IsLink(l2) /\ l2.id = link.id /\ l2.damaged = link.damaged /\ l2.buffer = link.buffer
    BY <1>4 DEF IsLink
  <2>2. c2 = [id |-> c.id, last |-> c.last, stopped |-> c.stopped, retry |-> c.retry,
              frame |-> TRUE, constraints |-> c.constraints, entered |-> c.entered,
              hotspot |-> c.hotspot, image |-> c.image]
    BY <1>4 DEF IsCapture
  <2>3. /\ c2.id = c.id /\ c2.last = c.last /\ c2.constraints = c.constraints
        /\ c2.entered = c.entered /\ c2.hotspot = c.hotspot /\ c2.image = c.image
        /\ c2.retry = c.retry
    BY <2>2
  <2>4. c2.frame = TRUE
    BY <2>2
  <2>5. c2.stopped = c.stopped
    BY <2>2
  <2>6. IsCapture(c2)
    BY <2>2, <2>3, <2>4, <2>5 DEF IsCapture
  <2>. QED  BY <1>1, <1>2, <2>1, <2>3, <2>4, <2>6 DEF CaptureAsks
<1>. QED  BY <1>1, <1>2, <1>3, <1>4 DEF CaptureCursor

\* What the session there is has been told, an event of it read.
LEMMA TracesRead ==
  ASSUME NEW p, IsPlane(p), NEW l, NEW q, NEW c, Traces(p, l, q, c), IsSeq(q), q # <<>>,
         NEW l2, l2.damaged = l.damaged, l2.buffer = l.buffer, NEW c2, c2.id = c.id,
         Of(q, 1, c.id, {"done"}) => c2.constraints = q[1].is.size,
         ~Of(q, 1, c.id, {"done"}) => c2.constraints = c.constraints,
         Of(q, 1, c.id, {"hotspot"}) => c2.hotspot = q[1].is.at,
         ~Of(q, 1, c.id, {"hotspot"}) => c2.hotspot = c.hotspot,
         Of(q, 1, c.id, {"enter"}) => c2.entered = TRUE,
         Of(q, 1, c.id, {"leave"}) => c2.entered = FALSE,
         ~Of(q, 1, c.id, {"enter", "leave"}) => c2.entered = c.entered,
         ~Of(q, 1, c.id, {"ready"}) => c2.image = c.image,
         (/\ Of(q, 1, c.id, {"ready"}) /\ NoneOf(Tail(q), c.id, Imaging)
          /\ q[1].is = Ready(p) /\ ~l.damaged) => c2.image = Captures(p)
  PROVE  Traces(p, l2, Tail(q), c2)
<1>1. Tells(Tail(q), c.id, {"done"}, Size(p), c2.constraints = SizeOf(p))
  <2>1. Of(q, 1, c.id, {"done"}) /\ q[1].is = Size(p) => c2.constraints = SizeOf(p)
    BY DEF Size
  <2>2. NoneOf(q, c.id, {"done"}) /\ c.constraints = SizeOf(p) => c2.constraints = SizeOf(p)
    BY NoneRead
  <2>3. Tells(q, c.id, {"done"}, Size(p), c.constraints = SizeOf(p))
    BY DEF Traces
  <2>. QED  BY <2>1, <2>2, <2>3, TellsRead
<1>2. Tells(Tail(q), c.id, {"hotspot"}, Hotspot(p), c2.hotspot = p.shape.hotspot)
  <2>1. Of(q, 1, c.id, {"hotspot"}) /\ q[1].is = Hotspot(p) => c2.hotspot = p.shape.hotspot
    BY DEF Hotspot
  <2>2. NoneOf(q, c.id, {"hotspot"}) /\ c.hotspot = p.shape.hotspot => c2.hotspot = p.shape.hotspot
    BY NoneRead
  <2>3. Tells(q, c.id, {"hotspot"}, Hotspot(p), c.hotspot = p.shape.hotspot)
    BY DEF Traces
  <2>. QED  BY <2>1, <2>2, <2>3, TellsRead
<1>3. Tells(Tail(q), c.id, {"enter", "leave"}, Side(p), c2.entered = p.inside)
  <2>0. p.inside \in BOOLEAN
    BY DEF IsPlane
  <2>1. ASSUME Of(q, 1, c.id, {"enter", "leave"}), q[1].is = Side(p)
        PROVE  c2.entered = p.inside
    <3>1. CASE p.inside
      <4>1. Of(q, 1, c.id, {"enter"})
        BY <2>1, <3>1 DEF Side, Of
      <4>. QED  BY <2>0, <2>1, <3>1, <4>1
    <3>2. CASE ~p.inside
      <4>1. Of(q, 1, c.id, {"leave"})
        BY <2>1, <3>2 DEF Side, Of
      <4>. QED  BY <2>0, <2>1, <3>2, <4>1
    <3>. QED  BY <3>1, <3>2
  <2>2. NoneOf(q, c.id, {"enter", "leave"}) /\ c.entered = p.inside => c2.entered = p.inside
    BY NoneRead
  <2>3. Tells(q, c.id, {"enter", "leave"}, Side(p), c.entered = p.inside)
    BY DEF Traces
  <2>. QED  BY <2>1, <2>2, <2>3, TellsRead
<1>4. ASSUME ~l.damaged
      PROVE  /\ SizeOf(p) # NoBuffer /\ l2.buffer = Turned(p.transform, p.shape)
             /\ Tells(Tail(q), c.id, Imaging, Ready(p), c2.image = Captures(p))
  <2>1. /\ SizeOf(p) # NoBuffer /\ l.buffer = Turned(p.transform, p.shape)
        /\ Tells(q, c.id, Imaging, Ready(p), c.image = Captures(p))
    BY <1>4 DEF Traces
  <2>2. ASSUME Of(q, 1, c.id, Imaging), q[1].is = Ready(p), NoneOf(Tail(q), c.id, Imaging)
        PROVE  c2.image = Captures(p)
    <3>1. Of(q, 1, c.id, {"ready"})
      BY <2>2 DEF Of, Ready
    <3>. QED  BY <1>4, <2>2, <3>1
  <2>3. ASSUME NoneOf(q, c.id, Imaging), c.image = Captures(p)
        PROVE  c2.image = Captures(p)
    <3>1. ~Of(q, 1, c.id, Imaging)
      BY <2>3, NoneRead
    <3>2. ~Of(q, 1, c.id, {"ready"})
      BY <3>1 DEF Of, Imaging
    <3>. QED  BY <2>3, <3>2
  <2>4. Tells(Tail(q), c.id, Imaging, Ready(p), c2.image = Captures(p))
    BY <2>1, <2>2, <2>3, TellsRead
  <2>. QED  BY <2>1, <2>4
<1>5. NoneOf(Tail(q), c.id, {"stopped"})
  BY NoneRead DEF Traces
<1>. QED  BY <1>1, <1>2, <1>3, <1>4, <1>5 DEF Traces

\* An event read, of whichever session.
LEMMA Reads ==
  ASSUME NEW p, NEW l, NEW q, NEW c, NEW s, CursorOk(p, l, q, c, s), q # <<>>,
         NEW l2, IsLink(l2), l2.id = l.id,
         NEW c2, IsCapture(c2), c2.id = c.id, c2.last = c.last,
         c.id # 0 /\ c2.constraints # NoBuffer => c2.frame \/ c2.retry,
         NEW s2, s2 = IF c.id # 0 /\ c2.entered THEN c2.image ELSE NoCursor,
         ~Of(q, 1, c.id, {"stopped"}),
         l.id # 0 => Traces(p, l2, Tail(q), c2)
  PROVE  CursorOk(p, l2, Tail(q), c2, s2)
<1>1. IsSeq(q) /\ IsPlane(p) /\ l.id \in {0, c.id}
  BY DEF CursorOk
<1>2. /\ IsSeq(Tail(q)) /\ Len(q) \in Nat /\ Len(q) >= 1 /\ Len(Tail(q)) = Len(q) - 1
      /\ \A i \in 1 .. Len(q) - 1 : Tail(q)[i] = q[i + 1]
  BY <1>1, SeqTail
<1>3. \A i \in 1 .. Len(Tail(q)) : Tail(q)[i].id \in 1 .. c2.last
  <2>1. \A i \in 1 .. Len(q) : q[i].id \in 1 .. c.last
    BY DEF CursorOk
  <2>2. \A i \in 1 .. Len(q) - 1 : i + 1 \in 1 .. Len(q)
    BY <1>2
  <2>. QED  BY <1>2, <2>1, <2>2
<1>4. c.id # 0 /\ l.id = 0 => ~NoneOf(Tail(q), c.id, {"stopped"})
  <2>1. c.id # 0 /\ l.id = 0 => ~NoneOf(q, c.id, {"stopped"})
    BY DEF CursorOk
  <2>. QED  BY <1>1, <2>1, NoneRead
<1>. QED  BY <1>1, <1>2, <1>3, <1>4 DEF CursorOk


\* What reading an event leaves a capture as, whatever it tells.
Steady(l, c, l2, c2, s2) ==
  /\ IsLink(l2) /\ l2.id = l.id /\ l2.damaged = l.damaged /\ l2.buffer = l.buffer
  /\ IsCapture(c2) /\ c2.id = c.id /\ c2.last = c.last
  /\ c.id # 0 /\ c2.constraints # NoBuffer => c2.frame \/ c2.retry
  /\ s2 = IF c.id # 0 /\ c2.entered THEN c2.image ELSE NoCursor

\* What an event of each kind tells it.
Heeds(p, l, q, c, c2) ==
  /\ ~Of(q, 1, c.id, {"stopped"})
  /\ Of(q, 1, c.id, {"done"}) => c2.constraints = q[1].is.size
  /\ ~Of(q, 1, c.id, {"done"}) => c2.constraints = c.constraints
  /\ Of(q, 1, c.id, {"hotspot"}) => c2.hotspot = q[1].is.at
  /\ ~Of(q, 1, c.id, {"hotspot"}) => c2.hotspot = c.hotspot
  /\ Of(q, 1, c.id, {"enter"}) => c2.entered = TRUE
  /\ Of(q, 1, c.id, {"leave"}) => c2.entered = FALSE
  /\ ~Of(q, 1, c.id, {"enter", "leave"}) => c2.entered = c.entered
  /\ ~Of(q, 1, c.id, {"ready"}) => c2.image = c.image
  /\ (/\ Of(q, 1, c.id, {"ready"}) /\ NoneOf(Tail(q), c.id, Imaging)
      /\ q[1].is = Ready(p) /\ ~l.damaged /\ l.id # 0) => c2.image = Captures(p)

LEMMA KindHeeded ==
  ASSUME NEW p, NEW l, NEW q, NEW c, NEW c2, NEW kind, kind # "stopped",
         q[1].id = c.id, q[1].is.of = kind,
         kind = "done" => c2.constraints = q[1].is.size,
         kind # "done" => c2.constraints = c.constraints,
         kind = "hotspot" => c2.hotspot = q[1].is.at,
         kind # "hotspot" => c2.hotspot = c.hotspot,
         kind = "enter" => c2.entered = TRUE,
         kind = "leave" => c2.entered = FALSE,
         kind \notin {"enter", "leave"} => c2.entered = c.entered,
         kind # "ready" => c2.image = c.image,
         kind = "ready" =>
           (NoneOf(Tail(q), c.id, Imaging) /\ q[1].is = Ready(p) /\ ~l.damaged /\ l.id # 0
              => c2.image = Captures(p))
  PROVE  Heeds(p, l, q, c, c2)
<1>1. /\ Of(q, 1, c.id, {"stopped"}) <=> kind = "stopped"
      /\ Of(q, 1, c.id, {"done"}) <=> kind = "done"
      /\ Of(q, 1, c.id, {"hotspot"}) <=> kind = "hotspot"
      /\ Of(q, 1, c.id, {"ready"}) <=> kind = "ready"
      /\ Of(q, 1, c.id, {"enter"}) <=> kind = "enter"
      /\ Of(q, 1, c.id, {"leave"}) <=> kind = "leave"
      /\ Of(q, 1, c.id, {"enter", "leave"}) <=> kind \in {"enter", "leave"}
  BY DEF Of
<1>. QED  BY <1>1 DEF Heeds

LEMMA ReadsOn ==
  ASSUME NEW p, NEW l, NEW q, NEW c, NEW s, CursorOk(p, l, q, c, s), q # <<>>,
         NEW l2, NEW c2, NEW s2, Steady(l, c, l2, c2, s2), Heeds(p, l, q, c, c2)
  PROVE  CursorOk(p, l2, Tail(q), c2, s2)
<1>1. IsPlane(p) /\ IsSeq(q) /\ (l.id # 0 => Traces(p, l, q, c))
  BY DEF CursorOk
<1>2. l2.id = l.id /\ l2.damaged = l.damaged /\ l2.buffer = l.buffer /\ c2.id = c.id
  BY DEF Steady
<1>3. ASSUME l.id # 0
      PROVE  Traces(p, l2, Tail(q), c2)
  <2>1. /\ Of(q, 1, c.id, {"done"}) => c2.constraints = q[1].is.size
        /\ ~Of(q, 1, c.id, {"done"}) => c2.constraints = c.constraints
        /\ Of(q, 1, c.id, {"hotspot"}) => c2.hotspot = q[1].is.at
        /\ ~Of(q, 1, c.id, {"hotspot"}) => c2.hotspot = c.hotspot
        /\ Of(q, 1, c.id, {"enter"}) => c2.entered = TRUE
        /\ Of(q, 1, c.id, {"leave"}) => c2.entered = FALSE
        /\ ~Of(q, 1, c.id, {"enter", "leave"}) => c2.entered = c.entered
        /\ ~Of(q, 1, c.id, {"ready"}) => c2.image = c.image
    BY DEF Heeds
  <2>2. (/\ Of(q, 1, c.id, {"ready"}) /\ NoneOf(Tail(q), c.id, Imaging)
         /\ q[1].is = Ready(p) /\ ~l.damaged) => c2.image = Captures(p)
    BY <1>3 DEF Heeds
  <2>. QED  BY <1>1, <1>2, <1>3, <2>1, <2>2, TracesRead
<1>4. ~Of(q, 1, c.id, {"stopped"})
  BY DEF Heeds
<1>. QED  BY <1>2, <1>3, <1>4, Reads DEF Steady

LEMMA EventKeeps == CursorInv /\ EventRead => CursorInv'
<1>. SUFFICES ASSUME CursorInv, EventRead PROVE CursorInv'
  OBVIOUS
<1>1. /\ IsPlane(plane) /\ IsLink(link) /\ IsCapture(cursorCapture) /\ IsSeq(wire)
      /\ link.id # 0 => link.id = cursorCapture.id /\ Traces(plane, link, wire, cursorCapture)
  BY SessionIs
<1>2. PICK c : c = cursorCapture
  OBVIOUS
<1>3. PICK c2 : c2 = cursorCapture'
  OBVIOUS
<1>4. PICK l2 : l2 = link'
  OBVIOUS
<1>5. PICK s2 : s2 = shown'
  OBVIOUS
<1>6. PICK first : first = wire[1]
  OBVIOUS
<1>7. PICK e : e = first.is
  OBVIOUS
<1>8. wire # <<>> /\ wire' = Tail(wire) /\ plane' = plane /\ Head(wire) = first
  <2>1. wire # <<>> /\ wire' = Tail(wire) /\ plane' = plane
    BY DEF EventRead
  <2>. QED  BY <1>1, <1>6, <2>1, SeqTail
<1>9. /\ c.id # 0 /\ c.constraints # NoBuffer => c.frame \/ c.retry
      /\ shown = IF c.id # 0 /\ c.entered THEN c.image ELSE NoCursor
      /\ CursorOk(plane, link, wire, c, shown)
  BY <1>2 DEF CursorInv, CursorOk
<1>10. ASSUME Steady(link, c, l2, c2, s2), Heeds(plane, link, wire, c, c2)
       PROVE  CursorInv'
  <2>1. CursorOk(plane, l2, Tail(wire), c2, s2)
    BY <1>8, <1>9, <1>10, ReadsOn
  <2>. QED  BY <1>3, <1>4, <1>5, <1>8, <2>1 DEF CursorInv
<1>11. CASE first.id # c.id
  <2>1. wire[1].id # c.id
    BY <1>6, <1>11
  <2>2. c2 = c /\ l2 = link /\ s2 = shown
    BY <1>2, <1>3, <1>4, <1>5, <1>8, <1>11 DEF EventRead
  <2>3. Steady(link, c, l2, c2, s2)
    BY <1>1, <1>2, <1>9, <2>2 DEF Steady
  <2>4. Heeds(plane, link, wire, c, c2)
    <3>1. /\ ~Of(wire, 1, c.id, {"stopped"}) /\ ~Of(wire, 1, c.id, {"done"})
          /\ ~Of(wire, 1, c.id, {"hotspot"}) /\ ~Of(wire, 1, c.id, {"enter"})
          /\ ~Of(wire, 1, c.id, {"leave"}) /\ ~Of(wire, 1, c.id, {"ready"})
      BY <2>1 DEF Of
    <3>2. /\ c2.constraints = c.constraints /\ c2.hotspot = c.hotspot
          /\ c2.entered = c.entered /\ c2.image = c.image
      BY <2>2
    <3>. QED  BY <3>1, <3>2 DEF Heeds
  <2>. QED  BY <1>10, <2>3, <2>4
<1>12. CASE first.id = c.id
  <2>1. c.id # 0
    <3>1. 1 \in 1 .. Len(wire)
      BY <1>1, <1>8, SeqTail
    <3>2. first.id \in 1 .. c.last /\ c.last \in Nat
      BY <1>1, <1>2, <1>6, <3>1 DEF CursorInv, CursorOk, IsCapture
    <3>. QED  BY <1>12, <3>2
  <2>0. e = wire[1].is
    BY <1>6, <1>7
  <2>3. PICK kind : kind = e.of
    OBVIOUS
  <2>2. wire[1].id = c.id /\ wire[1].is.of = kind
    BY <1>6, <1>7, <1>12, <2>3
  <2>4. CASE kind = "done"
    <3>1. PICK c1 : c1 = [c EXCEPT !.constraints = e.size]
      OBVIOUS
    <3>2. CaptureCursor(c1) /\ s2 = shown
      BY <1>2, <1>5, <1>7, <1>8, <1>12, <2>3, <2>4, <3>1 DEF EventRead
    <3>3. /\ IsCapture(c1) /\ c1.id = c.id /\ c1.last = c.last /\ c1.constraints = e.size
          /\ c1.entered = c.entered /\ c1.hotspot = c.hotspot /\ c1.image = c.image
      BY <1>1, <1>2, <3>1 DEF IsCapture
    <3>4. CaptureAsks(c1)
      BY <1>1, <3>2, <3>3, CapturesNext
    <3>5. Steady(link, c, l2, c2, s2)
      BY <1>3, <1>4, <1>9, <3>2, <3>3, <3>4 DEF Steady, CaptureAsks
    <3>6. Heeds(plane, link, wire, c, c2)
      BY <1>3, <2>0, <2>2, <2>4, <3>3, <3>4, KindHeeded DEF CaptureAsks
    <3>. QED  BY <1>10, <3>5, <3>6
  <2>5. CASE kind = "hotspot"
    <3>1. c2 = [c EXCEPT !.hotspot = e.at] /\ l2 = link /\ s2 = shown
      BY <1>2, <1>3, <1>4, <1>5, <1>7, <1>8, <1>12, <2>3, <2>5 DEF EventRead
    <3>2. /\ IsCapture(c2) /\ c2.id = c.id /\ c2.last = c.last /\ c2.constraints = c.constraints
          /\ c2.frame = c.frame /\ c2.retry = c.retry
          /\ c2.entered = c.entered /\ c2.hotspot = e.at /\ c2.image = c.image
      BY <1>1, <1>2, <3>1 DEF IsCapture
    <3>3. Steady(link, c, l2, c2, s2)
      BY <1>1, <1>9, <3>1, <3>2 DEF Steady
    <3>4. Heeds(plane, link, wire, c, c2)
      BY <2>0, <2>2, <2>5, <3>2, KindHeeded
    <3>. QED  BY <1>10, <3>3, <3>4
  <2>6. CASE kind \in {"enter", "leave"}
    <3>1. PICK in \in BOOLEAN : in = (kind = "enter")
      OBVIOUS
    <3>2. c2 = [c EXCEPT !.entered = in] /\ l2 = link
          /\ s2 = IF c2.id # 0 /\ c2.entered THEN c2.image ELSE NoCursor
      BY <1>2, <1>3, <1>4, <1>5, <1>7, <1>8, <1>12, <2>3, <2>6, <3>1 DEF EventRead, Enters, ShowCursor
    <3>3. /\ IsCapture(c2) /\ c2.id = c.id /\ c2.last = c.last /\ c2.constraints = c.constraints
          /\ c2.frame = c.frame /\ c2.retry = c.retry
          /\ c2.entered = in /\ c2.hotspot = c.hotspot /\ c2.image = c.image
      BY <1>1, <1>2, <3>2 DEF IsCapture
    <3>4. Steady(link, c, l2, c2, s2)
      BY <1>1, <1>9, <3>2, <3>3 DEF Steady
    <3>5. Heeds(plane, link, wire, c, c2)
      BY <2>0, <2>2, <2>6, <3>1, <3>3, KindHeeded
    <3>. QED  BY <1>10, <3>4, <3>5
  <2>7. CASE kind = "ready"
    <3>1. ASSUME NoneOf(Tail(wire), c.id, Imaging), ~link.damaged, link.id # 0
          PROVE  /\ c.constraints # NoBuffer /\ c.hotspot = plane.shape.hotspot
                 /\ link.buffer = Turned(plane.transform, plane.shape)
      <4>1. Traces(plane, link, wire, c)
        BY <1>1, <1>2, <3>1
      <4>2. NoneOf(Tail(wire), c.id, {"done"}) /\ NoneOf(Tail(wire), c.id, {"hotspot"})
        BY <3>1 DEF NoneOf, Of, Imaging
      <4>3. ~Of(wire, 1, c.id, {"done"}) /\ ~Of(wire, 1, c.id, {"hotspot"})
        BY <2>2, <2>7 DEF Of
      <4>4. NoneOf(wire, c.id, {"done"}) /\ NoneOf(wire, c.id, {"hotspot"})
        BY <1>1, <1>8, <4>2, <4>3, NoneRead
      <4>5. c.constraints = SizeOf(plane) /\ c.hotspot = plane.shape.hotspot
        BY <4>1, <4>4, EndsIsSome DEF Traces, Tells
      <4>. QED  BY <3>1, <4>1, <4>5 DEF Traces
    <3>2. CASE c.constraints = NoBuffer
      <4>1. c2 = [c EXCEPT !.frame = FALSE] /\ l2 = link /\ s2 = shown
        BY <1>2, <1>3, <1>4, <1>5, <1>7, <1>8, <1>12, <2>3, <2>7, <3>2 DEF EventRead
      <4>2. /\ IsCapture(c2) /\ c2.id = c.id /\ c2.last = c.last /\ c2.constraints = c.constraints
            /\ c2.entered = c.entered /\ c2.hotspot = c.hotspot /\ c2.image = c.image
        BY <1>1, <1>2, <4>1 DEF IsCapture
      <4>3. Steady(link, c, l2, c2, s2)
        BY <1>1, <1>9, <3>2, <4>1, <4>2 DEF Steady
      <4>4. Heeds(plane, link, wire, c, c2)
        BY <2>0, <2>2, <2>7, <3>1, <3>2, <4>2, KindHeeded
      <4>. QED  BY <1>10, <4>3, <4>4
    <3>3. CASE c.constraints # NoBuffer
      <4>1. PICK drawn : drawn = Cropped(Upright(e.transform, link.buffer), c.hotspot)
        OBVIOUS
      <4>2. PICK c1 : c1 = [c EXCEPT !.frame = FALSE, !.image = drawn]
        OBVIOUS
      <4>3. CaptureCursor(c1) /\ ShowCursor(c1)
        BY <1>2, <1>7, <1>8, <1>12, <2>3, <2>7, <3>3, <4>1, <4>2 DEF EventRead
      <4>4. /\ IsCapture(c1) /\ c1.id = c.id /\ c1.last = c.last /\ c1.constraints = c.constraints
            /\ c1.entered = c.entered /\ c1.hotspot = c.hotspot /\ c1.image = drawn
        BY <1>1, <1>2, <4>2 DEF IsCapture
      <4>5. CaptureAsks(c1)
        BY <1>1, <4>3, <4>4, CapturesNext
      <4>6. s2 = IF c.id # 0 /\ c.entered THEN drawn ELSE NoCursor
        BY <1>5, <4>3, <4>4 DEF ShowCursor
      <4>7. Steady(link, c, l2, c2, s2)
        BY <1>3, <1>4, <4>4, <4>5, <4>6 DEF Steady, CaptureAsks
      <4>8. ASSUME NoneOf(Tail(wire), c.id, Imaging), e = Ready(plane), ~link.damaged, link.id # 0
            PROVE  drawn = Captures(plane)
        <5>1. e.transform = plane.transform
          BY <4>8 DEF Ready
        <5>. QED  BY <3>1, <4>1, <4>8, <5>1 DEF Captures
      <4>9. Heeds(plane, link, wire, c, c2)
        BY <1>3, <2>0, <2>2, <2>7, <4>4, <4>5, <4>8, KindHeeded DEF CaptureAsks
      <4>. QED  BY <1>10, <4>7, <4>9
    <3>. QED  BY <3>2, <3>3
  <2>8. CASE kind = "failed" /\ e.constraints
    <3>1. PICK c1 : c1 = [c EXCEPT !.frame = FALSE]
      OBVIOUS
    <3>2. CaptureCursor(c1) /\ s2 = shown
      BY <1>2, <1>5, <1>7, <1>8, <1>12, <2>3, <2>8, <3>1 DEF EventRead
    <3>3. /\ IsCapture(c1) /\ c1.id = c.id /\ c1.last = c.last /\ c1.constraints = c.constraints
          /\ c1.entered = c.entered /\ c1.hotspot = c.hotspot /\ c1.image = c.image
      BY <1>1, <1>2, <3>1 DEF IsCapture
    <3>4. CaptureAsks(c1)
      BY <1>1, <3>2, <3>3, CapturesNext
    <3>5. Steady(link, c, l2, c2, s2)
      BY <1>3, <1>4, <1>9, <3>2, <3>3, <3>4 DEF Steady, CaptureAsks
    <3>6. Heeds(plane, link, wire, c, c2)
      BY <1>3, <2>0, <2>2, <2>8, <3>3, <3>4, KindHeeded DEF CaptureAsks
    <3>. QED  BY <1>10, <3>5, <3>6
  <2>9. CASE kind = "failed" /\ ~e.constraints
    <3>1. c2 = [c EXCEPT !.frame = FALSE, !.retry = TRUE] /\ l2 = link /\ s2 = shown
      BY <1>2, <1>3, <1>4, <1>5, <1>7, <1>8, <1>12, <2>3, <2>9 DEF EventRead
    <3>2. /\ IsCapture(c2) /\ c2.id = c.id /\ c2.last = c.last /\ c2.constraints = c.constraints
          /\ c2.retry = TRUE
          /\ c2.entered = c.entered /\ c2.hotspot = c.hotspot /\ c2.image = c.image
      BY <1>1, <1>2, <3>1 DEF IsCapture
    <3>3. Steady(link, c, l2, c2, s2)
      BY <1>1, <1>9, <3>1, <3>2 DEF Steady
    <3>4. Heeds(plane, link, wire, c, c2)
      BY <2>0, <2>2, <2>9, <3>2, KindHeeded
    <3>. QED  BY <1>10, <3>3, <3>4
  <2>10. CASE kind = "stopped"
    <3>1. c2 = [Unopened(c) EXCEPT !.stopped = TRUE] /\ l2 = link /\ CaptureClosed(c)
      BY <1>2, <1>3, <1>4, <1>7, <1>8, <1>12, <2>3, <2>10 DEF EventRead
    <3>2. IsCapture(c2) /\ c2.id = 0 /\ c2.last = c.last
      BY <1>1, <1>2, <3>1, UnopenedIs
    <3>3. s2 = NoCursor
      BY <1>2, <1>5, <3>1, ShownClosed
    <3>4. /\ IsSeq(Tail(wire)) /\ Len(wire) \in Nat /\ Len(wire) >= 1 /\ Len(Tail(wire)) = Len(wire) - 1
          /\ \A i \in 1 .. Len(wire) - 1 : Tail(wire)[i] = wire[i + 1]
      BY <1>1, <1>8, SeqTail
    <3>5. \A i \in 1 .. Len(Tail(wire)) : Tail(wire)[i].id \in 1 .. c2.last
      <4>1. \A i \in 1 .. Len(wire) : wire[i].id \in 1 .. c2.last
        BY <1>9, <3>2 DEF CursorOk
      <4>2. \A i \in 1 .. Len(wire) - 1 : i + 1 \in 1 .. Len(wire)
        BY <3>4
      <4>. QED  BY <3>4, <4>1, <4>2
    <3>6. link.id = 0
      <4>1. Of(wire, 1, c.id, {"stopped"})
        BY <2>2, <2>10 DEF Of
      <4>2. ~NoneOf(wire, c.id, {"stopped"})
        BY <1>1, <1>8, <4>1, NoneRead
      <4>. QED  BY <1>1, <1>2, <4>2 DEF Traces
    <3>7. CursorOk(plane, l2, Tail(wire), c2, s2)
      BY <1>1, <3>1, <3>2, <3>3, <3>4, <3>5, <3>6, NoSession
    <3>. QED  BY <1>3, <1>4, <1>5, <1>8, <3>7 DEF CursorInv
  <2>. QED  BY <1>2, <1>7, <1>8, <1>12, <2>3, <2>4, <2>5, <2>6, <2>7, <2>8, <2>9, <2>10 DEF EventRead
<1>. QED  BY <1>11, <1>12

LEMMA RetryKeeps == CursorInv /\ RetryComes => CursorInv'
<1>. SUFFICES ASSUME CursorInv, RetryComes PROVE CursorInv'
  OBVIOUS
<1>1. /\ IsPlane(plane) /\ IsLink(link) /\ IsCapture(cursorCapture) /\ IsSeq(wire)
  BY SessionIs
<1>2. PICK c : c = cursorCapture
  OBVIOUS
<1>3. PICK c1 : c1 = [c EXCEPT !.retry = FALSE]
  OBVIOUS
<1>4. /\ IsCapture(c1) /\ c1.id = c.id /\ c1.last = c.last /\ c1.constraints = c.constraints
      /\ c1.entered = c.entered /\ c1.hotspot = c.hotspot /\ c1.image = c.image
  BY <1>1, <1>2, <1>3 DEF IsCapture
<1>5. CaptureCursor(c1) /\ UNCHANGED <<plane, wire, shown>>
  BY <1>2, <1>3 DEF RetryComes
<1>6. CaptureAsks(c1)
  BY <1>1, <1>4, <1>5, CapturesNext
<1>7. PICK c2 : c2 = cursorCapture'
  OBVIOUS
<1>8. PICK l2 : l2 = link'
  OBVIOUS
<1>9. /\ IsCapture(c2) /\ IsLink(l2)
      /\ l2.id = link.id /\ l2.damaged = link.damaged /\ l2.buffer = link.buffer
      /\ c2.id = c.id /\ c2.last = c.last /\ c2.constraints = c.constraints
      /\ c2.entered = c.entered /\ c2.hotspot = c.hotspot /\ c2.image = c.image
      /\ c.id # 0 /\ c2.constraints # NoBuffer => c2.frame \/ c2.retry
  BY <1>4, <1>6, <1>7, <1>8 DEF CaptureAsks
<1>10. CursorOk(plane, link, wire, c, shown)
  BY <1>2 DEF CursorInv
<1>11. ASSUME Traces(plane, link, wire, c)
       PROVE  Traces(plane, l2, wire, c2)
  BY <1>9, <1>11 DEF Traces
<1>12. CursorOk(plane, l2, wire, c2, shown)
  BY <1>9, <1>10, <1>11 DEF CursorOk
<1>. QED  BY <1>5, <1>7, <1>8, <1>12 DEF CursorInv

LEMMA CursorStep == CursorInv /\ [CursorNext]_cursorVars => CursorInv'
<1>. SUFFICES ASSUME CursorInv, [CursorNext]_cursorVars PROVE CursorInv'
  OBVIOUS
<1>1. CASE UNCHANGED cursorVars
  BY <1>1 DEF cursorVars, CursorInv
<1>. QED  BY <1>1, ShapeKeeps, CrossesKeeps, FrameKeeps, SourceKeeps, PointerKeeps, JoinKeeps,
             LeaveKeeps, SharesKeeps, EventKeeps, RetryKeeps DEF CursorNext

(* What is on its way to a cursor's capture, and what it has taken in, is  *)
(* what the compositor's cursor looks like (cursor.rs).                    *)
THEOREM CursorSafe == CursorSpec => []CursorInv
<1>. QED  BY CursorBegins, CursorStep, PTL DEF CursorSpec

(* Once no event is unread and no frame owed, the cursor shown is captured *)
(* of the cursor as it looks (cursor.rs:14-23), for every shape it takes.  *)
THEOREM CursorStaysCurrent == CursorSpec => []CursorIsCurrent
<1>1. CursorInv => CursorIsCurrent
  <2>. SUFFICES ASSUME CursorInv, wire = <<>>
                PROVE  /\ cursorCapture.id = 0 => shown = NoCursor
                       /\ cursorCapture.id # 0 /\ SizeOf(plane) # NoBuffer =>
                            cursorCapture.frame \/ cursorCapture.retry
                       /\ cursorCapture.id # 0 /\ ~link.damaged =>
                            shown = IF plane.inside THEN Captures(plane) ELSE NoCursor
    BY DEF CursorIsCurrent
  <2>1. \A id, K : NoneOf(wire, id, K)
    BY SeqNil DEF NoneOf
  <2>2. cursorCapture.id # 0 => link.id = cursorCapture.id /\ Traces(plane, link, wire, cursorCapture)
    BY <2>1 DEF CursorInv, CursorOk
  <2>3. ASSUME cursorCapture.id # 0
        PROVE  /\ cursorCapture.constraints = SizeOf(plane) /\ cursorCapture.entered = plane.inside
               /\ ~link.damaged => cursorCapture.image = Captures(plane)
    BY <2>1, <2>2, <2>3, EndsIsSome DEF Traces, Tells
  <2>4. /\ shown = IF cursorCapture.id # 0 /\ cursorCapture.entered THEN cursorCapture.image ELSE NoCursor
        /\ cursorCapture.id # 0 /\ cursorCapture.constraints # NoBuffer
              => cursorCapture.frame \/ cursorCapture.retry
    BY DEF CursorInv, CursorOk
  <2>. QED  BY <2>3, <2>4
<1>. QED  BY <1>1, CursorSafe, PTL
=============================================================================
