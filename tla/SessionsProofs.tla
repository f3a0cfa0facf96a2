---------------------------- MODULE SessionsProofs ----------------------------
(***************************************************************************)
(* What TLAPS proves of Sessions and of Walk.  Sessions, for any outputs,  *)
(* scales, images, lists of encodings and length of the broadcast: what    *)
(* the wait for the output finds is so, and what the client was last told  *)
(* is how the desktop is.  Walk, for any dial, steps and durations, and    *)
(* whatever verdicts a link shows: the dial keeps between the floor and    *)
(* the ceiling, and a quality the link refused is out of its reach while   *)
(* the refusal holds.                                                      *)
(***************************************************************************)
EXTENDS Sessions, Walk, TLAPS

Change  == {"geometry", "outputs", "cursor"}
Chooser == {"adopted", "client"}
Image   == Images \cup {NoImage}

Step ==
  [op : {"emit"}, to : Change]
    \cup [op : {"cursor"}, to : Image]
    \cup [op : {"select"}, to : Outputs, by : Chooser]
    \cup [op : {"framebuffer"}, to : Outputs]
    \cup [op : {"geometry"}]
    \cup [op : {"outputs"}, answer : BOOLEAN]

ThreadType ==
  [outputs : SUBSET Outputs, selected : Outputs \cup {NoOutput}, by : Chooser,
   scale : [Outputs -> Densities], todo : Seq(Step)]

Drawn == [of : Outputs, scale : Densities]
Lists == [active : Outputs \cup {NoOutput},
          entries : UNION {[S -> Densities] : S \in SUBSET Outputs}]

DeskType ==
  [framebuffer : Outputs, cursor : Image, holder : {0, EARLIER, SELF, LATER},
   by : Chooser, geometry : Drawn, displays : Lists]

CommandType == [type : {"joined", "left"}, id : {EARLIER, SELF, LATER}]
                 \cup [type : {"select"}, id : {EARLIER, SELF, LATER}, output : Outputs]

SessionType ==
  [phase : HandshakeSteps \cup {"joined", "waiting", "listed", "arrived", "up", "over"},
   found : {"unasked", "shared", "elsewhere", "absent"},
   by : {"nobody"} \cup Chooser, left : BOOLEAN, size : Outputs \cup {NoOutput},
   arrivals : Nat, lists : ClientLists \cup {NoList},
   pending : BOOLEAN, fence : BOOLEAN, announce_cursor : BOOLEAN, announce_eds : BOOLEAN]

ClientType ==
  [version : BOOLEAN, geometry : Drawn \cup {NoOutput}, displays : Lists \cup {NoOutput},
   cursor : Image, eds : Outputs \cup {NoOutput}]

SessionsTypeOK ==
  /\ thread \in ThreadType
  /\ desk \in DeskType
  /\ asked \in Seq(CommandType)
  /\ session \in SessionType
  /\ unread \in [queue : Seq(Change), lagged : BOOLEAN, lost : BOOLEAN]
  /\ clientHas \in ClientType
  /\ happenings \in Nat

-----------------------------------------------------------------------------
(* What is told.                                                           *)

Within(x, s) == \E i \in DOMAIN s : s[i] = x

\* A change is still to be announced, or its event to be read.
Due(t, u, e) == Within(Emit(e), t.todo) \/ Within(e, u.queue)

\* What the client has of the desk, but for what is due or was lost.
Told(t, d, s, u, c) ==
  /\ s.phase \notin {"up", "over"} => ~s.lists.cursor
  /\ s.phase = "up" /\ s.lists.cursor =>
       /\ ~Due(t, u, "geometry") /\ ~u.lost /\ s.lists.density => c.geometry = d.geometry
       /\ ~Due(t, u, "outputs") /\ ~u.lost /\ s.lists.outputs => c.displays = d.displays
       /\ ~Due(t, u, "cursor") /\ ~u.lagged => s.announce_cursor \/ c.cursor = d.cursor

-----------------------------------------------------------------------------
(* A handler on its way.                                                   *)

Does(s, op) == \E i \in DOMAIN s : s[i].op = op

\* The framebuffer follows the selection, and the list both.
Ordered(s) ==
  \A i \in 1 .. Len(s), j \in 1 .. Len(s) : i < j =>
    /\ s[i].op = "framebuffer" => s[j].op # "select"
    /\ s[i].op = "outputs" => s[j].op \notin {"select", "framebuffer"}

\* Where it moves the desktop: o, which the list does not have the desktop on;
\* by a client's choice, or to the output the configuration names where there is one.
Moves(t, d, o) ==
  \A i \in DOMAIN t.todo :
    /\ t.todo[i].op \in {"select", "framebuffer"} =>
         /\ t.todo[i].to = o /\ o \in t.outputs /\ o # d.displays.active
         /\ Does(t.todo, "select") \/ o = t.selected
    /\ t.todo[i].op = "select" =>
         t.todo[i].by = "client" \/ o = Wanted \/ Wanted \notin t.outputs

\* What was published, and what is once it is done.
Runs(t, d) ==
  /\ Ordered(t.todo)
  /\ \E o \in Outputs : Moves(t, d, o)
  /\ Does(t.todo, "select") => Does(t.todo, "framebuffer")
  /\ Does(t.todo, "framebuffer") => Does(t.todo, "outputs")
  /\ ~Does(t.todo, "outputs") => d.displays.active = t.selected
  /\ ~Does(t.todo, "framebuffer") /\ t.selected # NoOutput => d.framebuffer = t.selected
  /\ d.displays.active = t.selected /\ t.selected # NoOutput => d.framebuffer = t.selected
  /\ ~Does(t.todo, "select") /\ t.selected # Wanted /\ Wanted \in t.outputs => t.by = "client"
  /\ d.displays.active # Wanted /\ Wanted \in Listed(d.displays) => d.by = "client"
  /\ t.selected \in t.outputs \cup {NoOutput}

-----------------------------------------------------------------------------
(* What the wait found.                                                    *)

Found(t, d, s) ==
  /\ s.phase \in {"arrived", "up", "over"} \/ s.found = "unasked"
  /\ s.found = "elsewhere" => s.by = "client"
  /\ s.found = "shared" /\ ~s.left =>
       /\ s.phase = "arrived" => d.framebuffer = Wanted /\ t.selected \in {Wanted, NoOutput}
       /\ s.phase = "up" => s.size = Wanted

SessionsInv ==
  /\ SessionsTypeOK
  /\ Told(thread, desk, session, unread, clientHas)
  /\ Runs(thread, desk)
  /\ Found(thread, desk, session)

-----------------------------------------------------------------------------
(* Sequences of steps.                                                     *)

LEMMA TailOf ==
  ASSUME NEW S, NEW s \in Seq(S), s # <<>>
  PROVE  /\ Head(s) = s[1] /\ s[1] \in S /\ Tail(s) \in Seq(S)
         /\ Len(s) \in Nat /\ Len(s) >= 1 /\ DOMAIN s = 1 .. Len(s)
         /\ DOMAIN Tail(s) = 1 .. Len(s) - 1 /\ Len(Tail(s)) = Len(s) - 1
         /\ \A i \in 1 .. Len(s) - 1 : Tail(s)[i] = s[i + 1]
OBVIOUS

LEMMA WithinTail ==
  ASSUME NEW S, NEW s \in Seq(S), s # <<>>, NEW x
  PROVE  Within(x, s) <=> x = Head(s) \/ Within(x, Tail(s))
<1>1. PICK n \in Nat : /\ n >= 1 /\ DOMAIN s = 1 .. n /\ DOMAIN Tail(s) = 1 .. n - 1
                       /\ Head(s) = s[1] /\ \A i \in 1 .. n - 1 : Tail(s)[i] = s[i + 1]
  BY TailOf
<1>2. ASSUME Within(x, s), x # Head(s) PROVE Within(x, Tail(s))
  <2>1. PICK i \in 1 .. n : s[i] = x
    BY <1>1, <1>2 DEF Within
  <2>2. i - 1 \in 1 .. n - 1 /\ Tail(s)[i - 1] = s[(i - 1) + 1] /\ (i - 1) + 1 = i
    BY <1>1, <1>2, <2>1
  <2>3. QED
    BY <1>1, <2>1, <2>2 DEF Within
<1>3. ASSUME Within(x, Tail(s)) PROVE Within(x, s)
  <2>1. PICK i \in 1 .. n - 1 : Tail(s)[i] = x
    BY <1>1, <1>3 DEF Within
  <2>2. i + 1 \in 1 .. n /\ s[i + 1] = x
    BY <1>1, <2>1
  <2>3. QED
    BY <1>1, <2>2 DEF Within
<1>4. x = Head(s) => Within(x, s)
  BY <1>1 DEF Within
<1>5. QED
  BY <1>2, <1>3, <1>4

LEMMA AppendOf ==
  ASSUME NEW S, NEW s \in Seq(S), NEW y \in S
  PROVE  /\ Append(s, y) \in Seq(S) /\ Append(s, y) # <<>>
         /\ Len(s) \in Nat /\ Len(Append(s, y)) = Len(s) + 1 /\ DOMAIN s = 1 .. Len(s)
         /\ DOMAIN Append(s, y) = 1 .. Len(s) + 1 /\ Append(s, y)[Len(s) + 1] = y
         /\ \A i \in 1 .. Len(s) : Append(s, y)[i] = s[i]
OBVIOUS

LEMMA WithinAppend ==
  ASSUME NEW S, NEW s \in Seq(S), NEW y \in S, NEW x
  PROVE  Within(x, Append(s, y)) <=> x = y \/ Within(x, s)
<1>0. PICK n, u : n = Len(s) /\ u = Append(s, y)
  OBVIOUS
<1>1. /\ n \in Nat /\ u = Append(s, y) /\ DOMAIN s = 1 .. n /\ DOMAIN u = 1 .. n + 1
      /\ u[n + 1] = y /\ \A i \in 1 .. n : u[i] = s[i]
  BY <1>0, AppendOf
<1>2. ASSUME Within(x, u), x # y PROVE Within(x, s)
  <2>1. PICK i \in 1 .. n + 1 : u[i] = x
    BY <1>1, <1>2 DEF Within
  <2>2. i \in 1 .. n
    BY <1>1, <1>2, <2>1
  <2>3. QED
    BY <1>1, <2>1, <2>2 DEF Within
<1>3. ASSUME Within(x, s) PROVE Within(x, u)
  BY <1>1, <1>3 DEF Within
<1>4. x = y => Within(x, u)
  BY <1>1 DEF Within
<1>5. QED
  BY <1>1, <1>2, <1>3, <1>4

\* A step put before the rest.
LEMMA ConsOf ==
  ASSUME NEW S, NEW s \in Seq(S), NEW y \in S
  PROVE  /\ <<y>> \o s \in Seq(S)
         /\ Len(s) \in Nat /\ DOMAIN s = 1 .. Len(s)
         /\ Len(<<y>> \o s) = Len(s) + 1 /\ DOMAIN (<<y>> \o s) = 1 .. Len(s) + 1
         /\ (<<y>> \o s)[1] = y
         /\ \A i \in 1 .. Len(s) : (<<y>> \o s)[i + 1] = s[i]
         /\ \A i \in 2 .. Len(s) + 1 : (<<y>> \o s)[i] = s[i - 1]
<1>1. Len(s) \in Nat /\ DOMAIN s = 1 .. Len(s) /\ <<y>> \in Seq(S) /\ Len(<<y>>) = 1 /\ <<y>>[1] = y
  OBVIOUS
<1>2. <<y>> \o s \in Seq(S)
  BY <1>1
<1>3. Len(<<y>> \o s) = Len(s) + 1 /\ DOMAIN (<<y>> \o s) = 1 .. Len(s) + 1
  BY <1>1
<1>4. (<<y>> \o s)[1] = y
  BY <1>1
<1>5. ASSUME NEW i \in 2 .. Len(s) + 1 PROVE (<<y>> \o s)[i] = s[i - 1]
  BY <1>1, <1>5
<1>6. ASSUME NEW i \in 1 .. Len(s) PROVE (<<y>> \o s)[i + 1] = s[i]
  BY <1>1, <1>5, <1>6
<1>7. QED
  BY <1>1, <1>2, <1>3, <1>4, <1>5, <1>6

LEMMA WithinCons ==
  ASSUME NEW S, NEW s \in Seq(S), NEW y \in S, NEW x
  PROVE  Within(x, <<y>> \o s) <=> x = y \/ Within(x, s)
<1>0. PICK n, u : n = Len(s) /\ u = <<y>> \o s
  OBVIOUS
<1>1. /\ n \in Nat /\ u = <<y>> \o s /\ DOMAIN s = 1 .. n /\ DOMAIN u = 1 .. n + 1
      /\ u[1] = y /\ \A i \in 1 .. n : u[i + 1] = s[i]
      /\ \A i \in 2 .. n + 1 : u[i] = s[i - 1]
  BY <1>0, ConsOf
<1>2. ASSUME Within(x, u), x # y PROVE Within(x, s)
  <2>1. PICK i \in 1 .. n + 1 : u[i] = x
    BY <1>1, <1>2 DEF Within
  <2>2. i \in 2 .. n + 1 /\ i - 1 \in 1 .. n
    BY <1>1, <1>2, <2>1
  <2>3. QED
    BY <1>1, <2>1, <2>2 DEF Within
<1>3. ASSUME Within(x, s) PROVE Within(x, u)
  <2>1. PICK i \in 1 .. n : s[i] = x
    BY <1>1, <1>3 DEF Within
  <2>2. i + 1 \in 1 .. n + 1
    BY <1>1, <2>1
  <2>3. QED
    BY <1>1, <2>1, <2>2 DEF Within
<1>4. x = y => Within(x, u)
  BY <1>1 DEF Within
<1>5. QED
  BY <1>1, <1>2, <1>3, <1>4

\* What is left once the first step is done.
LEMMA Rest ==
  ASSUME NEW s \in Seq(Step), s # <<>>, Ordered(s)
  PROVE  /\ Tail(s) \in Seq(Step) /\ Head(s) \in Step /\ Ordered(Tail(s))
         /\ \A op : Does(s, op) <=> Head(s).op = op \/ Does(Tail(s), op)
         /\ \A i \in DOMAIN Tail(s) : \E j \in DOMAIN s : Tail(s)[i] = s[j]
         /\ \E j \in DOMAIN s : Head(s) = s[j]
         /\ Head(s).op = "framebuffer" => ~Does(Tail(s), "select")
         /\ Head(s).op = "outputs" => ~Does(Tail(s), "select") /\ ~Does(Tail(s), "framebuffer")
<1>0. PICK n, u, x : n = Len(s) /\ u = Tail(s) /\ x = Head(s)
  OBVIOUS
<1>1. /\ n \in Nat /\ n >= 1 /\ DOMAIN s = 1 .. n /\ Len(s) = n
      /\ DOMAIN u = 1 .. n - 1 /\ Len(u) = n - 1
      /\ x = s[1] /\ x \in Step /\ u \in Seq(Step)
      /\ \A i \in 1 .. n - 1 : u[i] = s[i + 1]
  BY <1>0, TailOf
<1>2. Ordered(u)
  <2>1. ASSUME NEW i \in 1 .. n - 1, NEW j \in 1 .. n - 1, i < j
        PROVE  /\ u[i].op = "framebuffer" => u[j].op # "select"
               /\ u[i].op = "outputs" => u[j].op \notin {"select", "framebuffer"}
    <3>1. /\ i + 1 \in 1 .. n /\ j + 1 \in 1 .. n /\ i + 1 < j + 1
          /\ u[i] = s[i + 1] /\ u[j] = s[j + 1]
      BY <1>1, <2>1
    <3>2. QED
      BY <1>1, <3>1 DEF Ordered
  <2>2. QED
    BY <1>1, <2>1 DEF Ordered
<1>3. \A i \in DOMAIN u : i + 1 \in DOMAIN s /\ u[i] = s[i + 1]
  BY <1>1
<1>4. ASSUME NEW op PROVE Does(s, op) <=> x.op = op \/ Does(u, op)
  <2>1. ASSUME Does(s, op), x.op # op PROVE Does(u, op)
    <3>1. PICK i \in 1 .. n : s[i].op = op
      BY <1>1, <2>1 DEF Does
    <3>2. i - 1 \in 1 .. n - 1 /\ u[i - 1] = s[(i - 1) + 1] /\ (i - 1) + 1 = i
      BY <1>1, <2>1, <3>1
    <3>3. QED
      BY <1>1, <3>1, <3>2 DEF Does
  <2>2. Does(u, op) => Does(s, op)
    BY <1>3 DEF Does
  <2>3. x.op = op => Does(s, op)
    BY <1>1 DEF Does
  <2>4. QED
    BY <2>1, <2>2, <2>3
<1>5. ASSUME NEW i \in DOMAIN u
      PROVE  /\ x.op = "framebuffer" => u[i].op # "select"
             /\ x.op = "outputs" => u[i].op # "select" /\ u[i].op # "framebuffer"
  <2>1. 1 \in 1 .. n /\ i + 1 \in 1 .. n /\ 1 < i + 1 /\ u[i] = s[i + 1]
    BY <1>1, <1>5
  <2>2. QED
    BY <1>1, <2>1 DEF Ordered
<1>6. /\ x.op = "framebuffer" => ~Does(u, "select")
      /\ x.op = "outputs" => ~Does(u, "select") /\ ~Does(u, "framebuffer")
  BY <1>5 DEF Does
<1>7. 1 \in DOMAIN s
  BY <1>1
<1>8. QED
  BY <1>0, <1>1, <1>2, <1>3, <1>4, <1>6, <1>7

Moving == {"select", "framebuffer"}

\* The same steps of these are left.
SameMoves(r, s) ==
  /\ Ordered(r)
  /\ \A op \in Moving \cup {"outputs"} : Does(r, op) <=> Does(s, op)
  /\ \A i \in DOMAIN r : r[i].op \in Moving => \E j \in DOMAIN s : r[i] = s[j]

\* An announcement put before what is left.
Before(y, s) == <<y>> \o s

LEMMA Announce ==
  ASSUME NEW s, s \in Seq(Step), Ordered(s), NEW e, e \in Change,
         NEW v, v = Before(Emit(e), s)
  PROVE  /\ v \in Seq(Step) /\ SameMoves(v, s)
         /\ \A x : Within(x, v) <=> x = Emit(e) \/ Within(x, s)
<1>0. PICK n, y : n = Len(s) /\ y = Emit(e)
  OBVIOUS
<1>1. y \in Step /\ y.op = "emit"
  BY <1>0 DEF Step, Emit
<1>2. /\ n \in Nat /\ DOMAIN s = 1 .. n /\ Len(s) = n /\ v \in Seq(Step)
      /\ DOMAIN v = 1 .. n + 1 /\ Len(v) = n + 1 /\ v[1] = y
      /\ \A i \in 1 .. n : v[i + 1] = s[i]
      /\ \A i \in 2 .. n + 1 : v[i] = s[i - 1]
  BY <1>0, <1>1, ConsOf DEF Before
<1>3. ASSUME NEW i \in DOMAIN v, v[i].op # "emit"
      PROVE  i \in 2 .. n + 1 /\ i - 1 \in DOMAIN s /\ v[i] = s[i - 1]
  <2>1. i # 1
    BY <1>1, <1>2, <1>3
  <2>2. i \in 2 .. n + 1 /\ i - 1 \in 1 .. n
    BY <1>2, <1>3, <2>1
  <2>3. QED
    BY <1>2, <2>2
<1>4. Ordered(v)
  <2>1. ASSUME NEW i \in 1 .. n + 1, NEW j \in 1 .. n + 1, i < j
        PROVE  /\ v[i].op = "framebuffer" => v[j].op # "select"
               /\ v[i].op = "outputs" => v[j].op \notin {"select", "framebuffer"}
    <3>1. CASE v[i].op = "emit"
      BY <3>1
    <3>2. CASE v[i].op # "emit"
      <4>1. i - 1 \in 1 .. n /\ v[i] = s[i - 1]
        BY <1>2, <1>3, <3>2
      <4>2. j \in 2 .. n + 1 /\ j - 1 \in 1 .. n /\ i - 1 < j - 1 /\ v[j] = s[j - 1]
        BY <1>2, <2>1, <4>1
      <4>3. QED
        BY <1>2, <4>1, <4>2 DEF Ordered
    <3>3. QED
      BY <3>1, <3>2
  <2>2. QED
    BY <1>2, <2>1 DEF Ordered
<1>5. ASSUME NEW op, op # "emit" PROVE Does(v, op) <=> Does(s, op)
  <2>1. Does(v, op) => Does(s, op)
    BY <1>3, <1>5 DEF Does
  <2>2. ASSUME NEW i \in DOMAIN s PROVE i + 1 \in DOMAIN v /\ v[i + 1] = s[i]
    BY <1>2, <2>2
  <2>3. Does(s, op) => Does(v, op)
    BY <2>2 DEF Does
  <2>4. QED
    BY <2>1, <2>3
<1>6. \A x : Within(x, v) <=> x = y \/ Within(x, s)
  BY <1>0, <1>1, WithinCons DEF Before
<1>7. SameMoves(v, s)
  BY <1>3, <1>4, <1>5 DEF SameMoves, Moving
<1>8. QED
  BY <1>0, <1>2, <1>6, <1>7

-----------------------------------------------------------------------------
(* A handler's steps keep what is said of it.                              *)

\* Steps that move nothing come and go.
LEMMA SameRuns ==
  ASSUME NEW t, NEW d, Runs(t, d), NEW u, NEW v, SameMoves(u.todo, t.todo),
         u.selected = t.selected, u.by = t.by, u.outputs = t.outputs,
         v.framebuffer = d.framebuffer, v.displays = d.displays, v.by = d.by
  PROVE  Runs(u, v)
<1>1. PICK o \in Outputs : Moves(t, d, o)
  BY DEF Runs
<1>2. Moves(u, v, o)
  <2>1. ASSUME NEW i \in DOMAIN u.todo, u.todo[i].op \in Moving
        PROVE  /\ u.todo[i].to = o /\ o \in u.outputs /\ o # v.displays.active
               /\ Does(u.todo, "select") \/ o = u.selected
               /\ u.todo[i].op = "select" =>
                    u.todo[i].by = "client" \/ o = Wanted \/ Wanted \notin u.outputs
    <3>1. PICK j \in DOMAIN t.todo : u.todo[i] = t.todo[j]
      BY <2>1 DEF SameMoves
    <3>2. Does(u.todo, "select") <=> Does(t.todo, "select")
      BY DEF SameMoves, Moving
    <3>3. QED
      BY <1>1, <2>1, <3>1, <3>2 DEF Moves, Moving
  <2>2. QED
    BY <2>1 DEF Moves, Moving
<1>3. /\ Does(u.todo, "select") <=> Does(t.todo, "select")
      /\ Does(u.todo, "framebuffer") <=> Does(t.todo, "framebuffer")
      /\ Does(u.todo, "outputs") <=> Does(t.todo, "outputs")
  BY DEF SameMoves, Moving
<1>4. Ordered(u.todo)
  BY DEF SameMoves
<1>5. QED
  BY <1>2, <1>3, <1>4 DEF Runs

LEMMA SilentRuns ==
  ASSUME NEW t, t.todo \in Seq(Step), t.todo # <<>>, NEW d, Runs(t, d),
         Head(t.todo).op \in {"emit", "geometry", "cursor"},
         NEW u, u.todo = Tail(t.todo),
         u.selected = t.selected, u.by = t.by, u.outputs = t.outputs,
         NEW v, v.framebuffer = d.framebuffer, v.displays = d.displays, v.by = d.by
  PROVE  Runs(u, v)
<1>1. Ordered(t.todo)
  BY DEF Runs
<1>2. /\ Ordered(u.todo)
      /\ \A op : Does(t.todo, op) <=> Head(t.todo).op = op \/ Does(u.todo, op)
      /\ \A i \in DOMAIN u.todo : \E j \in DOMAIN t.todo : u.todo[i] = t.todo[j]
  BY <1>1, Rest
<1>3. SameMoves(u.todo, t.todo)
  BY <1>2 DEF SameMoves, Moving
<1>4. QED
  BY <1>3, SameRuns

LEMMA AnnouncedRuns ==
  ASSUME NEW t, t.todo \in Seq(Step), NEW d, Runs(t, d),
         NEW e \in Change, NEW u, u.todo = Before(Emit(e), t.todo),
         u.selected = t.selected, u.by = t.by, u.outputs = t.outputs
  PROVE  u.todo \in Seq(Step) /\ Runs(u, d)
<1>1. Ordered(t.todo)
  BY DEF Runs
<1>2. PICK v : v = Before(Emit(e), t.todo)
  OBVIOUS
<1>3. v \in Seq(Step) /\ SameMoves(v, t.todo)
  BY <1>1, <1>2, Announce
<1>4. u.todo = v
  BY <1>2
<1>5. u.todo \in Seq(Step) /\ SameMoves(u.todo, t.todo)
  BY <1>3, <1>4
<1>6. QED
  BY <1>5, SameRuns

LEMMA SelectRuns ==
  ASSUME NEW t, t.todo \in Seq(Step), t.todo # <<>>, NEW d, Runs(t, d),
         Head(t.todo).op = "select",
         NEW u, u.todo = Tail(t.todo), u.outputs = t.outputs,
         u.selected = Head(t.todo).to, u.by = Head(t.todo).by
  PROVE  Runs(u, d) /\ u.selected \in Outputs
<1>1. Ordered(t.todo)
  BY DEF Runs
<1>2. /\ Ordered(u.todo)
      /\ \A op : Does(t.todo, op) <=> Head(t.todo).op = op \/ Does(u.todo, op)
      /\ \A i \in DOMAIN u.todo : \E j \in DOMAIN t.todo : u.todo[i] = t.todo[j]
      /\ \E j \in DOMAIN t.todo : Head(t.todo) = t.todo[j]
  BY <1>1, Rest
<1>3. PICK o \in Outputs : Moves(t, d, o)
  BY DEF Runs
<1>4. /\ u.selected = o /\ o \in t.outputs /\ o # d.displays.active
      /\ u.by = "client" \/ o = Wanted \/ Wanted \notin t.outputs
  BY <1>2, <1>3 DEF Moves
<1>5. Moves(u, d, o)
  <2>1. ASSUME NEW i \in DOMAIN u.todo
        PROVE  /\ u.todo[i].op \in {"select", "framebuffer"} => u.todo[i].to = o
               /\ u.todo[i].op = "select" =>
                    u.todo[i].by = "client" \/ o = Wanted \/ Wanted \notin u.outputs
    <3>1. PICK j \in DOMAIN t.todo : u.todo[i] = t.todo[j]
      BY <1>2
    <3>2. QED
      BY <1>3, <3>1 DEF Moves
  <2>2. QED
    BY <1>4, <2>1 DEF Moves
<1>6. Does(u.todo, "framebuffer") /\ Does(u.todo, "outputs")
  <2>1. Does(t.todo, "select")
    BY <1>2
  <2>2. Does(t.todo, "framebuffer") /\ Does(t.todo, "outputs")
    BY <2>1 DEF Runs
  <2>3. QED
    BY <1>2, <2>2
<1>7. QED
  BY <1>2, <1>4, <1>5, <1>6 DEF Runs

LEMMA FramebufferRuns ==
  ASSUME NEW t, t.todo \in Seq(Step), t.todo # <<>>, NEW d, Runs(t, d),
         Head(t.todo).op = "framebuffer",
         NEW u, u.todo = Tail(t.todo),
         u.selected = t.selected, u.by = t.by, u.outputs = t.outputs,
         NEW v, v.framebuffer = Head(t.todo).to, v.displays = d.displays, v.by = d.by
  PROVE  Runs(u, v) /\ v.framebuffer = t.selected /\ t.selected \in Outputs
<1>1. Ordered(t.todo)
  BY DEF Runs
<1>2. /\ Ordered(u.todo)
      /\ \A op : Does(t.todo, op) <=> Head(t.todo).op = op \/ Does(u.todo, op)
      /\ \A i \in DOMAIN u.todo : \E j \in DOMAIN t.todo : u.todo[i] = t.todo[j]
      /\ \E j \in DOMAIN t.todo : Head(t.todo) = t.todo[j]
      /\ ~Does(u.todo, "select")
  BY <1>1, Rest
<1>3. PICK o \in Outputs : Moves(t, d, o)
  BY DEF Runs
<1>4. ~Does(t.todo, "select") /\ Does(t.todo, "framebuffer") /\ Does(t.todo, "outputs")
  <2>1. ~Does(t.todo, "select") /\ Does(t.todo, "framebuffer")
    BY <1>2
  <2>2. QED
    BY <2>1 DEF Runs
<1>5. v.framebuffer = o /\ t.selected = o /\ o # d.displays.active
  BY <1>2, <1>3, <1>4 DEF Moves
<1>6. Moves(u, v, o)
  <2>1. ASSUME NEW i \in DOMAIN u.todo, u.todo[i].op \in {"select", "framebuffer"}
        PROVE  /\ u.todo[i].to = o /\ o \in t.outputs
               /\ u.todo[i].op = "select" =>
                    u.todo[i].by = "client" \/ o = Wanted \/ Wanted \notin u.outputs
    <3>1. PICK j \in DOMAIN t.todo : u.todo[i] = t.todo[j]
      BY <1>2
    <3>2. QED
      BY <1>3, <2>1, <3>1 DEF Moves
  <2>2. QED
    BY <1>5, <2>1 DEF Moves
<1>7. Does(u.todo, "outputs")
  BY <1>2, <1>4
<1>8. QED
  BY <1>2, <1>4, <1>5, <1>6, <1>7 DEF Runs

LEMMA OutputsRuns ==
  ASSUME NEW t, t.todo \in Seq(Step), t.todo # <<>>, NEW d, Runs(t, d),
         Head(t.todo).op = "outputs",
         NEW u, u.todo = Tail(t.todo),
         u.selected = t.selected, u.by = t.by, u.outputs = t.outputs,
         NEW v, v.framebuffer = d.framebuffer, v.by = t.by,
         v.displays.active = t.selected, Listed(v.displays) = t.outputs
  PROVE  Runs(u, v)
<1>1. Ordered(t.todo)
  BY DEF Runs
<1>2. /\ Ordered(u.todo)
      /\ \A op : Does(t.todo, op) <=> Head(t.todo).op = op \/ Does(u.todo, op)
      /\ ~Does(u.todo, "select") /\ ~Does(u.todo, "framebuffer")
  BY <1>1, Rest
<1>3. ~Does(t.todo, "select") /\ ~Does(t.todo, "framebuffer")
  BY <1>2
<1>4. Moves(u, v, Wanted)
  BY <1>2 DEF Moves, Does
<1>5. t.selected # NoOutput => d.framebuffer = t.selected
  BY <1>3 DEF Runs
<1>6. t.selected # Wanted /\ Wanted \in t.outputs => t.by = "client"
  BY <1>3 DEF Runs
<1>7. t.selected \in t.outputs \cup {NoOutput}
  BY DEF Runs
<1>8. Wanted \in Outputs
  BY SessionsAssumption
<1>9. QED
  BY <1>2, <1>4, <1>5, <1>6, <1>7, <1>8 DEF Runs

-----------------------------------------------------------------------------
(* A handler begins.                                                       *)

LEMMA IdleRuns ==
  ASSUME NEW t, t.todo = <<>>, NEW d, Runs(t, d)
  PROVE  /\ d.displays.active = t.selected
         /\ t.selected # NoOutput => d.framebuffer = t.selected
         /\ t.selected # Wanted /\ Wanted \in t.outputs => t.by = "client"
         /\ d.displays.active # Wanted /\ Wanted \in Listed(d.displays) => d.by = "client"
         /\ t.selected \in t.outputs \cup {NoOutput}
<1>1. ~Does(t.todo, "select") /\ ~Does(t.todo, "framebuffer") /\ ~Does(t.todo, "outputs")
  BY DEF Does
<1>2. QED
  BY <1>1 DEF Runs

\* One that moves nothing, but that the desktop's output may have gone.
LEMMA PlainRuns ==
  ASSUME NEW t, t.todo = <<>>, NEW d, Runs(t, d), NEW u, u.todo \in Seq(Step),
         ~Does(u.todo, "select"), ~Does(u.todo, "framebuffer"), u.by = t.by,
         u.selected = t.selected \/ (u.selected = NoOutput /\ Does(u.todo, "outputs")),
         u.selected \in u.outputs \cup {NoOutput},
         u.selected # Wanted /\ Wanted \in u.outputs => t.by = "client",
         NEW v, v.framebuffer = d.framebuffer, v.displays = d.displays, v.by = d.by
  PROVE  Runs(u, v)
<1>1. /\ d.displays.active = t.selected
      /\ t.selected # NoOutput => d.framebuffer = t.selected
      /\ d.displays.active # Wanted /\ Wanted \in Listed(d.displays) => d.by = "client"
  BY IdleRuns
<1>2. DOMAIN u.todo = 1 .. Len(u.todo)
  OBVIOUS
<1>3. \A i \in 1 .. Len(u.todo) : u.todo[i].op # "select" /\ u.todo[i].op # "framebuffer"
  BY <1>2 DEF Does
<1>4. Ordered(u.todo)
  BY <1>3 DEF Ordered
<1>5. Moves(u, v, Wanted)
  BY <1>2, <1>3 DEF Moves
<1>6. Wanted \in Outputs
  BY SessionsAssumption
<1>7. QED
  BY <1>1, <1>4, <1>5, <1>6 DEF Runs

\* share_output's steps, and the list after them.
Shares(q, o, by) ==
  /\ Len(q) \in 5 .. 6
  /\ q[1].op = "cursor" /\ q[2] = Select(o, by) /\ q[3] = Resize(o)
  /\ q[4].op = "geometry" /\ q[5].op = "outputs"
  /\ Len(q) = 6 => q[6].op = "outputs"

LEMMA SharesRuns ==
  ASSUME NEW t, t.todo = <<>>, NEW d, Runs(t, d), NEW u, u.todo \in Seq(Step),
         NEW o \in Outputs, NEW by, Shares(u.todo, o, by), u.by = t.by,
         o \in u.outputs, o # t.selected, u.selected \in {t.selected, NoOutput},
         u.selected \in u.outputs \cup {NoOutput},
         by = "client" \/ o = Wanted \/ Wanted \notin u.outputs,
         NEW v, v.framebuffer = d.framebuffer, v.displays = d.displays, v.by = d.by
  PROVE  Runs(u, v)
<1>1. /\ d.displays.active = t.selected
      /\ t.selected # NoOutput => d.framebuffer = t.selected
      /\ d.displays.active # Wanted /\ Wanted \in Listed(d.displays) => d.by = "client"
  BY IdleRuns
<1>2. PICK q, n : q = u.todo /\ n = Len(q)
  OBVIOUS
<1>3. /\ n \in 5 .. 6 /\ DOMAIN q = 1 .. n
      /\ q[1].op = "cursor" /\ q[2].op = "select" /\ q[2].to = o /\ q[2].by = by
      /\ q[3].op = "framebuffer" /\ q[3].to = o
      /\ \A i \in 4 .. n : q[i].op = "geometry" \/ q[i].op = "outputs"
      /\ q[4].op = "geometry" /\ q[5].op = "outputs"
  <2>1. /\ q \in Seq(Step) /\ Shares(q, o, by) /\ n = Len(q)
    BY <1>2
  <2>2. /\ n \in 5 .. 6 /\ q[1].op = "cursor" /\ q[2] = Select(o, by) /\ q[3] = Resize(o)
        /\ q[4].op = "geometry" /\ q[5].op = "outputs" /\ (n = 6 => q[6].op = "outputs")
    BY <2>1 DEF Shares
  <2>3. DOMAIN q = 1 .. n
    BY <2>1
  <2>4. /\ q[2].op = "select" /\ q[2].to = o /\ q[2].by = by
        /\ q[3].op = "framebuffer" /\ q[3].to = o
    BY <2>2 DEF Select, Resize
  <2>5. ASSUME NEW i \in 4 .. n PROVE q[i].op = "geometry" \/ q[i].op = "outputs"
    <3>1. i = 4 \/ i = 5 \/ (i = 6 /\ n = 6)
      BY <2>2, <2>5
    <3>2. QED
      BY <2>2, <3>1
  <2>6. QED
    BY <2>2, <2>3, <2>4, <2>5
<1>4. \A i \in 1 .. n : i = 1 \/ i = 2 \/ i = 3 \/ i \in 4 .. n
  BY <1>3
<1>5. /\ Does(q, "select") /\ Does(q, "framebuffer") /\ Does(q, "outputs")
  <2>1. 2 \in 1 .. n /\ 3 \in 1 .. n /\ 5 \in 1 .. n
    BY <1>3
  <2>2. QED
    BY <1>3, <2>1 DEF Does
<1>6. Ordered(q)
  <2>1. ASSUME NEW i \in 1 .. n, NEW j \in 1 .. n, i < j
        PROVE  /\ q[i].op = "framebuffer" => q[j].op # "select"
               /\ q[i].op = "outputs" => q[j].op \notin {"select", "framebuffer"}
    <3>1. i >= 3 => j \in 4 .. n
      BY <1>3, <2>1
    <3>2. i < 3 => i = 1 \/ i = 2
      BY <2>1
    <3>3. QED
      BY <1>3, <3>1, <3>2
  <2>2. QED
    BY <1>2, <2>1 DEF Ordered
<1>7. Moves(u, v, o)
  <2>1. ASSUME NEW i \in DOMAIN q
        PROVE  /\ q[i].op \in {"select", "framebuffer"} => q[i].to = o
               /\ q[i].op = "select" => q[i].by = by
    BY <1>3, <1>4, <2>1
  <2>2. QED
    BY <1>1, <1>2, <1>5, <2>1 DEF Moves
<1>8. QED
  BY <1>1, <1>2, <1>5, <1>6, <1>7 DEF Runs

LEMMA StepsAre ==
  ASSUME NEW o \in Outputs, NEW by \in Chooser
  PROVE  /\ SetCursor(NoImage) \in Step /\ Select(o, by) \in Step /\ Resize(o) \in Step
         /\ GeometryChanged \in Step /\ AnswerOutputs \in Step /\ OutputsChanged \in Step
BY DEF SetCursor, Select, Resize, GeometryChanged, AnswerOutputs, OutputsChanged, Step, Image

LEMMA ThenOf ==
  ASSUME NEW S, NEW s \in Seq(S), NEW g \in S
  PROVE  /\ s \o <<g>> \in Seq(S) /\ Len(s \o <<g>>) = Len(s) + 1
         /\ (s \o <<g>>)[Len(s) + 1] = g
         /\ \A i \in 1 .. Len(s) : (s \o <<g>>)[i] = s[i]
<1>1. Len(s) \in Nat /\ <<g>> \in Seq(S) /\ Len(<<g>>) = 1 /\ <<g>>[1] = g
  OBVIOUS
<1>2. s \o <<g>> \in Seq(S) /\ Len(s \o <<g>>) = Len(s) + 1
  BY <1>1
<1>3. (s \o <<g>>)[Len(s) + 1] = g
  BY <1>1
<1>4. ASSUME NEW i \in 1 .. Len(s) PROVE (s \o <<g>>)[i] = s[i]
  BY <1>1, <1>4
<1>5. QED
  BY <1>2, <1>3, <1>4

LEMMA ShareIs ==
  ASSUME NEW o \in Outputs, NEW by \in Chooser
  PROVE  /\ ShareOutput(o, by) \in Seq(Step) /\ Shares(ShareOutput(o, by), o, by)
         /\ ShareOutput(o, by) \o <<OutputsChanged>> \in Seq(Step)
         /\ Shares(ShareOutput(o, by) \o <<OutputsChanged>>, o, by)
<1>1. PICK a, b, c, e, f, g :
        /\ a = SetCursor(NoImage) /\ b = Select(o, by) /\ c = Resize(o)
        /\ e = GeometryChanged /\ f = AnswerOutputs /\ g = OutputsChanged
  OBVIOUS
<1>2. /\ a \in Step /\ b \in Step /\ c \in Step /\ e \in Step /\ f \in Step /\ g \in Step
      /\ a.op = "cursor" /\ e.op = "geometry" /\ f.op = "outputs" /\ g.op = "outputs"
  BY <1>1, StepsAre DEF SetCursor, GeometryChanged, AnswerOutputs, OutputsChanged
<1>3. PICK p, q : p = <<a, b, c, e, f>> /\ q = p \o <<g>>
  OBVIOUS
<1>4. ShareOutput(o, by) = p
  BY <1>1, <1>3 DEF ShareOutput
<1>5. /\ p \in Seq(Step) /\ Len(p) = 5
      /\ p[1] = a /\ p[2] = b /\ p[3] = c /\ p[4] = e /\ p[5] = f
  BY <1>2, <1>3
<1>6. /\ q \in Seq(Step) /\ Len(q) = 6 /\ q[6] = g
      /\ q[1] = a /\ q[2] = b /\ q[3] = c /\ q[4] = e /\ q[5] = f
  <2>1. /\ q \in Seq(Step) /\ Len(q) = Len(p) + 1 /\ q[Len(p) + 1] = g
        /\ \A i \in 1 .. Len(p) : q[i] = p[i]
    BY <1>2, <1>3, <1>5, ThenOf
  <2>2. QED
    BY <1>5, <2>1
<1>7. Shares(p, o, by) /\ Shares(q, o, by)
  BY <1>1, <1>2, <1>5, <1>6 DEF Shares
<1>8. QED
  BY <1>1, <1>3, <1>4, <1>5, <1>6, <1>7

LEMMA AdoptIs ==
  ASSUME NEW S \in SUBSET Outputs
  PROVE  /\ S = {} => AdoptOutput(S) = <<SetCursor(NoImage), AnswerOutputs>>
         /\ S # {} => \E o \in S : /\ Wanted \in S => o = Wanted
                                   /\ AdoptOutput(S) = ShareOutput(o, "adopted")
<1>1. CASE S = {}
  BY <1>1 DEF AdoptOutput
<1>2. CASE S # {}
  <2>1. PICK o : o = IF Wanted \in S THEN Wanted ELSE CHOOSE x \in S : TRUE
    OBVIOUS
  <2>2. o \in S
    BY <1>2, <2>1
  <2>3. AdoptOutput(S) = ShareOutput(o, "adopted")
    BY <1>2, <2>1 DEF AdoptOutput
  <2>4. QED
    BY <1>2, <2>1, <2>2, <2>3
<1>3. QED
  BY <1>1, <1>2

-----------------------------------------------------------------------------
(* What is told, and what the thread shares.                               *)

\* Nothing due is forgotten, but what is lost; what changes is due.
LEMMA ToldKept ==
  ASSUME NEW t, NEW d, NEW s, NEW u, NEW c, Told(t, d, s, u, c),
         NEW T, NEW D, NEW S, NEW U,
         S.phase = s.phase, S.lists = s.lists, S.announce_cursor = s.announce_cursor,
         u.lost => U.lost, u.lagged => U.lagged,
         s.phase = "up" =>
           \A e \in Change : Due(t, u, e) => Due(T, U, e) \/ (U.lost /\ U.lagged),
         D.geometry = d.geometry \/ Due(T, U, "geometry"),
         D.displays = d.displays \/ Due(T, U, "outputs"),
         D.cursor = d.cursor \/ Due(T, U, "cursor")
  PROVE  Told(T, D, S, U, c)
<1>1. /\ "geometry" \in Change /\ "outputs" \in Change /\ "cursor" \in Change
  BY DEF Change
<1>2. S.phase \notin {"up", "over"} => ~S.lists.cursor
  BY DEF Told
<1>3. ASSUME S.phase = "up", S.lists.cursor
      PROVE  /\ ~Due(T, U, "geometry") /\ ~U.lost /\ S.lists.density => c.geometry = D.geometry
             /\ ~Due(T, U, "outputs") /\ ~U.lost /\ S.lists.outputs => c.displays = D.displays
             /\ ~Due(T, U, "cursor") /\ ~U.lagged => S.announce_cursor \/ c.cursor = D.cursor
  <2>1. /\ ~Due(t, u, "geometry") /\ ~u.lost /\ s.lists.density => c.geometry = d.geometry
        /\ ~Due(t, u, "outputs") /\ ~u.lost /\ s.lists.outputs => c.displays = d.displays
        /\ ~Due(t, u, "cursor") /\ ~u.lagged => s.announce_cursor \/ c.cursor = d.cursor
    BY <1>3 DEF Told
  <2>2. /\ Due(t, u, "geometry") => Due(T, U, "geometry") \/ (U.lost /\ U.lagged)
        /\ Due(t, u, "outputs") => Due(T, U, "outputs") \/ (U.lost /\ U.lagged)
        /\ Due(t, u, "cursor") => Due(T, U, "cursor") \/ (U.lost /\ U.lagged)
    BY <1>1, <1>3
  <2>3. QED
    BY <2>1, <2>2
<1>4. QED
  BY <1>2, <1>3 DEF Told

\* A session that is not up is told nothing.
LEMMA ToldLater ==
  ASSUME NEW t, NEW d, NEW s, NEW u, NEW c, Told(t, d, s, u, c),
         NEW T, NEW D, NEW S, NEW U, NEW C,
         \/ S.phase = "over"
         \/ s.phase \notin {"up", "over"} /\ S.lists = s.lists
  PROVE  Told(T, D, S, U, C)
BY DEF Told

LEMMA GeometryIs ==
  ASSUME NEW t \in ThreadType, NEW g \in Drawn
  PROVE  Geometry(t, g) \in Drawn
<1>1. t.selected \in Outputs \cup {NoOutput} /\ t.scale \in [Outputs -> Densities]
  BY DEF ThreadType
<1>2. t.selected # NoOutput => t.scale[t.selected] \in Densities
  BY <1>1
<1>3. QED
  BY <1>1, <1>2 DEF Geometry, Drawn

LEMMA DisplaysIs ==
  ASSUME NEW t \in ThreadType
  PROVE  /\ Displays(t) \in Lists /\ Displays(t).active = t.selected
         /\ Listed(Displays(t)) = t.outputs
<1>1. /\ t.selected \in Outputs \cup {NoOutput} /\ t.scale \in [Outputs -> Densities]
      /\ t.outputs \in SUBSET Outputs
  BY DEF ThreadType
<1>2. PICK f : f = [o \in t.outputs |-> t.scale[o]]
  OBVIOUS
<1>3. f \in [t.outputs -> Densities] /\ DOMAIN f = t.outputs
  BY <1>1, <1>2
<1>4. f \in UNION {[S -> Densities] : S \in SUBSET Outputs}
  BY <1>1, <1>3
<1>5. Displays(t) = [active |-> t.selected, entries |-> f]
  BY <1>2 DEF Displays
<1>6. QED
  BY <1>1, <1>3, <1>4, <1>5 DEF Lists, Listed

\* An event, read by nobody, or among the session's unless it lost some.
LEMMA BroadcastIs ==
  ASSUME SessionsTypeOK, NEW e \in Change, Broadcast(e)
  PROVE  /\ unread' \in [queue : Seq(Change), lagged : BOOLEAN, lost : BOOLEAN]
         /\ session' \in SessionType
         /\ session'.phase = session.phase /\ session'.lists = session.lists
         /\ session'.announce_cursor = session.announce_cursor
         /\ session'.found = session.found /\ session'.by = session.by
         /\ session'.left = session.left /\ session'.size = session.size
         /\ unread.lost => unread'.lost
         /\ unread.lagged => unread'.lagged
         /\ session.phase = "up" => Within(e, unread'.queue)
         /\ \A x : Within(x, unread.queue) =>
                     Within(x, unread'.queue) \/ (unread'.lost /\ unread'.lagged)
<1>1. /\ session \in SessionType /\ unread.queue \in Seq(Change)
      /\ unread \in [queue : Seq(Change), lagged : BOOLEAN, lost : BOOLEAN]
  BY DEF SessionsTypeOK
<1>2. CASE ~Subscribed
  <2>1. unread' = unread /\ session' = session /\ session.phase # "up"
    BY <1>2 DEF Broadcast, Subscribed, HandshakeSteps
  <2>2. QED
    BY <1>1, <2>1
<1>3. CASE Subscribed
  <2>1. PICK all : all = Append(unread.queue, e)
    OBVIOUS
  <2>2. /\ all \in Seq(Change) /\ all # <<>>
        /\ \A x : Within(x, all) <=> x = e \/ Within(x, unread.queue)
    BY <1>1, <2>1, AppendOf, WithinAppend
  <2>3. /\ unread' = IF Len(all) <= CAPACITY THEN [unread EXCEPT !.queue = all]
                     ELSE [queue |-> Tail(all), lagged |-> TRUE, lost |-> TRUE]
        /\ session' = IF session.phase = "waiting"
                      THEN [session EXCEPT !.arrivals = Lesser(@ + 1, CAPACITY)] ELSE session
    BY <1>3, <2>1 DEF Broadcast
  <2>4. /\ session' \in SessionType
        /\ session'.phase = session.phase /\ session'.lists = session.lists
        /\ session'.announce_cursor = session.announce_cursor
        /\ session'.found = session.found /\ session'.by = session.by
        /\ session'.left = session.left /\ session'.size = session.size
    <3>1. Lesser(session.arrivals + 1, CAPACITY) \in Nat
      BY <1>1, SessionsAssumption DEF SessionType, Lesser
    <3>2. QED
      BY <1>1, <2>3, <3>1 DEF SessionType
  <2>5. CASE Len(all) <= CAPACITY
    <3>1. /\ unread' \in [queue : Seq(Change), lagged : BOOLEAN, lost : BOOLEAN]
          /\ unread'.queue = all /\ unread'.lost = unread.lost /\ unread'.lagged = unread.lagged
      BY <1>1, <2>2, <2>3, <2>5
    <3>2. QED
      BY <2>2, <2>4, <3>1
  <2>6. CASE ~(Len(all) <= CAPACITY)
    <3>1. PICK n : n = Len(unread.queue)
      OBVIOUS
    <3>2. n \in Nat /\ Len(all) = n + 1 /\ all[n + 1] = e /\ n \in 1 .. n
      BY <1>1, <2>1, <2>6, <3>1, AppendOf, SessionsAssumption
    <3>3. /\ Tail(all) \in Seq(Change) /\ DOMAIN Tail(all) = 1 .. n
          /\ \A i \in 1 .. n : Tail(all)[i] = all[i + 1]
      BY <2>2, <3>2, TailOf
    <3>4. Within(e, Tail(all))
      BY <3>2, <3>3 DEF Within
    <3>5. /\ unread' \in [queue : Seq(Change), lagged : BOOLEAN, lost : BOOLEAN]
          /\ unread'.queue = Tail(all) /\ unread'.lost /\ unread'.lagged
      BY <2>3, <2>6, <3>3
    <3>6. QED
      BY <2>4, <3>4, <3>5
  <2>7. QED
    BY <2>5, <2>6
<1>4. QED
  BY <1>2, <1>3

-----------------------------------------------------------------------------
(* The thread's steps.                                                     *)

LEMMA TodoIs ==
  ASSUME SessionsInv, thread.todo # <<>>
  PROVE  /\ thread.todo \in Seq(Step) /\ Ordered(thread.todo)
         /\ Head(thread.todo) \in Step /\ Tail(thread.todo) \in Seq(Step)
         /\ \A x : Within(x, thread.todo) <=> x = Head(thread.todo) \/ Within(x, Tail(thread.todo))
<1>1. thread.todo \in Seq(Step) /\ Ordered(thread.todo)
  BY DEF SessionsInv, SessionsTypeOK, ThreadType, Runs
<1>2. Head(thread.todo) \in Step /\ Tail(thread.todo) \in Seq(Step)
  BY <1>1, Rest
<1>3. \A x : Within(x, thread.todo) <=> x = Head(thread.todo) \/ Within(x, Tail(thread.todo))
  BY <1>1, WithinTail
<1>4. QED
  BY <1>1, <1>2, <1>3

\* What is left to do, with what is selected.
LEMMA WithTodo ==
  ASSUME NEW t \in ThreadType, NEW q \in Seq(Step), NEW u, u = [t EXCEPT !.todo = q]
  PROVE  /\ u \in ThreadType /\ u.todo = q /\ u.outputs = t.outputs
         /\ u.selected = t.selected /\ u.by = t.by /\ u.scale = t.scale
BY DEF ThreadType

LEMMA RefreshedInv ==
  ASSUME SessionsInv, thread.todo # <<>>, Head(thread.todo).op # "emit",
         UNCHANGED <<asked, clientHas, happenings>>,
         NEW D \in DeskType, NEW b \in BOOLEAN, NEW e \in Change, Refreshed(D, b, e),
         NEW u, u = [thread EXCEPT !.todo = Tail(thread.todo)], Runs(u, D), Found(u, D, session),
         D.geometry = desk.geometry \/ (b /\ e = "geometry"),
         D.displays = desk.displays \/ (b /\ e = "outputs"),
         D.cursor = desk.cursor \/ (b /\ e = "cursor")
  PROVE  SessionsInv'
<1>1. /\ thread \in ThreadType /\ session \in SessionType /\ clientHas \in ClientType
      /\ Told(thread, desk, session, unread, clientHas)
  BY DEF SessionsInv, SessionsTypeOK
<1>2. PICK r : r = Tail(thread.todo)
  OBVIOUS
<1>3. /\ r \in Seq(Step)
      /\ \A x : Within(x, thread.todo) <=> x = Head(thread.todo) \/ Within(x, r)
  BY <1>2, TodoIs
<1>4. /\ desk' = D /\ unread' = unread /\ session' = session
      /\ thread' = [thread EXCEPT !.todo = (IF b THEN <<Emit(e)>> ELSE <<>>) \o r]
  BY <1>1, <1>2 DEF Refreshed
<1>5. /\ u \in ThreadType /\ u.todo = r /\ u.outputs = thread.outputs
      /\ u.selected = thread.selected /\ u.by = thread.by
  BY <1>1, <1>2, <1>3 DEF ThreadType
<1>6. \A x \in Change : Emit(x) # Head(thread.todo)
  BY DEF Emit
<1>7. \A x \in Change : Due(thread, unread, x) <=> Due(u, unread, x)
  BY <1>3, <1>5, <1>6 DEF Due
<1>8. CASE b
  <2>1. PICK q : q = Before(Emit(e), r)
    OBVIOUS
  <2>2. thread' = [thread EXCEPT !.todo = q]
    BY <1>4, <1>8, <2>1 DEF Before
  <2>3. Ordered(r)
    BY <1>5 DEF Runs
  <2>4. q \in Seq(Step) /\ \A x : Within(x, q) <=> x = Emit(e) \/ Within(x, r)
    BY <1>3, <2>1, <2>3, Announce
  <2>5. /\ thread' \in ThreadType /\ thread'.todo = q /\ thread'.outputs = thread.outputs
        /\ thread'.selected = thread.selected /\ thread'.by = thread.by
    BY <1>1, <2>2, <2>4, WithTodo
  <2>6. Runs(thread', D)
    <3>1. thread'.todo = Before(Emit(e), u.todo)
      BY <1>5, <2>1, <2>5
    <3>2. u.todo \in Seq(Step)
      BY <1>3, <1>5
    <3>3. QED
      BY <1>5, <2>5, <3>1, <3>2, AnnouncedRuns
  <2>7. Due(thread', unread, e) /\ \A x \in Change : Due(u, unread, x) => Due(thread', unread, x)
    BY <1>5, <2>4, <2>5 DEF Due
  <2>8. Told(thread', D, session, unread, clientHas)
    BY <1>1, <1>7, <2>7, ToldKept
  <2>9. Found(thread', D, session)
    BY <1>5, <2>5 DEF Found
  <2>10. QED
    BY <1>4, <2>5, <2>6, <2>8, <2>9 DEF SessionsInv, SessionsTypeOK
<1>9. CASE ~b
  <2>1. thread' = u
    <3>1. <<>> \o r = r
      BY <1>3
    <3>2. QED
      BY <1>2, <1>4, <1>9, <3>1
  <2>2. Told(thread', D, session, unread, clientHas)
    BY <1>1, <1>7, <1>9, <2>1, ToldKept
  <2>3. QED
    BY <1>4, <1>5, <2>1, <2>2 DEF SessionsInv, SessionsTypeOK
<1>10. QED
  BY <1>8, <1>9

LEMMA EmitInv ==
  ASSUME SessionsInv, thread.todo # <<>>, NEW e \in Change, Head(thread.todo) = Emit(e),
         Broadcast(e), thread' = [thread EXCEPT !.todo = Tail(@)],
         UNCHANGED <<desk, asked, clientHas, happenings>>
  PROVE  SessionsInv'
<1>1. /\ thread \in ThreadType /\ SessionsTypeOK /\ Runs(thread, desk)
      /\ Told(thread, desk, session, unread, clientHas) /\ Found(thread, desk, session)
  BY DEF SessionsInv, SessionsTypeOK
<1>2. /\ thread.todo \in Seq(Step) /\ Tail(thread.todo) \in Seq(Step)
      /\ \A x : Within(x, thread.todo) <=> x = Head(thread.todo) \/ Within(x, Tail(thread.todo))
  BY TodoIs
<1>3. /\ thread' \in ThreadType /\ thread'.todo = Tail(thread.todo)
      /\ thread'.outputs = thread.outputs /\ thread'.selected = thread.selected
      /\ thread'.by = thread.by
  BY <1>1, <1>2 DEF ThreadType
<1>4. Runs(thread', desk)
  <2>1. Head(thread.todo).op \in {"emit", "geometry", "cursor"}
    BY DEF Emit
  <2>2. QED
    BY <1>1, <1>2, <1>3, <2>1, SilentRuns
<1>5. /\ unread' \in [queue : Seq(Change), lagged : BOOLEAN, lost : BOOLEAN]
      /\ session' \in SessionType
      /\ session'.phase = session.phase /\ session'.lists = session.lists
      /\ session'.announce_cursor = session.announce_cursor
      /\ session'.found = session.found /\ session'.by = session.by
      /\ session'.left = session.left /\ session'.size = session.size
      /\ unread.lost => unread'.lost
      /\ unread.lagged => unread'.lagged
      /\ session.phase = "up" => Within(e, unread'.queue)
      /\ \A x : Within(x, unread.queue) =>
                  Within(x, unread'.queue) \/ (unread'.lost /\ unread'.lagged)
  BY <1>1, BroadcastIs
<1>6. ASSUME session.phase = "up", NEW x \in Change, Due(thread, unread, x)
      PROVE  Due(thread', unread', x) \/ (unread'.lost /\ unread'.lagged)
  <2>1. CASE Within(Emit(x), thread.todo)
    <3>1. Emit(x) = Emit(e) \/ Within(Emit(x), thread'.todo)
      BY <1>2, <1>3, <2>1
    <3>2. Emit(x) = Emit(e) => x = e
      BY DEF Emit
    <3>3. QED
      BY <1>5, <1>6, <3>1, <3>2 DEF Due
  <2>2. CASE Within(x, unread.queue)
    BY <1>5, <2>2 DEF Due
  <2>3. QED
    BY <1>6, <2>1, <2>2 DEF Due
<1>7. Told(thread', desk, session', unread', clientHas)
  <2>1. session.phase = "up" =>
          \A x \in Change : Due(thread, unread, x) =>
            Due(thread', unread', x) \/ (unread'.lost /\ unread'.lagged)
    BY <1>6
  <2>2. QED
    BY ZenonT(60), <1>1, <1>5, <2>1, ToldKept
<1>8. Found(thread', desk, session')
  BY <1>1, <1>3, <1>5 DEF Found
<1>9. QED
  BY <1>1, <1>3, <1>4, <1>5, <1>7, <1>8 DEF SessionsInv, SessionsTypeOK

LEMMA SelectInv ==
  ASSUME SessionsInv, thread.todo # <<>>, NEW st, st = Head(thread.todo), st.op = "select",
         thread' = [thread EXCEPT !.selected = st.to, !.by = st.by, !.todo = Tail(@)],
         session' = [session EXCEPT !.left = @ \/ st.to # Wanted],
         UNCHANGED <<desk, asked, unread, clientHas, happenings>>
  PROVE  SessionsInv'
<1>1. /\ thread \in ThreadType /\ session \in SessionType /\ Runs(thread, desk)
      /\ Told(thread, desk, session, unread, clientHas) /\ Found(thread, desk, session)
  BY DEF SessionsInv, SessionsTypeOK
<1>2. /\ thread.todo \in Seq(Step) /\ Tail(thread.todo) \in Seq(Step) /\ st \in Step
      /\ \A x : Within(x, thread.todo) <=> x = st \/ Within(x, Tail(thread.todo))
  BY TodoIs
<1>3. st.to \in Outputs /\ st.by \in Chooser
  BY <1>2 DEF Step
<1>4. /\ thread' \in ThreadType /\ thread'.todo = Tail(thread.todo)
      /\ thread'.outputs = thread.outputs /\ thread'.selected = st.to
      /\ thread'.by = st.by
  BY <1>1, <1>2, <1>3 DEF ThreadType
<1>5. Runs(thread', desk)
  BY <1>1, <1>2, <1>4, SelectRuns
<1>6. /\ session' \in SessionType /\ session'.phase = session.phase
      /\ session'.lists = session.lists /\ session'.announce_cursor = session.announce_cursor
      /\ session'.found = session.found /\ session'.by = session.by
      /\ session'.size = session.size /\ session'.left = (session.left \/ st.to # Wanted)
  BY <1>1 DEF SessionType
<1>7. \A x \in Change : Due(thread, unread, x) => Due(thread', unread, x)
  <2>1. \A x : Emit(x) # st
    BY DEF Emit
  <2>2. QED
    BY <1>2, <1>4, <2>1 DEF Due
<1>8. Told(thread', desk, session', unread, clientHas)
  BY <1>1, <1>6, <1>7, ToldKept
<1>9. Found(thread', desk, session')
  BY <1>1, <1>4, <1>6 DEF Found
<1>10. QED
  BY <1>1, <1>4, <1>5, <1>6, <1>8, <1>9 DEF SessionsInv, SessionsTypeOK

LEMMA ProceedInv ==
  ASSUME SessionsInv, Proceed
  PROVE  SessionsInv'
<1>1. /\ thread \in ThreadType /\ desk \in DeskType /\ Runs(thread, desk)
      /\ Found(thread, desk, session)
  BY DEF SessionsInv, SessionsTypeOK
<1>2. PICK st : st = Head(thread.todo)
  OBVIOUS
<1>3. thread.todo # <<>> /\ UNCHANGED <<asked, clientHas, happenings>>
  BY DEF Proceed
<1>4. /\ thread.todo \in Seq(Step) /\ st \in Step /\ Tail(thread.todo) \in Seq(Step)
  BY <1>2, <1>3, TodoIs
<1>5. PICK u : u = [thread EXCEPT !.todo = Tail(thread.todo)]
  OBVIOUS
<1>6. /\ u \in ThreadType /\ u.todo = Tail(thread.todo) /\ u.outputs = thread.outputs
      /\ u.selected = thread.selected /\ u.by = thread.by
  BY <1>1, <1>4, <1>5 DEF ThreadType
<1>7. "geometry" \in Change /\ "outputs" \in Change /\ "cursor" \in Change
  BY DEF Change
<1>8. CASE st.op = "emit" /\ Broadcast(st.to)
           /\ thread' = [thread EXCEPT !.todo = Tail(@)] /\ UNCHANGED desk
  <2>1. st.to \in Change /\ st = Emit(st.to)
    BY <1>4, <1>8 DEF Step, Emit
  <2>2. QED
    BY <1>2, <1>3, <1>8, <2>1, EmitInv
<1>9. CASE /\ st.op = "select"
           /\ thread' = [thread EXCEPT !.selected = st.to, !.by = st.by, !.todo = Tail(@)]
           /\ session' = [session EXCEPT !.left = @ \/ st.to # Wanted]
           /\ UNCHANGED <<desk, unread>>
  BY <1>2, <1>3, <1>9, SelectInv
<1>10. CASE st.op = "framebuffer"
            /\ Refreshed([desk EXCEPT !.framebuffer = st.to], FALSE, "none")
  <2>1. PICK D : D = [desk EXCEPT !.framebuffer = st.to]
    OBVIOUS
  <2>2. st.to \in Outputs
    BY <1>4, <1>10 DEF Step
  <2>3. /\ D \in DeskType /\ D.framebuffer = st.to /\ D.displays = desk.displays
        /\ D.by = desk.by /\ D.geometry = desk.geometry /\ D.cursor = desk.cursor
    BY <1>1, <2>1, <2>2 DEF DeskType
  <2>4. /\ Runs(u, D) /\ D.framebuffer = thread.selected /\ thread.selected \in Outputs
    BY <1>1, <1>2, <1>3, <1>4, <1>6, <1>10, <2>3, FramebufferRuns
  <2>5. Found(u, D, session)
    BY <1>1, <1>6, <2>4, SessionsAssumption DEF Found
  <2>6. Refreshed(D, FALSE, "geometry")
    BY <1>10, <2>1 DEF Refreshed
  <2>7. QED
    BY <1>2, <1>3, <1>5, <1>7, <1>10, <2>3, <2>4, <2>5, <2>6, RefreshedInv
<1>11. CASE /\ st.op = "geometry"
            /\ LET now == Geometry(thread, desk.geometry)
               IN  Refreshed([desk EXCEPT !.geometry = now], now # desk.geometry, "geometry")
  <2>1. PICK now, D, b : /\ now = Geometry(thread, desk.geometry)
                         /\ D = [desk EXCEPT !.geometry = now]
                         /\ b = (now # desk.geometry)
    OBVIOUS
  <2>2. now \in Drawn
    BY <1>1, <2>1, GeometryIs DEF DeskType
  <2>3. /\ D \in DeskType /\ D.framebuffer = desk.framebuffer /\ D.displays = desk.displays
        /\ D.by = desk.by /\ D.geometry = now /\ D.cursor = desk.cursor
    BY <1>1, <2>1, <2>2 DEF DeskType
  <2>4. Runs(u, D)
    BY <1>1, <1>2, <1>3, <1>4, <1>6, <1>11, <2>3, SilentRuns
  <2>5. Found(u, D, session)
    BY <1>1, <1>6, <2>3 DEF Found
  <2>6. Refreshed(D, b, "geometry") /\ b \in BOOLEAN /\ (D.geometry = desk.geometry \/ b)
    BY <1>11, <2>1, <2>3
  <2>7. QED
    BY <1>2, <1>3, <1>5, <1>7, <1>11, <2>3, <2>4, <2>5, <2>6, RefreshedInv
<1>12. CASE /\ st.op = "outputs"
            /\ LET now == Displays(thread)
               IN  Refreshed([desk EXCEPT !.displays = now, !.by = thread.by],
                             st.answer \/ now # desk.displays, "outputs")
  <2>1. PICK now, D, b : /\ now = Displays(thread)
                         /\ D = [desk EXCEPT !.displays = now, !.by = thread.by]
                         /\ b = (st.answer \/ now # desk.displays)
    OBVIOUS
  <2>2. /\ now \in Lists /\ now.active = thread.selected /\ Listed(now) = thread.outputs
        /\ thread.by \in Chooser /\ st.answer \in BOOLEAN
    BY <1>1, <1>4, <1>12, <2>1, DisplaysIs DEF ThreadType, Step
  <2>3. /\ D \in DeskType /\ D.framebuffer = desk.framebuffer /\ D.displays = now
        /\ D.by = thread.by /\ D.geometry = desk.geometry /\ D.cursor = desk.cursor
    BY <1>1, <2>1, <2>2 DEF DeskType
  <2>4. Runs(u, D)
    BY <1>1, <1>2, <1>3, <1>4, <1>6, <1>12, <2>2, <2>3, OutputsRuns
  <2>5. Found(u, D, session)
    BY <1>1, <1>6, <2>3 DEF Found
  <2>6. Refreshed(D, b, "outputs") /\ b \in BOOLEAN /\ (D.displays = desk.displays \/ b)
    BY <1>12, <2>1, <2>2, <2>3
  <2>7. QED
    BY <1>2, <1>3, <1>5, <1>7, <1>12, <2>3, <2>4, <2>5, <2>6, RefreshedInv
<1>13. CASE /\ st.op = "cursor"
            /\ Refreshed([desk EXCEPT !.cursor = st.to], st.to # desk.cursor, "cursor")
  <2>1. PICK D, b : D = [desk EXCEPT !.cursor = st.to] /\ b = (st.to # desk.cursor)
    OBVIOUS
  <2>2. st.to \in Image
    BY <1>4, <1>13 DEF Step
  <2>3. /\ D \in DeskType /\ D.framebuffer = desk.framebuffer /\ D.displays = desk.displays
        /\ D.by = desk.by /\ D.geometry = desk.geometry /\ D.cursor = st.to
    BY <1>1, <2>1, <2>2 DEF DeskType
  <2>4. Runs(u, D)
    BY <1>1, <1>2, <1>3, <1>4, <1>6, <1>13, <2>3, SilentRuns
  <2>5. Found(u, D, session)
    BY <1>1, <1>6, <2>3 DEF Found
  <2>6. Refreshed(D, b, "cursor") /\ b \in BOOLEAN /\ (D.cursor = desk.cursor \/ b)
    BY <1>13, <2>1, <2>3
  <2>7. QED
    BY <1>2, <1>3, <1>5, <1>7, <1>13, <2>3, <2>4, <2>5, <2>6, RefreshedInv
<1>14. QED
  BY <1>2, <1>8, <1>9, <1>10, <1>11, <1>12, <1>13 DEF Proceed

-----------------------------------------------------------------------------
(* The thread's handlers, from when none runs.                             *)

LEMMA NothingDue ==
  ASSUME NEW t, t.todo = <<>>, NEW u, NEW e
  PROVE  Due(t, u, e) <=> Within(e, u.queue)
<1>1. ~Within(Emit(e), t.todo)
  BY DEF Within
<1>2. QED
  BY <1>1 DEF Due

\* One begins, and shares nothing yet.
LEMMA BeginsInv ==
  ASSUME SessionsInv, thread.todo = <<>>, thread' \in ThreadType, desk' \in DeskType,
         desk'.framebuffer = desk.framebuffer, desk'.displays = desk.displays,
         desk'.geometry = desk.geometry, desk'.cursor = desk.cursor,
         asked' \in Seq(CommandType), UNCHANGED <<session, unread, clientHas>>,
         happenings' \in Nat, Runs(thread', desk'),
         thread'.selected \in {thread.selected, NoOutput}
  PROVE  SessionsInv'
<1>1. /\ SessionsTypeOK /\ Told(thread, desk, session, unread, clientHas)
      /\ Found(thread, desk, session)
  BY DEF SessionsInv
<1>2. \A x \in Change : Due(thread, unread, x) => Due(thread', unread, x)
  BY NothingDue DEF Due
<1>3. Told(thread', desk', session, unread, clientHas)
  BY <1>1, <1>2, ToldKept
<1>4. Found(thread', desk', session)
  BY <1>1 DEF Found
<1>5. QED
  BY <1>1, <1>3, <1>4 DEF SessionsInv, SessionsTypeOK

LEMMA IdleIs ==
  ASSUME SessionsInv, Idle
  PROVE  /\ thread.todo = <<>> /\ happenings' \in Nat /\ thread \in ThreadType
         /\ desk \in DeskType /\ asked \in Seq(CommandType) /\ Runs(thread, desk)
         /\ thread.selected # Wanted /\ Wanted \in thread.outputs => thread.by = "client"
         /\ thread.selected \in thread.outputs \cup {NoOutput}
         /\ thread.outputs \subseteq Outputs
<1>1. /\ thread.todo = <<>> /\ happenings' = happenings + 1 /\ happenings \in Nat
      /\ thread \in ThreadType /\ desk \in DeskType /\ asked \in Seq(CommandType)
      /\ Runs(thread, desk)
  BY DEF Idle, SessionsInv, SessionsTypeOK
<1>2. thread.outputs \subseteq Outputs
  BY <1>1 DEF ThreadType
<1>3. QED
  BY <1>1, <1>2, IdleRuns

LEMMA BriefSteps ==
  /\ <<OutputsChanged>> \in Seq(Step) /\ Does(<<OutputsChanged>>, "outputs")
  /\ <<AnswerOutputs>> \in Seq(Step)
  /\ <<GeometryChanged, OutputsChanged>> \in Seq(Step)
  /\ <<SetCursor(NoImage), AnswerOutputs>> \in Seq(Step)
  /\ Does(<<SetCursor(NoImage), AnswerOutputs>>, "outputs")
  /\ \A op \in Moving : /\ ~Does(<<OutputsChanged>>, op) /\ ~Does(<<AnswerOutputs>>, op)
                        /\ ~Does(<<GeometryChanged, OutputsChanged>>, op)
                        /\ ~Does(<<SetCursor(NoImage), AnswerOutputs>>, op)
<1>1. PICK a, b, c, d : /\ a = OutputsChanged /\ b = AnswerOutputs /\ c = GeometryChanged
                        /\ d = SetCursor(NoImage)
  OBVIOUS
<1>2. a.op = "outputs" /\ b.op = "outputs" /\ c.op = "geometry" /\ d.op = "cursor"
  BY <1>1 DEF OutputsChanged, AnswerOutputs, GeometryChanged, SetCursor
<1>3. a \in Step /\ b \in Step /\ c \in Step /\ d \in Step
  <2>1. Wanted \in Outputs /\ "client" \in Chooser
    BY SessionsAssumption DEF Chooser
  <2>2. QED
    BY <1>1, <2>1, StepsAre
<1>4. /\ <<a>> \in Seq(Step) /\ <<b>> \in Seq(Step) /\ <<c, a>> \in Seq(Step)
      /\ <<d, b>> \in Seq(Step)
  BY <1>3
<1>5. ASSUME NEW x, NEW op PROVE Does(<<x>>, op) <=> x.op = op
  BY DEF Does
<1>6. ASSUME NEW x, NEW y, NEW op PROVE Does(<<x, y>>, op) <=> x.op = op \/ y.op = op
  <2>1. /\ DOMAIN <<x, y>> = 1 .. 2 /\ <<x, y>>[1] = x /\ <<x, y>>[2] = y
        /\ 1 \in 1 .. 2 /\ 2 \in 1 .. 2 /\ \A i \in 1 .. 2 : i = 1 \/ i = 2
    OBVIOUS
  <2>2. QED
    BY <2>1 DEF Does
<1>7. QED
  BY <1>1, <1>2, <1>4, <1>5, <1>6 DEF Moving

LEMMA AppearsInv ==
  ASSUME SessionsInv, Appears
  PROVE  SessionsInv'
<1>1. Idle /\ UNCHANGED <<desk, asked, session, unread, clientHas>>
  BY DEF Appears
<1>2. PICK o \in Outputs \ thread.outputs :
        thread' = [thread EXCEPT !.outputs = @ \cup {o}, !.todo = Appeared(o)]
  BY DEF Appears
<1>3. /\ thread.todo = <<>> /\ happenings' \in Nat /\ thread \in ThreadType
      /\ desk \in DeskType /\ asked \in Seq(CommandType) /\ Runs(thread, desk)
      /\ thread.selected # Wanted /\ Wanted \in thread.outputs => thread.by = "client"
      /\ thread.selected \in thread.outputs \cup {NoOutput}
      /\ thread.outputs \subseteq Outputs
  BY <1>1, IdleIs
<1>4. PICK S, q : S = thread.outputs \cup {o} /\ q = Appeared(o)
  OBVIOUS
<1>5. /\ S \in SUBSET Outputs /\ S # {}
  BY <1>3, <1>4
<1>6. ASSUME q \in Seq(Step)
      PROVE  /\ thread' \in ThreadType /\ thread'.todo = q /\ thread'.outputs = S
             /\ thread'.selected = thread.selected /\ thread'.by = thread.by
  BY <1>2, <1>3, <1>4, <1>5, <1>6 DEF ThreadType
<1>7. CASE thread.selected = NoOutput \/ o = Wanted
  <2>1. q = AdoptOutput(S) \o <<OutputsChanged>>
    BY <1>4, <1>7 DEF Appeared
  <2>2. PICK x \in S : /\ Wanted \in S => x = Wanted
                       /\ AdoptOutput(S) = ShareOutput(x, "adopted")
    BY <1>5, AdoptIs
  <2>3. x \in Outputs /\ "adopted" \in Chooser
    BY <1>5 DEF Chooser
  <2>4. q \in Seq(Step) /\ Shares(q, x, "adopted")
    BY <2>1, <2>2, <2>3, ShareIs
  <2>5. x # thread.selected
    BY <1>2, <1>3, <1>4, <1>7, <2>2, <2>3, SessionsAssumption
  <2>6. Runs(thread', desk')
    <3>1. PICK t : t = thread'
      OBVIOUS
    <3>2. /\ t.todo \in Seq(Step) /\ Shares(t.todo, x, "adopted") /\ t.by = thread.by
          /\ x \in t.outputs /\ t.selected \in {thread.selected, NoOutput}
          /\ t.selected \in t.outputs \cup {NoOutput} /\ (x = Wanted \/ Wanted \notin t.outputs)
      BY <1>3, <1>4, <1>6, <2>2, <2>4, <3>1
    <3>3. Runs(t, desk)
      BY <1>3, <2>3, <2>5, <3>2, SharesRuns
    <3>4. QED
      BY <1>1, <3>1, <3>3
  <2>7. QED
    BY <1>1, <1>3, <1>6, <2>4, <2>6, BeginsInv
<1>8. CASE ~(thread.selected = NoOutput \/ o = Wanted)
  <2>1. q = <<>> \o <<OutputsChanged>>
    BY <1>4, <1>8 DEF Appeared
  <2>2. q = <<OutputsChanged>>
    BY <2>1, BriefSteps
  <2>3. q \in Seq(Step) /\ ~Does(q, "select") /\ ~Does(q, "framebuffer")
    BY <2>2, BriefSteps DEF Moving
  <2>4. Runs(thread', desk')
    BY <1>1, <1>3, <1>4, <1>6, <1>8, <2>3, PlainRuns
  <2>5. QED
    BY <1>1, <1>3, <1>6, <2>3, <2>4, BeginsInv
<1>9. QED
  BY <1>7, <1>8

LEMMA DisappearsInv ==
  ASSUME SessionsInv, Disappears
  PROVE  SessionsInv'
<1>1. Idle /\ UNCHANGED <<desk, asked, session, unread, clientHas>>
  BY DEF Disappears
<1>2. PICK o \in thread.outputs :
        LET rest == thread.outputs \ {o} IN
        thread' = IF thread.selected = o
                  THEN [thread EXCEPT !.outputs = rest, !.selected = NoOutput, !.todo = AdoptOutput(rest)]
                  ELSE [thread EXCEPT !.outputs = rest, !.todo = <<OutputsChanged>>]
  BY DEF Disappears
<1>3. /\ thread.todo = <<>> /\ happenings' \in Nat /\ thread \in ThreadType
      /\ desk \in DeskType /\ asked \in Seq(CommandType) /\ Runs(thread, desk)
      /\ thread.selected # Wanted /\ Wanted \in thread.outputs => thread.by = "client"
      /\ thread.selected \in thread.outputs \cup {NoOutput}
      /\ thread.outputs \subseteq Outputs
  BY <1>1, IdleIs
<1>4. PICK S : S = thread.outputs \ {o}
  OBVIOUS
<1>5. S \in SUBSET Outputs
  BY <1>3, <1>4
<1>6. CASE thread.selected = o
  <2>1. PICK q : q = AdoptOutput(S)
    OBVIOUS
  <2>2. ASSUME q \in Seq(Step)
        PROVE  /\ thread' \in ThreadType /\ thread'.todo = q /\ thread'.outputs = S
               /\ thread'.selected = NoOutput /\ thread'.by = thread.by
    BY <1>2, <1>3, <1>4, <1>5, <1>6, <2>1, <2>2 DEF ThreadType
  <2>3. CASE S = {}
    <3>1. q = <<SetCursor(NoImage), AnswerOutputs>>
      BY <1>5, <2>1, <2>3, AdoptIs
    <3>2. q \in Seq(Step) /\ ~Does(q, "select") /\ ~Does(q, "framebuffer") /\ Does(q, "outputs")
      BY <3>1, BriefSteps DEF Moving
    <3>3. Runs(thread', desk')
      BY <1>1, <1>3, <2>2, <2>3, <3>2, PlainRuns
    <3>4. QED
      BY <1>1, <1>3, <2>2, <3>2, <3>3, BeginsInv
  <2>4. CASE S # {}
    <3>1. PICK x \in S : /\ Wanted \in S => x = Wanted
                         /\ AdoptOutput(S) = ShareOutput(x, "adopted")
      BY <1>5, <2>4, AdoptIs
    <3>2. x \in Outputs /\ "adopted" \in Chooser
      BY <1>5 DEF Chooser
    <3>3. q \in Seq(Step) /\ Shares(q, x, "adopted")
      BY <2>1, <3>1, <3>2, ShareIs
    <3>4. x # thread.selected
      BY <1>4, <1>6
    <3>5. PICK t : t = thread'
      OBVIOUS
    <3>6. /\ t.todo \in Seq(Step) /\ Shares(t.todo, x, "adopted") /\ t.by = thread.by
          /\ x \in t.outputs /\ t.selected \in {thread.selected, NoOutput}
          /\ t.selected \in t.outputs \cup {NoOutput} /\ (x = Wanted \/ Wanted \notin t.outputs)
      BY <2>2, <3>1, <3>3, <3>5
    <3>7. Runs(t, desk)
      BY <1>3, <3>2, <3>4, <3>6, SharesRuns
    <3>8. Runs(thread', desk')
      BY <1>1, <3>5, <3>7
    <3>9. QED
      BY <1>1, <1>3, <2>2, <3>3, <3>8, BeginsInv
  <2>5. QED
    BY <2>3, <2>4
<1>7. CASE thread.selected # o
  <2>1. PICK q : q = <<OutputsChanged>>
    OBVIOUS
  <2>2. q \in Seq(Step) /\ ~Does(q, "select") /\ ~Does(q, "framebuffer")
    BY <2>1, BriefSteps DEF Moving
  <2>3. /\ thread' \in ThreadType /\ thread'.todo = q /\ thread'.outputs = S
        /\ thread'.selected = thread.selected /\ thread'.by = thread.by
    BY <1>2, <1>3, <1>4, <1>5, <1>7, <2>1, <2>2 DEF ThreadType
  <2>4. thread.selected \in S \cup {NoOutput} /\ (Wanted \in S => Wanted \in thread.outputs)
    BY <1>3, <1>4, <1>7
  <2>5. Runs(thread', desk')
    BY <1>1, <1>3, <2>2, <2>3, <2>4, PlainRuns
  <2>6. QED
    BY <1>1, <1>3, <2>3, <2>5, BeginsInv
<1>8. QED
  BY <1>6, <1>7

LEMMA RescaledInv ==
  ASSUME SessionsInv, Rescaled
  PROVE  SessionsInv'
<1>1. Idle /\ UNCHANGED <<desk, asked, session, unread, clientHas>>
  BY DEF Rescaled
<1>2. PICK o \in thread.outputs, s \in Densities :
        thread' = [thread EXCEPT !.scale[o] = s,
                                 !.todo = IF o = thread.selected
                                          THEN <<GeometryChanged, OutputsChanged>>
                                          ELSE <<OutputsChanged>>]
  BY DEF Rescaled
<1>3. /\ thread.todo = <<>> /\ happenings' \in Nat /\ thread \in ThreadType
      /\ desk \in DeskType /\ asked \in Seq(CommandType) /\ Runs(thread, desk)
      /\ thread.selected # Wanted /\ Wanted \in thread.outputs => thread.by = "client"
      /\ thread.selected \in thread.outputs \cup {NoOutput}
      /\ thread.outputs \subseteq Outputs
  BY <1>1, IdleIs
<1>4. PICK q : q = IF o = thread.selected THEN <<GeometryChanged, OutputsChanged>>
                   ELSE <<OutputsChanged>>
  OBVIOUS
<1>5. q \in Seq(Step) /\ ~Does(q, "select") /\ ~Does(q, "framebuffer")
  BY <1>4, BriefSteps DEF Moving
<1>6. /\ thread' \in ThreadType /\ thread'.todo = q /\ thread'.outputs = thread.outputs
      /\ thread'.selected = thread.selected /\ thread'.by = thread.by
  BY <1>2, <1>3, <1>4, <1>5 DEF ThreadType
<1>7. Runs(thread', desk')
  BY <1>1, <1>3, <1>5, <1>6, PlainRuns
<1>8. QED
  BY <1>1, <1>3, <1>6, <1>7, BeginsInv

LEMMA CursorSteps ==
  ASSUME NEW i \in Image
  PROVE  /\ <<SetCursor(i)>> \in Seq(Step)
         /\ ~Does(<<SetCursor(i)>>, "select") /\ ~Does(<<SetCursor(i)>>, "framebuffer")
<1>1. PICK a : a = SetCursor(i)
  OBVIOUS
<1>2. a.op = "cursor" /\ a \in Step
  BY <1>1 DEF SetCursor, Step
<1>3. <<a>> \in Seq(Step)
  BY <1>2
<1>4. ~Does(<<a>>, "select") /\ ~Does(<<a>>, "framebuffer")
  BY <1>2 DEF Does
<1>5. QED
  BY <1>1, <1>3, <1>4

LEMMA CursorChangesInv ==
  ASSUME SessionsInv, CursorChanges
  PROVE  SessionsInv'
<1>1. Idle /\ UNCHANGED <<desk, asked, session, unread, clientHas>>
  BY DEF CursorChanges
<1>2. PICK i \in Image : thread' = [thread EXCEPT !.todo = <<SetCursor(i)>>]
  BY DEF CursorChanges, Image
<1>3. /\ thread.todo = <<>> /\ happenings' \in Nat /\ thread \in ThreadType
      /\ desk \in DeskType /\ asked \in Seq(CommandType) /\ Runs(thread, desk)
      /\ thread.selected # Wanted /\ Wanted \in thread.outputs => thread.by = "client"
      /\ thread.selected \in thread.outputs \cup {NoOutput}
  BY <1>1, IdleIs
<1>4. PICK q : q = <<SetCursor(i)>>
  OBVIOUS
<1>5. q \in Seq(Step) /\ ~Does(q, "select") /\ ~Does(q, "framebuffer")
  BY <1>2, <1>4, CursorSteps
<1>6. /\ thread' \in ThreadType /\ thread'.todo = q /\ thread'.outputs = thread.outputs
      /\ thread'.selected = thread.selected /\ thread'.by = thread.by
  BY <1>2, <1>3, <1>4, <1>5 DEF ThreadType
<1>7. Runs(thread', desk')
  BY <1>1, <1>3, <1>5, <1>6, PlainRuns
<1>8. QED
  BY <1>1, <1>3, <1>6, <1>7, BeginsInv

LEMMA HandleCommandInv ==
  ASSUME SessionsInv, HandleCommand
  PROVE  SessionsInv'
<1>1. /\ thread.todo = <<>> /\ asked # <<>> /\ asked' = Tail(asked)
      /\ UNCHANGED <<session, unread, clientHas, happenings>>
  BY DEF HandleCommand
<1>2. /\ thread \in ThreadType /\ desk \in DeskType /\ asked \in Seq(CommandType)
      /\ happenings \in Nat /\ Runs(thread, desk)
  BY DEF SessionsInv, SessionsTypeOK
<1>3. /\ thread.selected # Wanted /\ Wanted \in thread.outputs => thread.by = "client"
      /\ thread.selected \in thread.outputs \cup {NoOutput} /\ thread.outputs \subseteq Outputs
  BY <1>1, <1>2, IdleRuns DEF ThreadType
<1>4. PICK c : c = Head(asked)
  OBVIOUS
<1>5. c \in CommandType /\ asked' \in Seq(CommandType)
  BY <1>1, <1>2, <1>4, TailOf
<1>6. ASSUME NEW h \in {0, EARLIER, SELF, LATER}, desk' = [desk EXCEPT !.holder = h]
      PROVE  /\ desk' \in DeskType /\ desk'.framebuffer = desk.framebuffer
             /\ desk'.displays = desk.displays /\ desk'.by = desk.by
             /\ desk'.geometry = desk.geometry /\ desk'.cursor = desk.cursor
  BY <1>2, <1>6 DEF DeskType
<1>7. ASSUME NEW q \in Seq(Step), ~Does(q, "select"), ~Does(q, "framebuffer"),
             thread' = [thread EXCEPT !.todo = q],
             desk' \in DeskType, desk'.framebuffer = desk.framebuffer,
             desk'.displays = desk.displays, desk'.by = desk.by,
             desk'.geometry = desk.geometry, desk'.cursor = desk.cursor
      PROVE  SessionsInv'
  <2>1. /\ thread' \in ThreadType /\ thread'.todo = q /\ thread'.outputs = thread.outputs
        /\ thread'.selected = thread.selected /\ thread'.by = thread.by
    BY <1>2, <1>7, WithTodo
  <2>2. PICK t, d : t = thread' /\ d = desk'
    OBVIOUS
  <2>3. /\ t.todo \in Seq(Step) /\ ~Does(t.todo, "select") /\ ~Does(t.todo, "framebuffer")
        /\ t.by = thread.by /\ t.selected = thread.selected /\ t.outputs = thread.outputs
        /\ d.framebuffer = desk.framebuffer /\ d.displays = desk.displays /\ d.by = desk.by
    BY <1>7, <2>1, <2>2
  <2>4. Runs(t, d)
    BY <1>1, <1>2, <1>3, <2>3, PlainRuns
  <2>5. QED
    BY <1>1, <1>2, <1>5, <1>7, <2>1, <2>2, <2>4, BeginsInv
<1>8. ASSUME UNCHANGED thread,
             desk' \in DeskType, desk'.framebuffer = desk.framebuffer,
             desk'.displays = desk.displays, desk'.by = desk.by,
             desk'.geometry = desk.geometry, desk'.cursor = desk.cursor
      PROVE  SessionsInv'
  <2>1. Runs(thread, desk')
    BY <1>2, <1>8 DEF Runs, Moves
  <2>2. QED
    BY <1>1, <1>2, <1>5, <1>8, <2>1, BeginsInv
<1>9. CASE c.type = "joined" /\ desk' = [desk EXCEPT !.holder = c.id] /\ UNCHANGED thread
  <2>1. c.id \in {0, EARLIER, SELF, LATER}
    BY <1>5 DEF CommandType
  <2>2. QED
    BY <1>6, <1>8, <1>9, <2>1
<1>10. CASE desk' = [desk EXCEPT !.holder = 0] /\ thread' = [thread EXCEPT !.todo = <<SetCursor(NoImage)>>]
  <2>1. PICK q : q = <<SetCursor(NoImage)>>
    OBVIOUS
  <2>2. q \in Seq(Step) /\ ~Does(q, "select") /\ ~Does(q, "framebuffer")
    BY <2>1, CursorSteps DEF Image
  <2>3. QED
    BY <1>6, <1>7, <1>10, <2>1, <2>2
<1>11. CASE /\ c.type = "select"
            /\ thread' = [thread EXCEPT !.todo = IF c.output \in thread.outputs \ {thread.selected}
                                                 THEN ShareOutput(c.output, "client")
                                                 ELSE <<AnswerOutputs>>]
            /\ UNCHANGED desk
  <2>1. c.output \in Outputs /\ "client" \in Chooser
    BY <1>5, <1>11 DEF CommandType, Chooser
  <2>2. CASE c.output \in thread.outputs \ {thread.selected}
    <3>1. PICK x, q : x = c.output /\ q = ShareOutput(x, "client")
      OBVIOUS
    <3>2. q \in Seq(Step) /\ Shares(q, x, "client") /\ x \in Outputs
      BY <2>1, <3>1, ShareIs
    <3>3. /\ thread' \in ThreadType /\ thread'.todo = q /\ thread'.outputs = thread.outputs
          /\ thread'.selected = thread.selected /\ thread'.by = thread.by
      BY <1>2, <1>11, <2>2, <3>1, <3>2, WithTodo
    <3>4. PICK t : t = thread'
      OBVIOUS
    <3>5. /\ t.todo \in Seq(Step) /\ Shares(t.todo, x, "client") /\ t.by = thread.by
          /\ x \in t.outputs /\ x # thread.selected /\ t.selected \in {thread.selected, NoOutput}
          /\ t.selected \in t.outputs \cup {NoOutput}
      BY <1>3, <2>2, <3>1, <3>2, <3>3, <3>4
    <3>6. Runs(t, desk)
      BY <1>1, <1>2, <3>2, <3>5, SharesRuns
    <3>7. QED
      BY <1>1, <1>2, <1>5, <1>11, <3>3, <3>4, <3>6, BeginsInv
  <2>3. CASE c.output \notin thread.outputs \ {thread.selected}
    <3>1. PICK q : q = <<AnswerOutputs>>
      OBVIOUS
    <3>2. q \in Seq(Step) /\ ~Does(q, "select") /\ ~Does(q, "framebuffer")
      BY <3>1, BriefSteps DEF Moving
    <3>3. thread' = [thread EXCEPT !.todo = q]
      BY <1>11, <2>3, <3>1
    <3>4. QED
      BY <1>2, <1>7, <1>11, <3>2, <3>3
  <2>4. QED
    BY <2>2, <2>3
<1>12. CASE UNCHANGED <<thread, desk>>
  BY <1>2, <1>8, <1>12
<1>13. QED
  BY <1>4, <1>9, <1>10, <1>11, <1>12 DEF HandleCommand

LEMMA OthersCommandInv ==
  ASSUME SessionsInv, OthersCommand
  PROVE  SessionsInv'
<1>1. /\ asked \in Seq(CommandType) /\ happenings \in Nat
  BY DEF SessionsInv, SessionsTypeOK
<1>2. PICK c \in CommandType : asked' = Append(asked, c)
  BY DEF OthersCommand, CommandType
<1>3. asked' \in Seq(CommandType)
  BY <1>1, <1>2, AppendOf
<1>4. QED
  BY <1>1, <1>3 DEF OthersCommand, SessionsInv, SessionsTypeOK

-----------------------------------------------------------------------------
(* The session's steps.                                                    *)

LEMMA SessionInv ==
  ASSUME SessionsInv, UNCHANGED <<thread, desk>>,
         asked' \in Seq(CommandType), session' \in SessionType,
         unread' \in [queue : Seq(Change), lagged : BOOLEAN, lost : BOOLEAN],
         clientHas' \in ClientType, happenings' \in Nat,
         Told(thread, desk, session', unread', clientHas'), Found(thread, desk, session')
  PROVE  SessionsInv'
BY DEF SessionsInv, SessionsTypeOK

LEMMA NowIs ==
  ASSUME SessionsInv
  PROVE  /\ thread \in ThreadType /\ desk \in DeskType /\ asked \in Seq(CommandType)
         /\ session \in SessionType
         /\ unread \in [queue : Seq(Change), lagged : BOOLEAN, lost : BOOLEAN]
         /\ clientHas \in ClientType /\ happenings \in Nat
         /\ Told(thread, desk, session, unread, clientHas)
         /\ Runs(thread, desk) /\ Found(thread, desk, session)
BY DEF SessionsInv, SessionsTypeOK

LEMMA OverInv ==
  ASSUME SessionsInv, SessionOver, UNCHANGED <<thread, desk>>,
         unread' \in [queue : Seq(Change), lagged : BOOLEAN, lost : BOOLEAN],
         clientHas' \in ClientType, happenings' \in Nat
  PROVE  SessionsInv'
<1>1. /\ session' = [session EXCEPT !.phase = "over"] /\ session \in SessionType
      /\ asked' = Append(asked, [type |-> "left", id |-> SELF]) /\ asked \in Seq(CommandType)
      /\ Told(thread, desk, session, unread, clientHas) /\ Found(thread, desk, session)
  BY NowIs DEF SessionOver
<1>2. [type |-> "left", id |-> SELF] \in CommandType
  BY DEF CommandType
<1>3. asked' \in Seq(CommandType)
  BY <1>1, <1>2, AppendOf
<1>4. /\ session' \in SessionType /\ session'.phase = "over"
      /\ session'.found = session.found /\ session'.by = session.by
  BY <1>1 DEF SessionType
<1>5. Told(thread, desk, session', unread', clientHas')
  BY <1>4 DEF Told
<1>6. Found(thread, desk, session')
  BY <1>1, <1>4 DEF Found
<1>7. QED
  BY <1>3, <1>4, <1>5, <1>6, SessionInv

\* Before it is up, a step that finds nothing.
LEMMA EarlyInv ==
  ASSUME SessionsInv, UNCHANGED <<thread, desk, unread, clientHas, happenings>>,
         asked' \in Seq(CommandType), session' \in SessionType,
         session.phase \notin {"arrived", "up", "over"}, session'.phase # "up",
         session'.lists = session.lists, session'.found = session.found
  PROVE  SessionsInv'
<1>1. /\ unread \in [queue : Seq(Change), lagged : BOOLEAN, lost : BOOLEAN]
      /\ clientHas \in ClientType /\ happenings \in Nat
      /\ Told(thread, desk, session, unread, clientHas) /\ Found(thread, desk, session)
  BY NowIs
<1>2. Told(thread, desk, session', unread, clientHas)
  BY <1>1 DEF Told
<1>3. Found(thread, desk, session')
  BY <1>1 DEF Found
<1>4. QED
  BY <1>1, <1>2, <1>3, SessionInv

LEMMA HandshakeInv ==
  ASSUME SessionsInv, Handshake
  PROVE  SessionsInv'
<1>1. /\ asked \in Seq(CommandType) /\ session \in SessionType
      /\ UNCHANGED <<thread, desk, unread, clientHas, happenings>>
      /\ session.phase \in {"version", "security", "login", "init"}
  BY NowIs DEF Handshake, HandshakeSteps
<1>2. PICK p \in {"security", "login", "init", "joined"} : session' = [session EXCEPT !.phase = p]
  BY DEF Handshake
<1>3. /\ session' \in SessionType /\ session'.phase = p
      /\ session'.lists = session.lists /\ session'.found = session.found
  BY <1>1, <1>2 DEF SessionType, HandshakeSteps
<1>4. [type |-> "joined", id |-> SELF] \in CommandType
  BY DEF CommandType
<1>5. asked' \in Seq(CommandType)
  BY <1>1, <1>4, AppendOf DEF Handshake
<1>6. QED
  BY <1>1, <1>2, <1>3, <1>5, EarlyInv

LEMMA WaitInv ==
  ASSUME SessionsInv, WaitsForOutput \/ Looks \/ WaitIsOver
  PROVE  SessionsInv'
<1>1. /\ asked \in Seq(CommandType) /\ session \in SessionType
      /\ UNCHANGED <<thread, desk, asked, unread, clientHas, happenings>>
      /\ session.phase \in {"joined", "waiting"}
  BY NowIs DEF WaitsForOutput, Looks, WaitIsOver
<1>2. CASE WaitsForOutput
  <2>1. PICK p \in {"arrived", "waiting"} : session' = [session EXCEPT !.phase = p]
    BY <1>2 DEF WaitsForOutput
  <2>2. /\ session' \in SessionType /\ session'.phase = p
        /\ session'.lists = session.lists /\ session'.found = session.found
    BY <1>1, <2>1 DEF SessionType
  <2>3. QED
    BY <1>1, <2>1, <2>2, EarlyInv
<1>3. CASE Looks
  <2>1. PICK p \in {"listed", "waiting"} :
          session' = [session EXCEPT !.arrivals = @ - 1, !.phase = p]
    BY <1>3 DEF Looks
  <2>2. session.arrivals - 1 \in Nat
    BY <1>1, <1>3 DEF Looks, SessionType
  <2>3. /\ session' \in SessionType /\ session'.phase = p
        /\ session'.lists = session.lists /\ session'.found = session.found
    BY <1>1, <2>1, <2>2 DEF SessionType
  <2>4. QED
    BY <1>1, <2>1, <2>3, EarlyInv
<1>4. CASE WaitIsOver
  <2>1. /\ session' \in SessionType /\ session'.phase = "listed"
        /\ session'.lists = session.lists /\ session'.found = session.found
    BY <1>1, <1>4 DEF WaitIsOver, SessionType
  <2>2. QED
    BY <1>1, <2>1, EarlyInv
<1>5. QED
  BY <1>2, <1>3, <1>4

\* What is found is what is listed, and who put the desktop there.
LEMMA ArrivesInv ==
  ASSUME SessionsInv, Arrives
  PROVE  SessionsInv'
<1>1. /\ thread \in ThreadType /\ desk \in DeskType /\ asked \in Seq(CommandType)
      /\ session \in SessionType /\ Runs(thread, desk)
      /\ unread \in [queue : Seq(Change), lagged : BOOLEAN, lost : BOOLEAN]
      /\ clientHas \in ClientType /\ happenings \in Nat
      /\ Told(thread, desk, session, unread, clientHas)
  BY NowIs
<1>2. session.phase = "listed" /\ UNCHANGED <<thread, desk, asked, unread, clientHas, happenings>>
  BY DEF Arrives
<1>3. PICK d, found, left :
        /\ d = desk.displays
        /\ found = IF d.active = Wanted THEN "shared"
                   ELSE IF Wanted \in Listed(d) THEN "elsewhere" ELSE "absent"
        /\ left = (thread.selected # Wanted)
  OBVIOUS
<1>4. /\ session' = [session EXCEPT !.phase = "arrived", !.found = found, !.by = desk.by,
                                    !.left = left]
      /\ left \in BOOLEAN
  BY <1>3 DEF Arrives
<1>5. /\ found \in {"shared", "elsewhere", "absent"}
      /\ found = "shared" => d.active = Wanted
      /\ found = "elsewhere" => d.active # Wanted /\ Wanted \in Listed(d)
  BY <1>3
<1>6. desk.by \in Chooser
  BY <1>1 DEF DeskType
<1>7. /\ session' \in SessionType /\ session'.phase = "arrived" /\ session'.found = found
      /\ session'.by = desk.by /\ session'.left = left
      /\ session'.lists = session.lists
  BY <1>1, <1>4, <1>5, <1>6 DEF SessionType
<1>8. found = "elsewhere" => desk.by = "client"
  BY <1>1, <1>3, <1>5 DEF Runs
<1>9. found = "shared" /\ thread.selected = Wanted => desk.framebuffer = Wanted
  BY <1>1, <1>3, <1>5, SessionsAssumption DEF Runs
<1>10. Found(thread, desk, session')
  BY <1>3, <1>7, <1>8, <1>9 DEF Found
<1>11. Told(thread, desk, session', unread, clientHas)
  BY <1>1, <1>2, <1>7 DEF Told
<1>12. QED
  BY <1>1, <1>2, <1>7, <1>10, <1>11, SessionInv

LEMMA ServerInitInv ==
  ASSUME SessionsInv, ServerInit
  PROVE  SessionsInv'
<1>1. /\ desk \in DeskType /\ asked \in Seq(CommandType) /\ session \in SessionType
      /\ unread \in [queue : Seq(Change), lagged : BOOLEAN, lost : BOOLEAN]
      /\ clientHas \in ClientType /\ happenings \in Nat
      /\ Told(thread, desk, session, unread, clientHas) /\ Found(thread, desk, session)
  BY NowIs
<1>2. /\ session.phase = "arrived"
      /\ session' = [session EXCEPT !.phase = "up", !.size = desk.framebuffer]
      /\ UNCHANGED <<thread, desk, asked, unread, clientHas, happenings>>
  BY DEF ServerInit
<1>3. desk.framebuffer \in Outputs
  BY <1>1 DEF DeskType
<1>4. /\ session' \in SessionType /\ session'.phase = "up" /\ session'.size = desk.framebuffer
      /\ session'.lists = session.lists /\ session'.found = session.found
      /\ session'.by = session.by /\ session'.left = session.left
  BY <1>1, <1>2, <1>3 DEF SessionType
<1>5. Found(thread, desk, session')
  BY <1>1, <1>2, <1>4 DEF Found
<1>6. Told(thread, desk, session', unread, clientHas)
  BY <1>1, <1>2, <1>4 DEF Told
<1>7. QED
  BY <1>1, <1>2, <1>4, <1>5, <1>6, SessionInv

LEMMA AnsweredIs ==
  ASSUME SessionsInv, NEW list \in ClientLists
  PROVE  /\ Answered(list) \in ClientType /\ Answered(list).cursor = clientHas.cursor
         /\ Accepted(list) /\ list.density => Answered(list).geometry = desk.geometry
         /\ Accepted(list) /\ list.outputs => Answered(list).displays = desk.displays
<1>1. clientHas \in ClientType /\ desk.geometry \in Drawn /\ desk.displays \in Lists
  BY NowIs DEF DeskType
<1>2. PICK v, g, d : /\ v = (clientHas.version \/ list.version # "none")
                     /\ g = IF Accepted(list) /\ list.density THEN desk.geometry
                            ELSE clientHas.geometry
                     /\ d = IF Accepted(list) /\ list.outputs THEN desk.displays
                            ELSE clientHas.displays
  OBVIOUS
<1>3. v \in BOOLEAN /\ g \in Drawn \cup {NoOutput} /\ d \in Lists \cup {NoOutput}
  <2>1. clientHas.geometry \in Drawn \cup {NoOutput} /\ clientHas.displays \in Lists \cup {NoOutput}
    BY <1>1 DEF ClientType
  <2>2. QED
    BY <1>1, <1>2, <2>1
<1>4. Answered(list) = [clientHas EXCEPT !.version = v, !.geometry = g, !.displays = d]
  BY <1>2 DEF Answered
<1>5. /\ Answered(list) \in ClientType /\ Answered(list).cursor = clientHas.cursor
      /\ Answered(list).geometry = g /\ Answered(list).displays = d
  BY <1>1, <1>3, <1>4 DEF ClientType
<1>6. QED
  BY <1>2, <1>5

LEMMA SetEncodingsInv ==
  ASSUME SessionsInv, SetEncodings
  PROVE  SessionsInv'
<1>1. /\ desk \in DeskType /\ asked \in Seq(CommandType) /\ session \in SessionType
      /\ unread \in [queue : Seq(Change), lagged : BOOLEAN, lost : BOOLEAN]
      /\ happenings \in Nat /\ Found(thread, desk, session)
  BY NowIs
<1>2. /\ session.phase = "up" /\ happenings' = happenings + 1 /\ UNCHANGED <<thread, desk>>
      /\ unread' = [unread EXCEPT !.lost = FALSE]
  BY DEF SetEncodings, Up
<1>3. PICK list \in ClientLists :
        /\ IF Accepted(list)
           THEN /\ session' = [session EXCEPT
                     !.lists = list, !.announce_cursor = TRUE,
                     !.announce_eds = @ \/ (list.eds /\ ~session.lists.eds)]
                /\ UNCHANGED asked
           ELSE SessionOver
        /\ clientHas' = Answered(list)
  BY DEF SetEncodings
<1>4. /\ happenings' \in Nat
      /\ unread' \in [queue : Seq(Change), lagged : BOOLEAN, lost : BOOLEAN]
  <2>1. happenings' \in Nat
    BY <1>1, <1>2
  <2>2. unread' \in [queue : Seq(Change), lagged : BOOLEAN, lost : BOOLEAN]
    BY <1>1, <1>2
  <2>3. QED
    BY <2>1, <2>2
<1>5. /\ clientHas' \in ClientType
      /\ Accepted(list) /\ list.density => clientHas'.geometry = desk.geometry
      /\ Accepted(list) /\ list.outputs => clientHas'.displays = desk.displays
  BY <1>3, AnsweredIs
<1>6. CASE Accepted(list)
  <2>1. PICK eds \in BOOLEAN :
          session' = [session EXCEPT !.lists = list, !.announce_cursor = TRUE, !.announce_eds = eds]
    <3>1. PICK eds : eds = (session.announce_eds \/ (list.eds /\ ~session.lists.eds))
      OBVIOUS
    <3>2. eds \in BOOLEAN
      BY <3>1
    <3>3. session' = [session EXCEPT !.lists = list, !.announce_cursor = TRUE, !.announce_eds = eds]
      BY <1>3, <1>6, <3>1
    <3>4. QED
      BY <3>2, <3>3
  <2>2. /\ session' \in SessionType /\ session'.phase = session.phase
        /\ session'.lists = list /\ session'.announce_cursor
        /\ session'.found = session.found /\ session'.by = session.by
        /\ session'.left = session.left /\ session'.size = session.size
    BY <1>1, <2>1 DEF SessionType
  <2>3. Told(thread, desk, session', unread', clientHas')
    BY <1>2, <1>5, <1>6, <2>2 DEF Told
  <2>4. Found(thread, desk, session')
    BY <1>1, <2>2 DEF Found
  <2>5. QED
    BY <1>1, <1>2, <1>3, <1>4, <1>5, <1>6, <2>2, <2>3, <2>4, SessionInv
<1>7. CASE ~Accepted(list)
  BY <1>2, <1>3, <1>4, <1>5, <1>7, OverInv
<1>8. QED
  BY <1>6, <1>7

LEMMA RequestInv ==
  ASSUME SessionsInv, Request \/ FenceEchoed
  PROVE  SessionsInv'
<1>1. /\ asked \in Seq(CommandType) /\ session \in SessionType
      /\ unread \in [queue : Seq(Change), lagged : BOOLEAN, lost : BOOLEAN]
      /\ clientHas \in ClientType /\ happenings \in Nat
      /\ Told(thread, desk, session, unread, clientHas) /\ Found(thread, desk, session)
      /\ UNCHANGED <<thread, desk, unread, clientHas, happenings>>
  BY NowIs DEF Request, FenceEchoed
<1>2. CASE SessionOver
  BY <1>1, <1>2, OverInv
<1>3. CASE ~SessionOver
  <2>1. PICK p \in BOOLEAN, f \in BOOLEAN :
          session' = [session EXCEPT !.pending = p, !.fence = f]
    <3>1. \/ session' = [session EXCEPT !.pending = TRUE]
          \/ session' = [session EXCEPT !.fence = FALSE]
      BY <1>3 DEF Request, FenceEchoed
    <3>2. session.pending \in BOOLEAN /\ session.fence \in BOOLEAN
      BY <1>1 DEF SessionType
    <3>3. /\ [session EXCEPT !.pending = TRUE] = [session EXCEPT !.pending = TRUE, !.fence = session.fence]
          /\ [session EXCEPT !.fence = FALSE] = [session EXCEPT !.pending = session.pending, !.fence = FALSE]
      BY <1>1 DEF SessionType
    <3>4. QED
      BY <3>1, <3>2, <3>3
  <2>2. /\ session' \in SessionType /\ session'.phase = session.phase
        /\ session'.lists = session.lists /\ session'.announce_cursor = session.announce_cursor
        /\ session'.found = session.found /\ session'.by = session.by
        /\ session'.left = session.left /\ session'.size = session.size
    BY <1>1, <2>1 DEF SessionType
  <2>3. Told(thread, desk, session', unread, clientHas)
    BY <1>1, <2>2 DEF Told
  <2>4. Found(thread, desk, session')
    BY <1>1, <2>2 DEF Found
  <2>5. asked' = asked
    BY <1>3 DEF Request, FenceEchoed
  <2>6. QED
    BY <1>1, <2>2, <2>3, <2>4, <2>5, SessionInv
<1>4. QED
  BY <1>2, <1>3

LEMMA SelectOutputInv ==
  ASSUME SessionsInv, SelectOutput
  PROVE  SessionsInv'
<1>1. asked \in Seq(CommandType) /\ happenings \in Nat
  BY NowIs
<1>2. PICK c \in CommandType : asked' = Append(asked, c)
  BY DEF SelectOutput, CommandType
<1>3. asked' \in Seq(CommandType)
  BY <1>1, <1>2, AppendOf
<1>4. QED
  BY <1>1, <1>3 DEF SelectOutput, SessionsInv, SessionsTypeOK

LEMMA EventInv ==
  ASSUME SessionsInv, EventReceived
  PROVE  SessionsInv'
<1>1. /\ desk \in DeskType /\ asked \in Seq(CommandType) /\ session \in SessionType
      /\ unread \in [queue : Seq(Change), lagged : BOOLEAN, lost : BOOLEAN]
      /\ clientHas \in ClientType /\ happenings \in Nat
      /\ Told(thread, desk, session, unread, clientHas) /\ Found(thread, desk, session)
  BY NowIs
<1>2. /\ session.phase = "up" /\ UNCHANGED <<thread, desk, asked, happenings>>
  BY DEF EventReceived, Up
<1>3. ASSUME NEW a \in BOOLEAN, session' = [session EXCEPT !.announce_cursor = a]
      PROVE  /\ session' \in SessionType /\ session'.phase = session.phase
             /\ session'.lists = session.lists /\ session'.announce_cursor = a
             /\ Found(thread, desk, session')
  <2>1. /\ session' \in SessionType /\ session'.phase = session.phase
        /\ session'.lists = session.lists /\ session'.announce_cursor = a
        /\ session'.found = session.found /\ session'.by = session.by
        /\ session'.left = session.left /\ session'.size = session.size
    BY <1>1, <1>3 DEF SessionType
  <2>2. QED
    BY <1>1, <2>1 DEF Found
<1>4. CASE unread.lagged /\ Lagged
  <2>1. PICK a : a = (session.announce_cursor \/ session.lists.cursor)
    OBVIOUS
  <2>2. a \in BOOLEAN /\ session' = [session EXCEPT !.announce_cursor = a]
    BY <1>4, <2>1 DEF Lagged
  <2>3. /\ unread' \in [queue : Seq(Change), lagged : BOOLEAN, lost : BOOLEAN]
        /\ unread'.queue = unread.queue /\ unread'.lost = unread.lost
        /\ clientHas' = clientHas
    BY <1>1, <1>4 DEF Lagged
  <2>4. Told(thread, desk, session', unread', clientHas')
    BY <1>1, <1>2, <1>3, <2>1, <2>2, <2>3 DEF Told, Due
  <2>5. QED
    BY <1>1, <1>2, <1>3, <2>2, <2>3, <2>4, SessionInv
<1>5. CASE unread.queue # <<>> /\ HandleEvent
  <2>1. PICK e : e = Head(unread.queue)
    OBVIOUS
  <2>2. /\ e \in Change /\ Tail(unread.queue) \in Seq(Change)
        /\ \A x : Within(x, unread.queue) <=> x = e \/ Within(x, Tail(unread.queue))
    BY <1>1, <1>5, <2>1, TailOf, WithinTail
  <2>3. /\ unread' \in [queue : Seq(Change), lagged : BOOLEAN, lost : BOOLEAN]
        /\ unread'.queue = Tail(unread.queue) /\ unread'.lost = unread.lost
        /\ unread'.lagged = unread.lagged
    BY <1>1, <1>5, <2>2 DEF HandleEvent
  <2>4. PICK a : a = (session.announce_cursor \/ (e = "cursor" /\ session.lists.cursor))
    OBVIOUS
  <2>5. a \in BOOLEAN /\ session' = [session EXCEPT !.announce_cursor = a]
    BY <1>5, <2>1, <2>4 DEF HandleEvent
  <2>6. \A x : Due(thread, unread, x) => x = e \/ Due(thread, unread', x)
    BY <2>2, <2>3 DEF Due
  <2>7. /\ clientHas' \in ClientType /\ clientHas'.cursor = clientHas.cursor
        /\ clientHas'.geometry = IF e = "geometry" /\ session.lists.density THEN desk.geometry
                                 ELSE clientHas.geometry
        /\ clientHas'.displays = IF e = "outputs" /\ session.lists.outputs THEN desk.displays
                                 ELSE clientHas.displays
    <3>1. desk.geometry \in Drawn /\ desk.displays \in Lists
      BY <1>1 DEF DeskType
    <3>2. CASE e = "geometry" /\ session.lists.density
      <4>1. clientHas' = [clientHas EXCEPT !.geometry = desk.geometry]
        BY <1>5, <2>1, <3>2 DEF HandleEvent
      <4>2. QED
        BY <1>1, <3>1, <3>2, <4>1 DEF ClientType
    <3>3. CASE e = "outputs" /\ session.lists.outputs
      <4>1. clientHas' = [clientHas EXCEPT !.displays = desk.displays]
        BY <1>5, <2>1, <3>3 DEF HandleEvent
      <4>2. QED
        BY <1>1, <3>1, <3>3, <4>1 DEF ClientType
    <3>4. CASE /\ ~(e = "geometry" /\ session.lists.density)
               /\ ~(e = "outputs" /\ session.lists.outputs)
      <4>1. clientHas' = clientHas
        BY <1>5, <2>1, <3>4 DEF HandleEvent
      <4>2. QED
        BY <1>1, <3>4, <4>1
    <3>5. QED
      BY <3>2, <3>3, <3>4
  <2>8. Told(thread, desk, session', unread', clientHas')
    <3>1. session.lists.cursor =>
            /\ ~Due(thread, unread, "geometry") /\ ~unread.lost /\ session.lists.density =>
                 clientHas.geometry = desk.geometry
            /\ ~Due(thread, unread, "outputs") /\ ~unread.lost /\ session.lists.outputs =>
                 clientHas.displays = desk.displays
            /\ ~Due(thread, unread, "cursor") /\ ~unread.lagged =>
                 session.announce_cursor \/ clientHas.cursor = desk.cursor
      BY <1>1, <1>2 DEF Told
    <3>2. /\ session'.phase = "up" /\ session'.lists = session.lists
          /\ session'.announce_cursor = a
      BY <1>2, <1>3, <2>5
    <3>3. ASSUME session.lists.cursor
          PROVE  /\ ~Due(thread, unread', "geometry") /\ ~unread'.lost /\ session.lists.density =>
                      clientHas'.geometry = desk.geometry
                 /\ ~Due(thread, unread', "outputs") /\ ~unread'.lost /\ session.lists.outputs =>
                      clientHas'.displays = desk.displays
                 /\ ~Due(thread, unread', "cursor") /\ ~unread'.lagged =>
                      a \/ clientHas'.cursor = desk.cursor
      BY <2>3, <2>4, <2>6, <2>7, <3>1, <3>3
    <3>4. QED
      BY <3>2, <3>3 DEF Told
  <2>9. QED
    BY <1>1, <1>2, <1>3, <2>3, <2>5, <2>7, <2>8, SessionInv
<1>6. QED
  BY <1>4, <1>5 DEF EventReceived

LEMMA UpdateInv ==
  ASSUME SessionsInv, Update
  PROVE  SessionsInv'
<1>1. /\ desk \in DeskType /\ asked \in Seq(CommandType) /\ session \in SessionType
      /\ unread \in [queue : Seq(Change), lagged : BOOLEAN, lost : BOOLEAN]
      /\ clientHas \in ClientType /\ happenings \in Nat
      /\ Told(thread, desk, session, unread, clientHas) /\ Found(thread, desk, session)
  BY NowIs
<1>2. /\ session.phase = "up" /\ UNCHANGED <<thread, desk, asked, unread, happenings>>
      /\ clientHas' = [clientHas EXCEPT !.cursor = IF session.announce_cursor THEN desk.cursor ELSE @,
                                        !.eds = IF session.announce_eds THEN session.size ELSE @]
  BY DEF Update, Up
<1>3. PICK framed \in BOOLEAN :
        session' = [session EXCEPT !.announce_cursor = FALSE, !.announce_eds = FALSE,
                                   !.pending = FALSE, !.fence = framed]
  BY DEF Update
<1>4. /\ session' \in SessionType /\ session'.phase = session.phase
      /\ session'.lists = session.lists /\ ~session'.announce_cursor
      /\ session'.found = session.found /\ session'.by = session.by
      /\ session'.left = session.left /\ session'.size = session.size
  BY <1>1, <1>3 DEF SessionType
<1>5. PICK c, z : /\ c = IF session.announce_cursor THEN desk.cursor ELSE clientHas.cursor
                  /\ z = IF session.announce_eds THEN session.size ELSE clientHas.eds
  OBVIOUS
<1>6. c \in Image /\ z \in Outputs \cup {NoOutput}
  <2>1. desk.cursor \in Image /\ session.size \in Outputs \cup {NoOutput}
    BY <1>1 DEF DeskType, SessionType
  <2>2. clientHas.cursor \in Image /\ clientHas.eds \in Outputs \cup {NoOutput}
    BY <1>1 DEF ClientType
  <2>3. QED
    BY <1>5, <2>1, <2>2
<1>7. clientHas' = [clientHas EXCEPT !.cursor = c, !.eds = z]
  BY <1>2, <1>5
<1>8. /\ clientHas' \in ClientType /\ clientHas'.cursor = c
      /\ clientHas'.geometry = clientHas.geometry /\ clientHas'.displays = clientHas.displays
  BY <1>1, <1>6, <1>7 DEF ClientType
<1>9. Told(thread, desk, session', unread, clientHas')
  BY <1>1, <1>2, <1>4, <1>5, <1>8 DEF Told
<1>10. Found(thread, desk, session')
  BY <1>1, <1>4 DEF Found
<1>11. QED
  BY <1>1, <1>2, <1>4, <1>8, <1>9, <1>10, SessionInv

LEMMA EndsInv ==
  ASSUME SessionsInv, HandshakeEnds \/ WaitEnds \/ SessionEnds
  PROVE  SessionsInv'
<1>1. SessionOver /\ UNCHANGED <<thread, desk, unread, clientHas, happenings>>
  BY DEF HandshakeEnds, WaitEnds, SessionEnds
<1>2. /\ unread \in [queue : Seq(Change), lagged : BOOLEAN, lost : BOOLEAN]
      /\ clientHas \in ClientType /\ happenings \in Nat
  BY NowIs
<1>3. QED
  BY <1>1, <1>2, OverInv

-----------------------------------------------------------------------------
(* The specification keeps it.                                             *)

LEMMA BeginsWith ==
  ASSUME SessionsInit
  PROVE  SessionsInv
<1>0. PICK outputs \in (SUBSET Outputs) \ {{}} :
        \E at, scale :
          /\ at = IF Wanted \in outputs THEN Wanted ELSE CHOOSE o \in outputs : TRUE
          /\ scale = [o \in Outputs |-> CHOOSE s \in Densities : TRUE]
          /\ thread = [outputs |-> outputs, selected |-> at, by |-> "adopted",
                       scale |-> scale, todo |-> <<>>]
  BY DEF SessionsInit
<1>1. PICK at, scale :
        /\ at = IF Wanted \in outputs THEN Wanted ELSE CHOOSE o \in outputs : TRUE
        /\ scale = [o \in Outputs |-> CHOOSE s \in Densities : TRUE]
        /\ thread = [outputs |-> outputs, selected |-> at, by |-> "adopted",
                     scale |-> scale, todo |-> <<>>]
  BY <1>0
<1>2. PICK holder \in {0, EARLIER} :
        desk = [framebuffer |-> thread.selected, cursor |-> NoImage, holder |-> holder, by |-> thread.by,
                geometry |-> Geometry(thread, NoOutput), displays |-> Displays(thread)]
  BY DEF SessionsInit
<1>3. at \in outputs /\ at \in Outputs /\ outputs \in SUBSET Outputs /\ at # NoOutput
  BY <1>1, SessionsAssumption
<1>4. scale \in [Outputs -> Densities]
  <2>1. (CHOOSE s \in Densities : TRUE) \in Densities
    BY SessionsAssumption
  <2>2. QED
    BY <1>1, <2>1
<1>5. /\ thread \in ThreadType /\ thread.selected = at /\ thread.by = "adopted"
      /\ thread.todo = <<>> /\ thread.outputs = outputs /\ thread.scale = scale
  <2>1. PICK q : q = <<>>
    OBVIOUS
  <2>2. q \in Seq(Step)
    BY <2>1
  <2>3. thread = [outputs |-> outputs, selected |-> at, by |-> "adopted",
                  scale |-> scale, todo |-> q]
    BY <1>1, <2>1
  <2>4. QED
    BY <1>3, <1>4, <2>1, <2>2, <2>3 DEF ThreadType, Chooser
<1>6. Geometry(thread, NoOutput) \in Drawn
  <2>1. Geometry(thread, NoOutput) = [of |-> at, scale |-> scale[at]]
    BY <1>3, <1>5 DEF Geometry
  <2>2. scale[at] \in Densities
    BY <1>3, <1>4
  <2>3. QED
    BY <1>3, <2>1, <2>2 DEF Drawn
<1>7. /\ Displays(thread) \in Lists /\ Displays(thread).active = at
      /\ Listed(Displays(thread)) = outputs
  BY <1>5, DisplaysIs
<1>8. /\ desk \in DeskType /\ desk.framebuffer = at /\ desk.by = "adopted"
      /\ desk.displays = Displays(thread)
  <2>1. PICK g, d : g = Geometry(thread, NoOutput) /\ d = Displays(thread)
    OBVIOUS
  <2>2. desk = [framebuffer |-> at, cursor |-> NoImage, holder |-> holder, by |-> "adopted",
                geometry |-> g, displays |-> d]
    BY <1>2, <1>5, <2>1
  <2>3. g \in Drawn /\ d \in Lists /\ NoImage \in Image /\ "adopted" \in Chooser
    BY <1>6, <1>7, <2>1 DEF Image, Chooser
  <2>4. QED
    BY <1>3, <2>1, <2>2, <2>3 DEF DeskType
<1>9. /\ session \in SessionType /\ session.phase = "version" /\ session.found = "unasked"
      /\ session.lists = NoList
  <2>1. session = [phase |-> "version", found |-> "unasked", by |-> "nobody", left |-> FALSE,
                   size |-> NoOutput, arrivals |-> 0, lists |-> NoList, pending |-> FALSE,
                   fence |-> FALSE, announce_cursor |-> FALSE, announce_eds |-> FALSE]
    BY DEF SessionsInit
  <2>2. QED
    BY <2>1 DEF SessionType, HandshakeSteps
<1>10. /\ unread \in [queue : Seq(Change), lagged : BOOLEAN, lost : BOOLEAN]
       /\ asked \in Seq(CommandType) /\ happenings \in Nat
  <2>1. PICK q : q = <<>>
    OBVIOUS
  <2>2. q \in Seq(Change) /\ q \in Seq(CommandType)
    BY <2>1
  <2>3. unread = [queue |-> q, lagged |-> FALSE, lost |-> FALSE] /\ asked = q /\ happenings = 0
    BY <2>1 DEF SessionsInit
  <2>4. QED
    BY <2>2, <2>3
<1>11. clientHas \in ClientType
  BY DEF SessionsInit, ClientType, Image
<1>12. Told(thread, desk, session, unread, clientHas)
  BY <1>9 DEF Told, NoList
<1>13. Found(thread, desk, session)
  BY <1>9 DEF Found
<1>14. Runs(thread, desk)
  <2>1. \A op : ~Does(thread.todo, op)
    BY <1>5 DEF Does
  <2>2. DOMAIN thread.todo = {} /\ 1 .. Len(thread.todo) = {}
    BY <1>5
  <2>3. Ordered(thread.todo) /\ Moves(thread, desk, at)
    BY <2>2 DEF Ordered, Moves
  <2>4. Wanted \in outputs => at = Wanted
    BY <1>1
  <2>5. QED
    BY <1>3, <1>5, <1>7, <1>8, <2>1, <2>3, <2>4 DEF Runs
<1>15. QED
  BY <1>5, <1>8, <1>9, <1>10, <1>11, <1>12, <1>13, <1>14 DEF SessionsInv, SessionsTypeOK

LEMMA NextKeeps ==
  ASSUME SessionsInv, [SessionsNext]_sessionsVars
  PROVE  SessionsInv'
<1>1. CASE UNCHANGED sessionsVars
  BY <1>1 DEF sessionsVars, SessionsInv, SessionsTypeOK
<1>2. CASE Proceed
  BY <1>2, ProceedInv
<1>3. CASE Appears
  BY <1>3, AppearsInv
<1>4. CASE Disappears
  BY <1>4, DisappearsInv
<1>5. CASE Rescaled
  BY <1>5, RescaledInv
<1>6. CASE CursorChanges
  BY <1>6, CursorChangesInv
<1>7. CASE HandleCommand
  BY <1>7, HandleCommandInv
<1>8. CASE OthersCommand
  BY <1>8, OthersCommandInv
<1>9. CASE Handshake
  BY <1>9, HandshakeInv
<1>10. CASE WaitsForOutput \/ Looks \/ WaitIsOver
  BY <1>10, WaitInv
<1>11. CASE Arrives
  BY <1>11, ArrivesInv
<1>12. CASE ServerInit
  BY <1>12, ServerInitInv
<1>13. CASE SetEncodings
  BY <1>13, SetEncodingsInv
<1>14. CASE Request \/ FenceEchoed
  BY <1>14, RequestInv
<1>15. CASE SelectOutput
  BY <1>15, SelectOutputInv
<1>16. CASE EventReceived
  BY <1>16, EventInv
<1>17. CASE Update
  BY <1>17, UpdateInv
<1>18. CASE HandshakeEnds \/ WaitEnds \/ SessionEnds
  BY <1>18, EndsInv
<1>19. QED
  BY <1>1, <1>2, <1>3, <1>4, <1>5, <1>6, <1>7, <1>8, <1>9, <1>10, <1>11, <1>12, <1>13,
     <1>14, <1>15, <1>16, <1>17, <1>18 DEF SessionsNext

(* In every state, what the compositor's thread shares is in the order that a   *)
(* session reads it by - the framebuffer follows the selection, and the list of *)
(* outputs both (compositor.rs, share_output) - every change is to be announced, *)
(* unread or told, and every variable has its type.                             *)
THEOREM SessionsSafe == SessionsSpec => []SessionsInv
<1>1. SessionsInit => SessionsInv
  BY BeginsWith
<1>2. SessionsInv /\ [SessionsNext]_sessionsVars => SessionsInv'
  BY NextKeeps
<1>3. QED
  BY <1>1, <1>2, PTL DEF SessionsSpec

(* What the wait for the configured output finds is so: an output that is here  *)
(* while the desktop is on another is one a client chose to be away from, and   *)
(* one that is found shared has given ServerInit its size, unless the desktop   *)
(* has left it since (session.rs, Arrival and output_shared; outputs.rs, the    *)
(* first `done` of an output).                                                  *)
THEOREM WaitFindsTrue == SessionsSpec => []WaitIsTrue
<1>1. SessionsInv => WaitIsTrue
  BY DEF SessionsInv, Found, WaitIsTrue, Up
<1>2. QED
  BY <1>1, SessionsSafe, PTL

(* What the client was last told of the geometry, the outputs and the cursor is *)
(* how they are, once no handler is in the middle and no event of them unread,  *)
(* whatever the broadcast has lost of the others (session.rs, handle_event).    *)
THEOREM ToldStaysCurrent == SessionsSpec => []ToldIsCurrent
<1>1. ASSUME SessionsInv PROVE ToldIsCurrent
  <2>1. \A e : Announced(e) => ~Due(thread, unread, e) /\ ~unread.lagged
    BY NothingDue DEF Announced, Within
  <2>2. Told(thread, desk, session, unread, clientHas)
    BY <1>1, NowIs
  <2>3. QED
    BY <2>1, <2>2 DEF Told, ToldIsCurrent, Up
<1>2. QED
  BY <1>1, SessionsSafe, PTL

-----------------------------------------------------------------------------
(***************************************************************************)
(* The quality walk of a session.                                          *)
(***************************************************************************)

-----------------------------------------------------------------------------
(* The inductive invariant: the refusal the walk remembers is the one that *)
(* was, as old, and it caps the dial under the quality that was refused.   *)

Dial == Floor .. CEILING

Lag == Nat \cup {NoLag}

Verdicts == Seq(BOOLEAN)
ClearRuns     == [count : 0 .. CLEAR_FRAMES, age : Nat, most : Lag]
Steps    == [from : Nat, age : 0 .. Never]
Refusals == [cap : Nat, age : 0 .. Never]

WalkType ==
  [lagAware : BOOLEAN, quality : Dial, slow : 0 .. SLOW_MAX,
   verdicts : Verdicts, clear : ClearRuns, changed : Nat, held : Nat, reclaim : Nat,
   reclaimed : Steps, refused : Refusals, steppedOn : Lag, climbed : BOOLEAN]

Denials == [quality : Nat, age : 0 .. Never]

\* Where a step up left from is under the quality it went to.
StepsUp(w) == Reclaimed(w) => w.reclaimed.from \in Dial /\ w.reclaimed.from < w.quality

\* What was refused, d, is capped.
Capped(w, d) ==
  d.age < REFUSAL_HOLD =>
    w.refused.age = d.age /\ w.refused.cap < d.quality /\ w.quality < d.quality

WalkGood(w, d) == w \in WalkType /\ d \in Denials /\ StepsUp(w) /\ Capped(w, d)

WalkInv == WalkGood(walk, denied)
-----------------------------------------------------------------------------
(* Steps of the dial.                                                      *)

\* The dial is not empty, and durations are durations.
LEMMA DialIs ==
  /\ Floor \in Nat /\ CEILING \in Nat /\ Floor <= CEILING /\ SLOW_MAX \in Nat
  /\ STEP_DOWN \in Nat /\ STEP_UP \in Nat /\ STEP_UP_MAX \in Nat
  /\ Never \in Nat \ {0} /\ Never = REFUSAL_HOLD
  /\ REFUSAL_WINDOW \in Nat /\ REFUSAL_WINDOW + 1 < Never
  /\ \A q \in Dial : q \in Nat /\ Floor <= q /\ q <= CEILING
BY WalkAssumption DEF Floor, Smaller, Dial, Never

\* The empty sequence, and one with one more element and perhaps one less.
LEMMA Shown ==
  ASSUME NEW S
  PROVE  /\ <<>> \in Seq(S)
         /\ \A s \in Seq(S), e \in S : /\ Append(s, e) \in Seq(S)
                                       /\ Tail(Append(s, e)) \in Seq(S)
<1>1. <<>> \in Seq(S)
  OBVIOUS
<1>2. ASSUME NEW s \in Seq(S), NEW e \in S
      PROVE  Append(s, e) \in Seq(S) /\ Append(s, e) # <<>>
  <2>1. Append(s, e) \in Seq(S)
    OBVIOUS
  <2>2. Len(Append(s, e)) = Len(s) + 1 /\ Len(s) \in Nat /\ Len(<<>>) = 0
    OBVIOUS
  <2>3. QED
    BY <2>1, <2>2
<1>3. ASSUME NEW s \in Seq(S), s # <<>>
      PROVE  Tail(s) \in Seq(S)
  BY <1>3
<1>4. QED
  BY <1>1, <1>2, <1>3, Zenon

\* No verdicts, no run, no step up and no lag are of their types.
LEMMA NoneIs ==
  /\ <<>> \in Verdicts
  /\ NoRun \in ClearRuns /\ NoLag \in Lag
  /\ NoReclaimed \in Steps /\ NoReclaimed.age = Never
<1>1. <<>> \in Verdicts
  BY Shown, Zenon DEF Verdicts
<1>2. NoRun \in ClearRuns /\ NoLag \in Lag
  BY WalkAssumption DEF NoRun, ClearRuns, NoLag, Lag
<1>3. NoReclaimed \in Steps /\ NoReclaimed.age = Never
  BY WalkAssumption DEF NoReclaimed, Steps, Never
<1>4. QED
  BY <1>1, <1>2, <1>3

\* The verdicts and the run of clear frames are not of the dial.
Heard(w, vs, c) == [w EXCEPT !.verdicts = vs, !.clear = c]

LEMMA HeardGood ==
  ASSUME NEW w, NEW d, WalkGood(w, d), NEW vs \in Verdicts,
         NEW c \in ClearRuns, NEW R, R = Heard(w, vs, c)
  PROVE  /\ WalkGood(R, d)
         /\ R.quality = w.quality /\ R.reclaimed = w.reclaimed /\ R.refused = w.refused
<1>1. R \in WalkType
  BY DEF WalkGood, WalkType, Heard
<1>2. R.quality = w.quality /\ R.reclaimed = w.reclaimed /\ R.refused = w.refused
  BY DEF WalkGood, WalkType, Heard
<1>3. QED
  BY <1>1, <1>2 DEF WalkGood, StepsUp, Capped, Reclaimed

\* What is queued drains.
Drained(w, lag) == [w EXCEPT !.steppedOn = lag, !.changed = 0]

LEMMA SteppedGood ==
  ASSUME NEW w, NEW d, WalkGood(w, d), NEW lag \in Lag,
         NEW R, R = Drained(w, lag)
  PROVE  WalkGood(R, d) /\ R.quality = w.quality
<1>1. R \in WalkType
  BY DEF WalkGood, WalkType, Drained
<1>2. R.quality = w.quality /\ R.reclaimed = w.reclaimed /\ R.refused = w.refused
  BY DEF WalkGood, WalkType, Drained
<1>3. QED
  BY <1>1, <1>2 DEF WalkGood, StepsUp, Capped, Reclaimed

LEMMA MovedGood ==
  ASSUME NEW w, NEW d, WalkGood(w, d), NEW R, R = Moved(w)
  PROVE  WalkGood(R, d) /\ R.quality = w.quality
<1>1. PICK vs, run, v : vs = <<>> /\ run = NoRun /\ v = Heard(w, vs, run)
  OBVIOUS
<1>2. vs \in Verdicts /\ run \in ClearRuns
  BY <1>1, NoneIs
<1>3. WalkGood(v, d) /\ v.quality = w.quality
  <2>1. WalkGood(v, d)
    BY <1>1, <1>2, HeardGood
  <2>2. v.quality = w.quality
    BY <1>1, <1>2, <2>1, HeardGood
  <2>3. QED
    BY <2>1, <2>2
<1>4. R = [v EXCEPT !.changed = 0]
  BY <1>1 DEF Moved, Heard
<1>5. R \in WalkType
  BY <1>3, <1>4 DEF WalkGood, WalkType
<1>6. R.quality = v.quality /\ R.reclaimed = v.reclaimed /\ R.refused = v.refused
  BY <1>3, <1>4 DEF WalkGood, WalkType
<1>7. QED
  BY <1>3, <1>5, <1>6 DEF WalkGood, StepsUp, Capped, Reclaimed

\* A step down from a step up is a refusal: it goes back to where that left
\* from, and half of it is out of reach.
LEMMA RefusedGood ==
  ASSUME NEW w, NEW d, WalkGood(w, d), Refusal(w), NEW lag \in Lag, NEW soon \in BOOLEAN,
         NEW R, R = GiveUp(w, lag, soon)
  PROVE  /\ R.quality < w.quality
         /\ WalkGood(R, [quality |-> w.quality, age |-> 0])
<1>1. PICK from, q : from = w.reclaimed.from /\ q = w.quality
  OBVIOUS
<1>2. /\ from \in Dial /\ q \in Dial /\ from < q /\ w \in WalkType
  BY <1>1 DEF WalkGood, StepsUp, Refusal, WalkType
<1>3. PICK cap : cap = from + (q - from) \div 2
  OBVIOUS
<1>4. cap \in Nat /\ cap < q
  BY <1>2, <1>3, DialIs
<1>5. PICK steps, slow :
        /\ steps = IF lag >= LAG_SEVERE THEN 3 ELSE IF lag >= LAG_HEAVY THEN 2 ELSE 1
        /\ slow = IF (w.quality <= Floor \/ (steps = 3 /\ ~soon)) /\ w.slow < SLOW_MAX
                  THEN w.slow + 1 ELSE w.slow
  OBVIOUS
<1>6. Smaller(q, from) = from
  BY <1>2, DialIs DEF Smaller
<1>7. R = [w EXCEPT !.refused = [cap |-> cap, age |-> 0], !.quality = from, !.slow = slow,
                    !.reclaim = STEP_UP, !.reclaimed = NoReclaimed,
                    !.climbed = FALSE, !.steppedOn = lag]
  BY <1>1, <1>3, <1>5, <1>6 DEF GiveUp
<1>8. slow \in 0 .. SLOW_MAX
  <2>1. w.slow \in 0 .. SLOW_MAX
    BY <1>2 DEF WalkType
  <2>2. QED
    BY <1>5, <2>1, DialIs
<1>9. R \in WalkType
  <2>1. PICK refused : refused = [cap |-> cap, age |-> 0]
    OBVIOUS
  <2>2. refused \in Refusals
    BY <1>4, <2>1, DialIs DEF Refusals
  <2>3. STEP_UP \in Nat /\ NoReclaimed \in Steps
    BY DialIs, NoneIs
  <2>4. QED
    BY ZenonT(60), <1>2, <1>7, <1>8, <2>1, <2>2, <2>3 DEF WalkType
<1>10. /\ R.quality = from /\ R.reclaimed.age = Never
       /\ R.refused.cap = cap /\ R.refused.age = 0
  BY <1>2, <1>7 DEF WalkType, NoReclaimed
<1>11. StepsUp(R)
  BY <1>10, DialIs DEF StepsUp, Reclaimed
<1>12. PICK e : e = [quality |-> w.quality, age |-> 0]
  OBVIOUS
<1>13. e \in Denials /\ e.quality = q /\ e.age = 0
  BY <1>1, <1>2, <1>12, DialIs DEF Denials
<1>14. Capped(R, e)
  BY <1>2, <1>4, <1>10, <1>13 DEF Capped
<1>15. QED
  BY <1>1, <1>2, <1>9, <1>10, <1>11, <1>12, <1>13, <1>14 DEF WalkGood

\* Any other step down leaves what is remembered of a refusal.
LEMMA GivenGood ==
  ASSUME NEW w, NEW d, WalkGood(w, d), ~Refusal(w), NEW lag \in Lag, NEW soon \in BOOLEAN,
         NEW R, R = GiveUp(w, lag, soon)
  PROVE  WalkGood(R, d)
<1>1. PICK q : q = w.quality
  OBVIOUS
<1>2. /\ q \in Dial /\ w \in WalkType /\ w.slow \in 0 .. SLOW_MAX
  BY <1>1 DEF WalkGood, WalkType
<1>3. PICK steps, slow, less :
        /\ steps = IF lag >= LAG_SEVERE THEN 3 ELSE IF lag >= LAG_HEAVY THEN 2 ELSE 1
        /\ slow = IF (w.quality <= Floor \/ (steps = 3 /\ ~soon)) /\ w.slow < SLOW_MAX
                  THEN w.slow + 1 ELSE w.slow
        /\ less = IF q <= Floor THEN q ELSE Larger(q - STEP_DOWN * steps, Floor)
  OBVIOUS
<1>4. R = [w EXCEPT !.refused = w.refused, !.quality = less, !.slow = slow,
                    !.reclaim = STEP_UP, !.reclaimed = NoReclaimed,
                    !.climbed = FALSE, !.steppedOn = lag]
  BY <1>1, <1>3 DEF GiveUp
<1>5. slow \in 0 .. SLOW_MAX
  BY <1>2, <1>3, DialIs
<1>6. less \in Dial /\ less <= q
  <2>1. steps \in {1, 2, 3}
    BY <1>3
  <2>2. STEP_DOWN * steps \in Nat
    BY <2>1, DialIs
  <2>3. QED
    BY <1>2, <1>3, <2>2, DialIs DEF Larger, Dial
<1>7. STEP_UP \in Nat /\ NoReclaimed \in Steps /\ NoReclaimed.age = Never
  BY DialIs, NoneIs
<1>8. R \in WalkType
  BY <1>2, <1>4, <1>5, <1>6, <1>7 DEF WalkType
<1>9. R.quality = less /\ R.refused = w.refused /\ R.reclaimed = NoReclaimed
  BY <1>2, <1>4 DEF WalkType
<1>10. StepsUp(R)
  BY <1>7, <1>9, DialIs DEF StepsUp, Reclaimed
<1>11. Capped(R, d)
  <2>1. /\ d.age < REFUSAL_HOLD => w.refused.age = d.age /\ w.refused.cap < d.quality
                                   /\ q < d.quality
        /\ d.quality \in Nat
    BY <1>1 DEF WalkGood, Capped, Denials
  <2>2. QED
    BY <1>2, <1>6, <1>9, <2>1, DialIs DEF Capped
<1>12. QED
  BY <1>8, <1>10, <1>11 DEF WalkGood

\* A step up stays under what was refused, for as long as that holds.
LEMMA TakenGood ==
  ASSUME NEW w, NEW d, WalkGood(w, d), NEW R, R = TakeBack(w)
  PROVE  WalkGood(R, d) /\ R.quality >= w.quality
<1>1. PICK q, refused, ceiling, wanted :
        /\ q = w.quality
        /\ refused = IF w.refused.age >= REFUSAL_HOLD
                     THEN [cap |-> CEILING, age |-> Never] ELSE w.refused
        /\ ceiling = Smaller(refused.cap, CEILING)
        /\ wanted = Smaller(w.quality + w.reclaim, ceiling)
  OBVIOUS
<1>2. PICK reclaim :
        reclaim = IF wanted = ceiling /\ ceiling < CEILING THEN STEP_UP
                  ELSE Smaller(2 * w.reclaim, STEP_UP_MAX)
  OBVIOUS
<1>3. /\ q \in Dial /\ w \in WalkType /\ w.slow \in 0 .. SLOW_MAX
      /\ w.reclaim \in Nat /\ w.refused \in Refusals
      /\ w.refused.cap \in Nat /\ w.refused.age \in 0 .. Never
  BY <1>1 DEF WalkGood, WalkType, Refusals
<1>4. refused \in Refusals /\ refused.cap \in Nat
  <2>1. [cap |-> CEILING, age |-> Never] \in Refusals
    BY DialIs DEF Refusals
  <2>2. refused \in Refusals
    BY <1>1, <1>3, <2>1
  <2>3. QED
    BY <2>2 DEF Refusals
<1>5. /\ ceiling \in Nat /\ ceiling <= refused.cap /\ ceiling <= CEILING
      /\ wanted \in Nat /\ wanted <= ceiling
  BY <1>1, <1>3, <1>4, DialIs DEF Smaller
<1>6. reclaim \in Nat
  <2>1. STEP_UP \in Nat /\ STEP_UP_MAX \in Nat /\ 2 * w.reclaim \in Nat
    BY <1>3, DialIs
  <2>2. QED
    BY <1>2, <2>1 DEF Smaller
<1>7. /\ d.quality \in Nat
      /\ d.age < REFUSAL_HOLD => /\ w.refused.age = d.age /\ w.refused.cap < d.quality
                                 /\ q < d.quality
  BY <1>1 DEF WalkGood, Capped, Denials
<1>8. /\ d.age \in 0 .. Never
      /\ d.age < REFUSAL_HOLD => refused.age = d.age /\ refused.cap < d.quality
  <2>1. d.age \in 0 .. Never
    BY DEF WalkGood, Denials
  <2>2. d.age < REFUSAL_HOLD => refused = w.refused
    BY <1>1, <1>3, <1>7, <2>1, DialIs
  <2>3. QED
    BY <1>7, <2>1, <2>2
<1>9. StepsUp(w)
  BY DEF WalkGood
<1>10. CASE w.slow > 0
  <2>1. PICK slow : slow = w.slow - 1
    OBVIOUS
  <2>2. slow \in 0 .. SLOW_MAX
    BY <1>3, <1>10, <2>1, DialIs
  <2>3. R = [w EXCEPT !.slow = slow, !.steppedOn = NoLag, !.climbed = TRUE]
    BY <1>3, <1>10, <2>1, DialIs DEF TakeBack
  <2>4. R \in WalkType
    BY <1>3, <2>2, <2>3, NoneIs DEF WalkType
  <2>5. R.quality = q /\ R.reclaimed = w.reclaimed /\ R.refused = w.refused
    BY <1>1, <1>3, <2>3 DEF WalkType
  <2>6. StepsUp(R)
    BY <1>1, <1>9, <2>5 DEF StepsUp, Reclaimed
  <2>7. Capped(R, d)
    BY <1>7, <2>5 DEF Capped
  <2>8. R.quality >= w.quality
    BY <1>1, <1>3, <2>5, DialIs
  <2>9. QED
    BY <2>4, <2>6, <2>7, <2>8 DEF WalkGood
<1>11. CASE w.slow = 0 /\ wanted <= q
  <2>1. R = [w EXCEPT !.refused = refused]
    BY <1>1, <1>11 DEF TakeBack
  <2>2. R \in WalkType
    BY <1>3, <1>4, <2>1 DEF WalkType
  <2>3. R.quality = q /\ R.reclaimed = w.reclaimed /\ R.refused = refused
    BY <1>1, <1>3, <2>1 DEF WalkType
  <2>4. StepsUp(R)
    BY <1>1, <1>9, <2>3 DEF StepsUp, Reclaimed
  <2>5. Capped(R, d)
    BY <1>7, <1>8, <2>3 DEF Capped
  <2>6. R.quality >= w.quality
    BY <1>1, <1>3, <2>3, DialIs
  <2>7. QED
    BY <2>2, <2>4, <2>5, <2>6 DEF WalkGood
<1>12. CASE w.slow = 0 /\ ~(wanted <= q)
  <2>1. PICK step : step = [from |-> q, age |-> 0]
    OBVIOUS
  <2>2. step \in Steps /\ step.from = q
    BY <1>3, <2>1, DialIs DEF Steps
  <2>3. R = [w EXCEPT !.refused = refused, !.quality = wanted, !.reclaim = reclaim,
                      !.reclaimed = step, !.steppedOn = NoLag, !.climbed = TRUE]
    BY <1>1, <1>2, <1>12, <2>1 DEF TakeBack
  <2>4. q < wanted /\ wanted \in Dial
    BY <1>3, <1>5, <1>12, DialIs DEF Dial
  <2>5. R \in WalkType
    BY <1>3, <1>4, <1>6, <2>2, <2>3, <2>4, NoneIs DEF WalkType
  <2>6. R.quality = wanted /\ R.reclaimed = step /\ R.refused = refused
    BY <1>3, <2>3 DEF WalkType
  <2>7. StepsUp(R)
    BY <1>3, <2>2, <2>4, <2>6 DEF StepsUp
  <2>8. d.age < REFUSAL_HOLD => wanted < d.quality
    BY <1>4, <1>5, <1>7, <1>8
  <2>9. Capped(R, d)
    BY <1>8, <2>6, <2>8 DEF Capped
  <2>10. R.quality >= w.quality
    BY <1>1, <1>3, <2>4, <2>6, DialIs
  <2>11. QED
    BY <2>5, <2>7, <2>9, <2>10 DEF WalkGood
<1>13. w.slow > 0 \/ w.slow = 0
  BY <1>3, DialIs
<1>14. QED
  BY <1>10, <1>11, <1>12, <1>13
-----------------------------------------------------------------------------
(* A verdict.                                                              *)

\* The run of clear frames keeps its type.
LEMMA RunIs ==
  ASSUME NEW w \in WalkType, NEW behind \in BOOLEAN, NEW lag \in Nat, NEW queued \in Lag
  PROVE  Run(w, behind, lag, queued) \in ClearRuns
<1>1. PICK r : r = w.clear /\ r \in ClearRuns
  BY DEF WalkType
<1>2. r.count \in 0 .. CLEAR_FRAMES /\ r.age \in Nat /\ r.most \in Lag
  BY <1>1 DEF ClearRuns
<1>3. CLEAR_FRAMES \in Nat \ {0} /\ NoRun \in ClearRuns
  BY WalkAssumption, NoneIs
<1>4. CASE behind
  BY <1>3, <1>4 DEF Run
<1>5. CASE ~behind /\ lag <= LAG_CLEAR /\ r.count = 0
  <2>1. Run(w, behind, lag, queued) = [count |-> 1, age |-> 0, most |-> queued]
    BY <1>1, <1>5 DEF Run
  <2>2. QED
    BY <1>3, <2>1 DEF ClearRuns
<1>6. CASE ~behind /\ lag <= LAG_CLEAR /\ r.count > 0
  <2>1. PICK count, most :
          /\ count = Smaller(r.count + 1, CLEAR_FRAMES)
          /\ most = IF NoLag \in {r.most, queued} THEN NoLag ELSE Larger(r.most, queued)
    OBVIOUS
  <2>2. count \in 0 .. CLEAR_FRAMES
    BY <1>2, <1>3, <2>1 DEF Smaller
  <2>3. most \in Lag
    BY <1>2, <2>1 DEF Larger, Lag
  <2>4. Run(w, behind, lag, queued) = [r EXCEPT !.count = count, !.most = most]
    BY <1>1, <1>2, <1>6, <2>1 DEF Run
  <2>5. QED
    BY <1>1, <2>2, <2>3, <2>4 DEF ClearRuns
<1>7. CASE ~behind /\ ~(lag <= LAG_CLEAR)
  <2>1. PICK most : most = IF r.most = NoLag THEN NoLag ELSE lag
    OBVIOUS
  <2>2. most \in Lag
    BY <2>1 DEF Lag
  <2>3. Run(w, behind, lag, queued) = [r EXCEPT !.most = most]
    BY <1>1, <1>7, <2>1 DEF Run
  <2>4. QED
    BY <1>1, <2>2, <2>3 DEF ClearRuns
<1>8. r.count = 0 \/ r.count > 0
  BY <1>2, <1>3
<1>9. QED
  BY <1>4, <1>5, <1>6, <1>7, <1>8

\* A verdict in, and the dial is as it was.
LEMMA JudgedGood ==
  ASSUME WalkGood(walk, denied), NEW behind \in BOOLEAN, NEW lag \in Nat, NEW queued \in Lag,
         NEW w, w = Judged(behind, lag, queued)
  PROVE  /\ WalkGood(w, denied)
         /\ w.quality = walk.quality /\ w.reclaimed = walk.reclaimed
<1>1. PICK shown, vs, run :
        /\ shown = Append(walk.verdicts, behind)
        /\ vs = IF Len(shown) > VERDICT_WINDOW THEN Tail(shown) ELSE shown
        /\ run = Run(walk, behind, lag, queued)
  OBVIOUS
<1>2. w = Heard(walk, vs, run)
  BY <1>1 DEF Judged, Heard
<1>3. walk \in WalkType /\ walk.verdicts \in Verdicts
  BY DEF WalkGood, WalkType
<1>4. run \in ClearRuns
  BY <1>1, <1>3, RunIs
<1>5. shown \in Verdicts /\ Tail(shown) \in Verdicts
  BY <1>1, <1>3, Shown, Zenon DEF Verdicts
<1>6. vs \in Verdicts
  BY <1>1, <1>5
<1>7. WalkGood(w, denied)
  BY <1>2, <1>4, <1>6, HeardGood
<1>8. w.quality = walk.quality /\ w.reclaimed = walk.reclaimed
  BY <1>2, <1>4, <1>6, <1>7, HeardGood
<1>9. QED
  BY <1>7, <1>8

\* What a verdict may make of the dial.
LEMMA DecidedIs ==
  ASSUME NEW w \in WalkType, NEW behind \in BOOLEAN, NEW lag,
         NEW R, R = Decided(w, behind, lag)
  PROVE  \/ R = w \/ R = Drained(w, lag)
         \/ \E soon \in BOOLEAN : R = GiveUp(w, lag, soon) \/ R = Moved(GiveUp(w, lag, soon))
         \/ R = TakeBack(w) \/ R = Moved(TakeBack(w))
<1>1. PICK soon \in BOOLEAN : soon = (w.changed < ADJUST_COOLDOWN)
  <2>1. w.changed \in Nat /\ ADJUST_COOLDOWN \in Nat
    BY WalkAssumption DEF WalkType
  <2>2. (w.changed < ADJUST_COOLDOWN) \in BOOLEAN
    BY <2>1
  <2>3. QED
    BY <2>2
<1>2. PICK given : given = GiveUp(w, lag, soon)
  OBVIOUS
<1>3. PICK taken : taken = TakeBack(w)
  OBVIOUS
<1>4. \/ R = w \/ R = Drained(w, lag)
      \/ R = given \/ R = Moved(given) \/ R = taken \/ R = Moved(taken)
  BY SMTT(60), <1>1, <1>2, <1>3 DEF Decided, Drained
<1>5. QED
  BY <1>1, <1>2, <1>3, <1>4

\* A frame: what is refused is capped, and the rest of the steps are within.
LEMMA DecidedGood ==
  ASSUME NEW w, NEW d, WalkGood(w, d), NEW behind \in BOOLEAN, NEW lag \in Nat,
         NEW R, R = Decided(w, behind, lag),
         NEW e, e = IF R.quality < w.quality /\ Refusal(w)
                    THEN [quality |-> w.quality, age |-> 0] ELSE d
  PROVE  WalkGood(R, e)
<1>1. w \in WalkType /\ w.quality \in Nat /\ lag \in Lag
  BY DialIs DEF WalkGood, WalkType, Lag
<1>2. CASE R.quality = w.quality /\ WalkGood(R, d)
  <2>1. e = d
    BY <1>1, <1>2
  <2>2. QED
    BY <1>2, <2>1
<1>3. CASE R = w
  BY <1>2, <1>3
<1>4. CASE R = Drained(w, lag)
  <2>1. WalkGood(R, d)
    BY <1>1, <1>4, SteppedGood
  <2>2. R.quality = w.quality
    BY <1>1, <1>4, <2>1, SteppedGood
  <2>3. QED
    BY <1>2, <2>1, <2>2
<1>5. ASSUME NEW v, R = v \/ R = Moved(v), NEW c, WalkGood(v, c)
      PROVE  WalkGood(R, c) /\ R.quality = v.quality
  <2>1. CASE R = v
    BY <1>5, <2>1
  <2>2. CASE R = Moved(v)
    <3>1. WalkGood(R, c)
      BY <1>5, <2>2, MovedGood
    <3>2. R.quality = v.quality
      BY <1>5, <2>2, <3>1, MovedGood
    <3>3. QED
      BY <3>1, <3>2
  <2>3. QED
    BY <1>5, <2>1, <2>2
<1>6. ASSUME NEW soon \in BOOLEAN,
             R = GiveUp(w, lag, soon) \/ R = Moved(GiveUp(w, lag, soon))
      PROVE  WalkGood(R, e)
  <2>1. PICK v : v = GiveUp(w, lag, soon)
    OBVIOUS
  <2>2. R = v \/ R = Moved(v)
    BY <1>6, <2>1
  <2>3. CASE Refusal(w)
    <3>1. PICK c : c = [quality |-> w.quality, age |-> 0]
      OBVIOUS
    <3>2. WalkGood(v, c)
      BY <1>1, <2>1, <2>3, <3>1, RefusedGood
    <3>3. v.quality < w.quality
      BY <1>1, <2>1, <2>3, <3>2, RefusedGood
    <3>4. WalkGood(R, c) /\ R.quality = v.quality
      BY <1>5, <2>2, <3>2
    <3>5. e = c
      BY <2>3, <3>1, <3>3, <3>4
    <3>6. QED
      BY <3>4, <3>5
  <2>4. CASE ~Refusal(w)
    <3>1. WalkGood(v, d)
      BY <1>1, <2>1, <2>4, GivenGood
    <3>2. WalkGood(R, d)
      BY <1>5, <2>2, <3>1
    <3>3. QED
      BY <2>4, <3>2
  <2>5. QED
    BY <2>3, <2>4
<1>7. CASE R = TakeBack(w) \/ R = Moved(TakeBack(w))
  <2>1. PICK v : v = TakeBack(w)
    OBVIOUS
  <2>2. WalkGood(v, d)
    BY <2>1, TakenGood
  <2>3. v.quality >= w.quality
    BY <2>1, <2>2, TakenGood
  <2>4. WalkGood(R, d) /\ R.quality = v.quality
    BY <1>5, <1>7, <2>1, <2>2
  <2>5. R.quality \in Nat
    BY <2>4, DialIs DEF WalkGood, WalkType
  <2>6. e = d
    BY <1>1, <2>3, <2>4, <2>5
  <2>7. QED
    BY <2>4, <2>6
<1>8. QED
  BY <1>1, <1>3, <1>4, <1>6, <1>7, DecidedIs

LEMMA FrameKeeps ==
  ASSUME WalkInv, NEW blocked \in Blocks, NEW measured \in Lags \cup {NoLag},
         Frame(blocked, measured)
  PROVE  WalkInv'
<1>1. PICK d : d = denied /\ WalkGood(walk, d)
  BY DEF WalkInv
<1>2. PICK R : R = Hear(blocked, measured)
  OBVIOUS
<1>3. walk' = R /\ denied' = IF R.quality < walk.quality /\ Refusal(walk)
                             THEN [quality |-> walk.quality, age |-> 0] ELSE d
  BY <1>1, <1>2 DEF Frame
<1>4. CASE walk.held > 0
  <2>1. R = walk
    BY <1>2, <1>4 DEF Hear
  <2>2. walk.quality \in Nat
    BY <1>1, DialIs DEF WalkGood, WalkType
  <2>3. denied' = d
    BY <1>3, <2>1, <2>2
  <2>4. QED
    BY <1>1, <1>3, <2>1, <2>3 DEF WalkInv
<1>5. CASE ~(walk.held > 0)
  <2>1. PICK queued, lag, behind :
          /\ queued = IF measured = NoLag \/ ~walk.lagAware THEN NoLag
                      ELSE Larger(measured, blocked)
          /\ lag = Larger(queued, blocked)
          /\ behind = (blocked >= BEHIND_BLOCK \/ queued >= LAG_BEHIND)
    OBVIOUS
  <2>2. blocked \in Nat /\ (measured \in Nat \/ measured = NoLag) /\ NoLag = -1
    BY WalkAssumption DEF NoLag
  <2>3. queued \in Nat \/ queued = NoLag
    BY <2>1, <2>2 DEF Larger
  <2>4. /\ queued \in Lag /\ lag \in Nat /\ behind \in BOOLEAN
    BY <2>1, <2>2, <2>3 DEF Lag, Larger, BEHIND_BLOCK, LAG_BEHIND
  <2>5. PICK w : w = Judged(behind, lag, queued)
    OBVIOUS
  <2>6. R = Decided(w, behind, lag)
    BY <1>2, <1>5, <2>1, <2>5 DEF Hear
  <2>7. WalkGood(w, denied)
    BY <1>1, <2>4, <2>5, JudgedGood
  <2>8. w.quality = walk.quality /\ w.reclaimed = walk.reclaimed
    BY <1>1, <2>4, <2>5, <2>7, JudgedGood
  <2>9. Refusal(w) <=> Refusal(walk)
    BY <2>8 DEF Refusal, Reclaimed
  <2>10. denied' = IF R.quality < w.quality /\ Refusal(w)
                   THEN [quality |-> w.quality, age |-> 0] ELSE d
    BY <1>3, <2>8, <2>9
  <2>11. WalkGood(R, denied')
    BY <1>1, <2>4, <2>6, <2>7, <2>10, DecidedGood
  <2>12. QED
    BY <1>3, <2>11 DEF WalkInv
<1>6. QED
  BY <1>4, <1>5
-----------------------------------------------------------------------------
(* The other steps, and the theorems.                                      *)

LEMMA SettleKeeps ==
  ASSUME WalkInv, Settle
  PROVE  WalkInv'
<1>1. PICK vs, run, none, step, w :
        /\ vs = <<>> /\ run = NoRun /\ none = NoLag /\ step = NoReclaimed
        /\ w = Heard(walk, vs, run)
  OBVIOUS
<1>2. vs \in Verdicts /\ run \in ClearRuns /\ none \in Lag /\ step \in Steps /\ step.age = Never
  BY <1>1, NoneIs
<1>3. WalkGood(w, denied)
  BY <1>1, <1>2, HeardGood DEF WalkInv
<1>4. walk' = [w EXCEPT !.changed = 0, !.steppedOn = none, !.reclaimed = step,
                        !.climbed = FALSE]
  BY <1>1 DEF Settle, Heard
<1>5. walk' \in WalkType
  BY <1>2, <1>3, <1>4 DEF WalkGood, WalkType
<1>6. walk'.quality = w.quality /\ walk'.refused = w.refused /\ walk'.reclaimed = step
  BY <1>3, <1>4 DEF WalkGood, WalkType
<1>7. StepsUp(walk')
  BY <1>2, <1>6, DialIs DEF StepsUp, Reclaimed
<1>8. denied' = denied
  BY DEF Settle
<1>9. QED
  BY <1>3, <1>5, <1>6, <1>7, <1>8 DEF WalkInv, WalkGood, Capped

LEMMA KeyframeKeeps ==
  ASSUME WalkInv, Keyframe
  PROVE  WalkInv'
<1>1. PICK vs, run, none, w :
        /\ vs = <<>> /\ run = NoRun /\ none = NoLag
        /\ w = Heard(walk, vs, run)
  OBVIOUS
<1>2. vs \in Verdicts /\ run \in ClearRuns /\ none \in Lag /\ KEYFRAME_HOLD \in Nat
  BY <1>1, NoneIs, WalkAssumption
<1>3. WalkGood(w, denied)
  BY <1>1, <1>2, HeardGood DEF WalkInv
<1>4. walk' = [w EXCEPT !.steppedOn = none, !.held = KEYFRAME_HOLD]
  BY <1>1 DEF Keyframe, Heard
<1>5. walk' \in WalkType
  BY <1>2, <1>3, <1>4 DEF WalkGood, WalkType
<1>6. /\ walk'.quality = w.quality /\ walk'.refused = w.refused
      /\ walk'.reclaimed = w.reclaimed
  BY <1>3, <1>4 DEF WalkGood, WalkType
<1>7. denied' = denied
  BY DEF Keyframe
<1>8. QED
  BY <1>3, <1>5, <1>6, <1>7 DEF WalkInv, WalkGood, StepsUp, Capped, Reclaimed

\* The refusal the walk remembers and the one that was grow old together.
LEMMA TickKeeps ==
  ASSUME WalkInv, Tick
  PROVE  WalkInv'
<1>1. /\ walk \in WalkType /\ denied \in Denials /\ StepsUp(walk) /\ Capped(walk, denied)
  BY DEF WalkInv, WalkGood
<1>2. PICK run, step, refused :
        run = walk.clear /\ step = walk.reclaimed /\ refused = walk.refused
  OBVIOUS
<1>3. /\ run \in ClearRuns /\ step \in Steps /\ refused \in Refusals
      /\ run.age \in Nat /\ run.count \in 0 .. CLEAR_FRAMES
      /\ step.age \in 0 .. Never /\ step.from \in Nat
      /\ refused.age \in 0 .. Never /\ refused.cap \in Nat
      /\ walk.changed \in Nat /\ walk.held \in Nat
  BY <1>1, <1>2 DEF WalkType, ClearRuns, Steps, Refusals
<1>4. PICK changed, held, clear, reclaimed, aged :
        /\ changed = Older(walk.changed, ADJUST_COOLDOWN)
        /\ held = Larger(walk.held - 1, 0)
        /\ clear = IF run.count = 0 THEN 0 ELSE Older(run.age, CLEAR_SPAN)
        /\ reclaimed = IF step.age = Never THEN step.age ELSE Older(step.age, REFUSAL_WINDOW + 1)
        /\ aged = Older(refused.age, REFUSAL_HOLD)
  OBVIOUS
<1>5. ADJUST_COOLDOWN \in Nat /\ CLEAR_SPAN \in Nat
  BY WalkAssumption
<1>6. /\ changed \in Nat /\ held \in Nat /\ clear \in Nat
      /\ reclaimed \in 0 .. Never /\ (reclaimed < Never => step.age < Never)
      /\ aged \in 0 .. Never /\ aged = Smaller(refused.age + 1, REFUSAL_HOLD)
  BY <1>3, <1>4, <1>5, DialIs DEF Older, Smaller, Larger
<1>7. PICK r, s, f :
        /\ r = [run EXCEPT !.age = clear] /\ s = [step EXCEPT !.age = reclaimed]
        /\ f = [refused EXCEPT !.age = aged]
  OBVIOUS
<1>8. /\ r \in ClearRuns /\ s \in Steps /\ f \in Refusals
      /\ s.from = step.from /\ s.age = reclaimed /\ f.cap = refused.cap /\ f.age = aged
  BY <1>3, <1>6, <1>7 DEF ClearRuns, Steps, Refusals
<1>9. walk' = [walk EXCEPT !.changed = changed, !.held = held, !.clear = r,
                           !.reclaimed = s, !.refused = f]
  BY <1>2, <1>4, <1>7 DEF Tick
<1>10. walk' \in WalkType
  BY <1>1, <1>6, <1>8, <1>9 DEF WalkType
<1>11. walk'.quality = walk.quality /\ walk'.reclaimed = s /\ walk'.refused = f
  BY <1>1, <1>9 DEF WalkType
<1>12. StepsUp(walk')
  <2>1. step.age < Never => step.from \in Dial /\ step.from < walk.quality
    BY <1>1, <1>2 DEF StepsUp, Reclaimed
  <2>2. QED
    BY <1>6, <1>8, <1>11, <2>1 DEF StepsUp, Reclaimed
<1>13. CASE denied.age + 1 >= REFUSAL_HOLD
  <2>1. denied' = [quality |-> CEILING + 1, age |-> Never]
    BY <1>13 DEF Tick
  <2>2. denied' \in Denials /\ denied'.age = REFUSAL_HOLD
    BY <2>1, DialIs DEF Denials
  <2>3. Capped(walk', denied')
    BY <2>2, DialIs DEF Capped
  <2>4. QED
    BY <1>10, <1>12, <2>2, <2>3 DEF WalkInv, WalkGood
<1>14. CASE ~(denied.age + 1 >= REFUSAL_HOLD)
  <2>1. PICK q, a : q = denied.quality /\ a = denied.age
    OBVIOUS
  <2>2. q \in Nat /\ a \in 0 .. Never /\ a + 1 < REFUSAL_HOLD
    BY <1>1, <1>14, <2>1, DialIs DEF Denials
  <2>3. denied' = [denied EXCEPT !.age = a + 1]
    BY <1>14, <2>1 DEF Tick
  <2>4. denied' \in Denials /\ denied'.quality = q /\ denied'.age = a + 1
    BY <1>1, <2>1, <2>2, <2>3, DialIs DEF Denials
  <2>5. refused.age = a /\ refused.cap < q /\ walk.quality < q
    BY <1>1, <1>2, <2>1, <2>2, DialIs DEF Capped
  <2>6. aged = a + 1
    BY <1>6, <2>2, <2>5, DialIs DEF Smaller
  <2>7. Capped(walk', denied')
    BY <1>8, <1>11, <2>4, <2>5, <2>6 DEF Capped
  <2>8. QED
    BY <1>10, <1>12, <2>4, <2>7 DEF WalkInv, WalkGood
<1>15. QED
  BY <1>13, <1>14

LEMMA WalkInitKeeps ==
  ASSUME WalkInit
  PROVE  WalkInv
<1>1. PICK aware, vs, run, step, refused, none :
        /\ aware \in BOOLEAN /\ vs = <<>> /\ run = NoRun /\ none = NoLag
        /\ step = [from |-> 0, age |-> Never]
        /\ refused = [cap |-> CEILING, age |-> Never]
        /\ walk = [lagAware |-> aware, quality |-> CEILING, slow |-> 0,
                   verdicts |-> vs, clear |-> run, changed |-> ADJUST_COOLDOWN,
                   held |-> 0, reclaim |-> STEP_UP, reclaimed |-> step,
                   refused |-> refused, steppedOn |-> none, climbed |-> FALSE]
  BY DEF WalkInit
<1>2. vs \in Verdicts /\ run \in ClearRuns /\ none \in Lag
  BY <1>1, NoneIs
<1>3. step \in Steps /\ refused \in Refusals /\ step.age = Never
  BY <1>1, DialIs DEF Steps, Refusals
<1>4. /\ CEILING \in Dial /\ 0 \in 0 .. SLOW_MAX /\ ADJUST_COOLDOWN \in Nat
      /\ STEP_UP \in Nat
  BY DialIs, WalkAssumption DEF Dial
<1>5. walk \in WalkType /\ walk.reclaimed = step
  BY <1>1, <1>2, <1>3, <1>4 DEF WalkType
<1>6. denied \in Denials /\ denied.age = REFUSAL_HOLD
  BY DialIs DEF WalkInit, Denials
<1>7. StepsUp(walk) /\ Capped(walk, denied)
  BY <1>3, <1>5, <1>6, DialIs DEF StepsUp, Capped, Reclaimed
<1>8. QED
  BY <1>5, <1>6, <1>7 DEF WalkInv, WalkGood

LEMMA WalkNextKeeps ==
  ASSUME WalkInv, [WalkNext]_walkVars
  PROVE  WalkInv'
<1>1. CASE Frames
  BY <1>1, FrameKeeps DEF Frames
<1>2. CASE Settle
  BY <1>2, SettleKeeps
<1>3. CASE Keyframe
  BY <1>3, KeyframeKeeps
<1>4. CASE Tick
  BY <1>4, TickKeeps
<1>5. CASE \E l \in {"clear", "behind"} : LinkBecomes(l)
  BY <1>5 DEF LinkBecomes, WalkInv
<1>6. CASE UNCHANGED walkVars
  BY <1>6 DEF walkVars, WalkInv
<1>7. QED
  BY <1>1, <1>2, <1>3, <1>4, <1>5, <1>6 DEF WalkNext

\* Whatever verdicts a link shows, in any order with settles, keyframes and the
\* passing of time, the walk keeps the invariant: its dial between the floor
\* and the ceiling, its intervals within SLOW_MAX, its cap the last refusal's.
THEOREM WalkSafe == WalkFairSpec => []WalkInv
<1>1. WalkFairSpec => WalkInit /\ [][WalkNext]_walkVars
  BY PTL DEF WalkFairSpec
<1>2. WalkInit => WalkInv
  BY WalkInitKeeps
<1>3. WalkInv /\ [WalkNext]_walkVars => WalkInv'
  BY WalkNextKeeps
<1>4. QED
  BY <1>1, <1>2, <1>3, PTL

\* A step up is only ever taken back to below where it went, and a quality the
\* link refused is not given again while the refusal holds, however often the
\* walk settles or steps in between (reclaimed, refused).
THEOREM RefusalHolds == WalkFairSpec => []RefusedIsOutOfReach
<1>1. WalkInv => RefusedIsOutOfReach
  BY DEF WalkInv, WalkGood, StepsUp, Capped, RefusedIsOutOfReach
<1>2. QED
  BY <1>1, WalkSafe, PTL

===============================================================================
