------------------------- MODULE ConfigurationsProofs -------------------------
(***************************************************************************)
(* What TLAPS proves of Configurations: for any clients, sizes, scales and *)
(* requests, a resize that waits for its frame is of the client on the     *)
(* desk, and no declaration is left behind, whatever the compositor makes  *)
(* of a configuration and in whatever order its outcomes are read.         *)
(***************************************************************************)
EXTENDS Configurations, WellFoundedInduction, TLAPS

-----------------------------------------------------------------------------
(* The inductive invariant.  Its parts are of D, the thread's state, E, the *)
(* events not read, and A, the requests there have been.                   *)

Outcomes == {"succeeded", "failed", "cancelled"}

Request   == [kind : Kind, serial : Nat] \cup [sync : Nat]
EventType == [event : Outcomes, kind : Kind]
             \cup [event : {"layout"}, heads : [Desk -> Shape], serial : Nat]
             \cup [event : {"synced"}, id : Nat]
             \cup [event : {"frame"}, desk : Desk, size : Widths]
Command   == [client : Clients, size : Widths, scale : Scales \cup {NoScale}, ask : Nat]
AsksType  == [made : Nat, by : [1 .. MaxAsks -> Clients \cup {Nobody}],
              met : SUBSET Clients]

Members(s) == {s[i] : i \in DOMAIN s}

\* Request n is client c's.
By(A, n, c) == n \in 1 .. A.made /\ n \in 1 .. MaxAsks /\ A.by[n] = c /\ c \in A.met

\* The configurations with the compositor, of the requests rs, and those whose
\* outcome is not read, of the events es.
Flying(rs, es) == {r.kind : r \in {x \in rs : "kind" \in DOMAIN x}}
                  \cup {e.kind : e \in {x \in es : x.event \in Outcomes}}

\* The declarations in hand: see InHand.
Passing(rs, es) == {k.id : k \in {x \in Flying(rs, es) : x.kind = "declare"}}
                   \cup {r.sync : r \in {x \in rs : "sync" \in DOMAIN x}}
                   \cup {e.id : e \in {x \in es : x.event = "synced"}}

\* What is kept of a client on a desk is its own, and it is on no other.
DesksGood(D, A) ==
  /\ \A d \in Desk :
       LET s == D.desks[d]
       IN /\ s.client # Nobody => s.client \in A.met
          /\ s.pending # NoResize => s.pending.client = s.client
          /\ s.queued # NoWait => s.queued.client = s.client /\ By(A, s.queued.ask, s.client)
  /\ D.desks[FIRST].client = D.desks[BESIDE].client => D.desks[FIRST].client = Nobody

\* A declaration on its way is of a client that is on its desk or on none any
\* more, and of an id given once.
KindGood(D, A, k) ==
  k.kind = "declare" =>
    /\ k.scale \in Scales
    /\ k.id \in Nat \ {0} /\ k.id < D.next
    /\ By(A, k.ask, k.client)
    /\ \A d \in Desk : D.desks[d].client = k.client => d = k.desk
    /\ D.declaring.id = k.id => D.declaring.ask = k.ask /\ D.declaring.desk = k.desk

Handed(D, E) ==
  D.declaring.id # 0 =>
    /\ D.declaring.id < D.next
    /\ D.declaring.id \in Passing(Members(D.requests), Members(E))

\* Who is owed a report is on a desk, and its request is out, waiting, or among
\* those not handled yet, C.
OwedGood(D, A, C) ==
  \A n \in D.owed :
    /\ n \in 1 .. A.made /\ n \in 1 .. MaxAsks
    /\ \E d \in Desk : D.desks[d].client = A.by[n] /\ D.desks[d].client # Nobody
    /\ \/ D.declaring.id # 0 /\ D.declaring.ask = n
       \/ \E d \in Desk : D.desks[d].queued.ask = n
       \/ n \in C

Good(D, E, A, C) ==
  /\ D \in Daemon /\ D.next > 0
  /\ E \in Seq(EventType)
  /\ A \in AsksType
  /\ DesksGood(D, A)
  /\ \A k \in Flying(Members(D.requests), Members(E)) : KindGood(D, A, k)
  /\ Handed(D, E)
  /\ OwedGood(D, A, C)

\* What waits waits for one that is out.
Waiting(D) == \A d \in Desk : D.desks[d].queued # NoWait => D.declaring.id # 0

CommandsGood ==
  /\ commands \in Seq(Command)
  /\ \A w \in Members(commands) : By(asks, w.ask, w.client)

\* The declarations among the commands.
Unhandled == {w.ask : w \in {x \in Members(commands) : x.scale # NoScale}}

\* The compositor's outputs and the pictures of the desks.
WorldGood ==
  /\ heads \in [Desk -> Shape]
  /\ layout \in [serial : Nat, others : Nat]
  /\ pictures \in [Desk -> [size : Widths, origin : Clients \cup {Nobody}]]

ConfigInv ==
  /\ WorldGood
  /\ Good(daemon, events, asks, Unhandled)
  /\ Waiting(daemon)
  /\ CommandsGood
-----------------------------------------------------------------------------
(* Sequences.                                                              *)

LEMMA MembersAppend ==
  ASSUME NEW S, NEW s \in Seq(S), NEW e \in S
  PROVE  Append(s, e) \in Seq(S) /\ Members(Append(s, e)) = Members(s) \cup {e}
<1>1. Append(s, e) \in Seq(S)
  OBVIOUS
<1>2. Members(Append(s, e)) \subseteq Members(s) \cup {e}
  <2>1. SUFFICES ASSUME NEW i \in DOMAIN Append(s, e)
                 PROVE  Append(s, e)[i] \in Members(s) \cup {e}
    BY DEF Members
  <2>2. i \in 1 .. Len(s) + 1
    OBVIOUS
  <2>3. CASE i \in 1 .. Len(s)
    BY <2>3 DEF Members
  <2>4. CASE i = Len(s) + 1
    BY <2>4
  <2>5. QED
    BY <2>2, <2>3, <2>4
<1>3. Members(s) \cup {e} \subseteq Members(Append(s, e))
  <2>1. ASSUME NEW i \in DOMAIN s
        PROVE  s[i] \in Members(Append(s, e))
    <3>1. i \in DOMAIN Append(s, e) /\ Append(s, e)[i] = s[i]
      OBVIOUS
    <3>2. QED
      BY <3>1 DEF Members
  <2>2. e \in Members(Append(s, e))
    <3>1. Len(s) + 1 \in DOMAIN Append(s, e) /\ Append(s, e)[Len(s) + 1] = e
      OBVIOUS
    <3>2. QED
      BY <3>1 DEF Members
  <2>3. QED
    BY <2>1, <2>2 DEF Members
<1>4. QED
  BY <1>1, <1>2, <1>3

LEMMA MembersTail ==
  ASSUME NEW S, NEW s \in Seq(S), s # <<>>
  PROVE  /\ Tail(s) \in Seq(S) /\ s[1] \in S
         /\ Members(s) = Members(Tail(s)) \cup {s[1]}
<1>1. /\ Tail(s) \in Seq(S) /\ s[1] \in S /\ 1 \in DOMAIN s
      /\ Len(Tail(s)) = Len(s) - 1
      /\ \A i \in 1 .. Len(s) - 1 : Tail(s)[i] = s[i + 1]
  OBVIOUS
<1>2. Members(s) \subseteq Members(Tail(s)) \cup {s[1]}
  <2>1. SUFFICES ASSUME NEW i \in DOMAIN s, i # 1
                 PROVE  s[i] \in Members(Tail(s))
    BY DEF Members
  <2>2. i - 1 \in 1 .. Len(s) - 1 /\ (i - 1) + 1 = i
    BY <2>1
  <2>3. i - 1 \in DOMAIN Tail(s) /\ Tail(s)[i - 1] = s[i]
    BY <1>1, <2>2
  <2>4. QED
    BY <2>3 DEF Members
<1>3. Members(Tail(s)) \cup {s[1]} \subseteq Members(s)
  <2>1. ASSUME NEW i \in DOMAIN Tail(s)
        PROVE  Tail(s)[i] \in Members(s)
    <3>1. i \in 1 .. Len(s) - 1 /\ i + 1 \in DOMAIN s
      BY <1>1
    <3>2. Tail(s)[i] = s[i + 1]
      BY <1>1, <3>1
    <3>3. QED
      BY <3>1, <3>2 DEF Members
  <2>2. QED
    BY <1>1, <2>1 DEF Members
<1>4. QED
  BY <1>1, <1>2, <1>3

\* A request is a configuration or a sync.
Configures(r) == "kind" \in DOMAIN r /\ "sync" \notin DOMAIN r
IsSync(r)     == "kind" \notin DOMAIN r /\ "sync" \in DOMAIN r

LEMMA RequestIs ==
  /\ \A k, n : LET r == [kind |-> k, serial |-> n] IN Configures(r) /\ r.kind = k
  /\ \A n : LET r == [sync |-> n] IN IsSync(r) /\ r.sync = n
  /\ \A r \in Request : "kind" \in DOMAIN r =>
       r.kind \in Kind /\ r.serial \in Nat /\ Configures(r)
  /\ \A r \in Request : "sync" \in DOMAIN r => r.sync \in Nat /\ IsSync(r)
BY DEF Request, Configures, IsSync

LEMMA EventIs ==
  ASSUME NEW e \in EventType
  PROVE  /\ e.event \in Outcomes => e.kind \in Kind /\ e.event # "synced"
         /\ e.event = "layout" => e.heads \in [Desk -> Shape] /\ e.serial \in Nat
         /\ e.event = "synced" => e.id \in Nat /\ e.event \notin Outcomes
         /\ e.event = "frame" => e.desk \in Desk /\ e.size \in Widths
         /\ e.event \in Outcomes \cup {"layout", "synced", "frame"}
BY DEF EventType, Outcomes

With(s, x) == s \cup {x}

\* What one more request, or one more event, adds to what is on its way.
LEMMA FlyingRequest ==
  ASSUME NEW rs, NEW es, NEW r, Configures(r), NEW all, all = With(rs, r)
  PROVE  /\ Flying(all, es) = Flying(rs, es) \cup {r.kind}
         /\ r.kind.kind = "declare" =>
              Passing(all, es) = Passing(rs, es) \cup {r.kind.id}
         /\ r.kind.kind # "declare" => Passing(all, es) = Passing(rs, es)
<1>1. Flying(all, es) = Flying(rs, es) \cup {r.kind}
  BY DEF Flying, Configures, With
<1>2. r.kind.kind = "declare" => Passing(all, es) = Passing(rs, es) \cup {r.kind.id}
  BY <1>1 DEF Passing, Configures, With
<1>3. r.kind.kind # "declare" => Passing(all, es) = Passing(rs, es)
  BY <1>1 DEF Passing, Configures, With
<1>4. QED
  BY <1>1, <1>2, <1>3

LEMMA FlyingSync ==
  ASSUME NEW rs, NEW es, NEW r, IsSync(r), NEW all, all = With(rs, r)
  PROVE  /\ Flying(all, es) = Flying(rs, es)
         /\ Passing(all, es) = Passing(rs, es) \cup {r.sync}
<1>1. Flying(all, es) = Flying(rs, es)
  BY DEF Flying, IsSync, With
<1>2. Passing(all, es) = Passing(rs, es) \cup {r.sync}
  BY <1>1 DEF Passing, IsSync, With
<1>3. QED
  BY <1>1, <1>2

LEMMA FlyingEvent ==
  ASSUME NEW rs, NEW es, NEW e, NEW all, all = With(es, e)
  PROVE  /\ e.event \notin Outcomes => Flying(rs, all) = Flying(rs, es)
         /\ e.event \in Outcomes => Flying(rs, all) = Flying(rs, es) \cup {e.kind}
         /\ Passing(rs, es) \subseteq Passing(rs, all)
         /\ e.event \in Outcomes /\ e.kind.kind = "declare" =>
              Passing(rs, all) = Passing(rs, es) \cup {e.kind.id}
         /\ e.event \in Outcomes /\ e.kind.kind # "declare" =>
              Passing(rs, all) = Passing(rs, es)
         /\ e.event = "synced" => Passing(rs, all) = Passing(rs, es) \cup {e.id}
         /\ e.event \notin Outcomes \cup {"synced"} =>
              Passing(rs, all) = Passing(rs, es)
<1>1. e.event \notin Outcomes => Flying(rs, all) = Flying(rs, es)
  BY DEF Flying, With
<1>2. e.event \in Outcomes => Flying(rs, all) = Flying(rs, es) \cup {e.kind}
  BY DEF Flying, With
<1>3. Passing(rs, es) \subseteq Passing(rs, all)
  BY <1>1, <1>2 DEF Passing, With
<1>4. e.event \in Outcomes /\ e.kind.kind = "declare" =>
        Passing(rs, all) = Passing(rs, es) \cup {e.kind.id}
  BY <1>2 DEF Passing, Outcomes, With
<1>5. e.event \in Outcomes /\ e.kind.kind # "declare" =>
        Passing(rs, all) = Passing(rs, es)
  BY <1>2 DEF Passing, Outcomes, With
<1>6. e.event = "synced" => Passing(rs, all) = Passing(rs, es) \cup {e.id}
  BY <1>1 DEF Passing, Outcomes, With
<1>7. e.event \notin Outcomes \cup {"synced"} => Passing(rs, all) = Passing(rs, es)
  BY <1>1 DEF Passing, With
<1>8. QED
  BY <1>1, <1>2, <1>3, <1>4, <1>5, <1>6, <1>7
-----------------------------------------------------------------------------
(* Types of the thread's state.                                            *)

LEMMA Smallest ==
  ASSUME NEW T, T \subseteq Nat, T # {}
  PROVE  (CHOOSE s \in T : \A t \in T : s <= t) \in T
<1> DEFINE R == {p \in Nat \X Nat : p[1] < p[2]}
<1>1. IsWellFoundedOn(R, Nat)
  BY NatLessThanWellFounded DEF OpToRel
<1>2. PICK x \in T : \A y \in T : <<y, x>> \notin R
  BY <1>1, WFMin
<1>3. \A y \in T : ~(y < x)
  BY <1>2
<1>4. \A y \in T : x <= y
  BY <1>3
<1>5. QED
  BY <1>4

LEMMA CurrentIs ==
  ASSUME NEW D \in Daemon, NEW d \in Desk
  PROVE  Current(D, d) \in [size : Widths \cup {NoSize}, scale : Scales]
<1>1. CASE Shares(D, d)
  BY <1>1 DEF Current, Daemon, Shape
<1>2. CASE ~Shares(D, d)
  <2>1. (CHOOSE s \in Scales : \A t \in Scales : s <= t) \in Scales
    BY Smallest, ConfiguredAssumption
  <2>2. QED
    BY <1>2, <2>1 DEF Current
<1>3. QED
  BY <1>1, <1>2

LEMMA DaemonIs ==
  ASSUME NEW D \in Daemon
  PROVE  /\ D.known \in [heads : [Desk -> Shape], serial : Nat]
         /\ D.desks \in [Desk -> DeskState]
         /\ \A d \in Desk :
              /\ D.desks[d] \in DeskState
              /\ D.desks[d].client \in Clients \cup {Nobody}
              /\ D.desks[d].pending \in [client : Clients, size : Widths] \cup {NoResize}
              /\ D.desks[d].queued \in Waits
         /\ D.declaring \in [id : Nat, desk : Desk, ask : Nat]
         /\ D.declaring.id \in Nat /\ D.declaring.desk \in Desk /\ D.declaring.ask \in Nat
         /\ D.next \in Nat
         /\ D.requests \in Seq(Request)
         /\ D.geometry \in [Desk -> [size : Widths \cup {NoSize}, scale : Scales]]
         /\ D.owed \subseteq Nat
BY DEF Daemon, DeskState, Request

\* A report changes no more than what is told, and who is owed one.
LEMMA ReportedIs ==
  ASSUME NEW D \in Daemon, NEW d \in Desk, NEW n
  PROVE  LET R == Reported(D, d, n)
         IN /\ R \in Daemon
            /\ R.desks = D.desks /\ R.declaring = D.declaring /\ R.next = D.next
            /\ R.requests = D.requests /\ R.known = D.known
            /\ R.owed = D.owed \ {n}
<1>1. PICK now : now = Current(D, d) /\ now \in [size : Widths \cup {NoSize}, scale : Scales]
  BY CurrentIs
<1>2. PICK R : R = [D EXCEPT !.geometry[d] = now, !.owed = @ \ {n}]
  OBVIOUS
<1>3. R \in Daemon
  BY <1>1, <1>2 DEF Daemon
<1>4. /\ R.desks = D.desks /\ R.declaring = D.declaring /\ R.next = D.next
      /\ R.requests = D.requests /\ R.known = D.known /\ R.owed = D.owed \ {n}
  BY <1>2 DEF Daemon
<1>5. R = Reported(D, d, n)
  BY <1>1, <1>2 DEF Reported
<1>6. QED
  BY <1>3, <1>4, <1>5

\* A configuration sent is one more request.
LEMMA ConfiguredIs ==
  ASSUME NEW D \in Daemon, NEW k \in Kind
  PROVE  LET R == Configured(D, k)
         IN /\ R \in Daemon
            /\ R.desks = D.desks /\ R.declaring = D.declaring /\ R.next = D.next
            /\ R.known = D.known /\ R.owed = D.owed
            /\ \E r \in Request :
                 /\ Members(R.requests) = Members(D.requests) \cup {r}
                 /\ Configures(r) /\ r.kind = k
<1>1. PICK r : r = [kind |-> k, serial |-> D.known.serial]
  OBVIOUS
<1>2. r \in Request /\ Configures(r) /\ r.kind = k
  BY <1>1, DaemonIs DEF Request, Configures
<1>3. PICK q : q = Append(D.requests, r)
  OBVIOUS
<1>4. q \in Seq(Request) /\ Members(q) = Members(D.requests) \cup {r}
  BY <1>2, <1>3, DaemonIs, MembersAppend
<1>5. PICK R : R = [D EXCEPT !.requests = q]
  OBVIOUS
<1>6. R \in Daemon
  BY <1>4, <1>5 DEF Daemon, Request
<1>7. /\ R.desks = D.desks /\ R.declaring = D.declaring /\ R.next = D.next
      /\ R.known = D.known /\ R.owed = D.owed /\ R.requests = q
  BY <1>5 DEF Daemon
<1>8. R = Configured(D, k)
  BY <1>1, <1>3, <1>5 DEF Configured
<1>9. QED
  BY <1>2, <1>4, <1>6, <1>7, <1>8

\* One desk's state, or one part of it, is another, and nothing else is.
WithDesk(D, d, s)    == [D EXCEPT !.desks[d] = s]
WithPending(D, d, p) == [D EXCEPT !.desks[d].pending = p]
Numbered(D)          == [D EXCEPT !.next = @ + 1]

LEMMA DeskSet ==
  ASSUME NEW D \in Daemon, NEW d \in Desk, NEW s \in DeskState,
         NEW R, R = WithDesk(D, d, s)
  PROVE  /\ R \in Daemon
         /\ R.desks[d] = s
         /\ \A e \in Desk \ {d} : R.desks[e] = D.desks[e]
         /\ R.declaring = D.declaring /\ R.next = D.next /\ R.requests = D.requests
         /\ R.known = D.known /\ R.owed = D.owed
BY DEF Daemon, WithDesk
-----------------------------------------------------------------------------
(* What the operators of Configurations keep.                              *)

LEMMA ReportedGood ==
  ASSUME NEW D, NEW E, NEW A, NEW C, NEW d \in Desk, NEW n, Good(D, E, A, C \cup {n})
  PROVE  Good(Reported(D, d, n), E, A, C)
<1>1. PICK R : R = Reported(D, d, n)
  OBVIOUS
<1>2. D \in Daemon
  BY DEF Good
<1>3. /\ R \in Daemon
      /\ R.desks = D.desks /\ R.declaring = D.declaring /\ R.next = D.next
      /\ R.requests = D.requests /\ R.owed = D.owed \ {n}
  BY <1>1, <1>2, ReportedIs
<1>4. OwedGood(R, A, C)
  BY <1>3 DEF Good, OwedGood
<1>5. DesksGood(R, A) /\ Handed(R, E)
  BY <1>3 DEF Good, DesksGood, Handed
<1>6. \A k \in Flying(Members(R.requests), Members(E)) : KindGood(R, A, k)
  BY <1>3 DEF Good, KindGood
<1>7. QED
  BY <1>1, <1>3, <1>4, <1>5, <1>6 DEF Good

\* What a change of one desk's state keeps, if its client is the same.
LEMMA DeskGood ==
  ASSUME NEW D, NEW E, NEW A, NEW C, NEW d \in Desk, NEW s \in DeskState,
         Good(D, E, A, C),
         s.client = D.desks[d].client,
         s.pending # NoResize => s.pending.client = s.client,
         s.queued # NoWait =>
           s.queued.client = s.client /\ By(A, s.queued.ask, s.client),
         \/ s.queued = D.desks[d].queued
         \/ D.desks[d].queued.ask \in C,
         NEW R, R = WithDesk(D, d, s)
  PROVE  Good(R, E, A, C)
<1>1. D \in Daemon
  BY DEF Good
<1>2. /\ R \in Daemon
      /\ R.desks[d] = s /\ \A e \in Desk \ {d} : R.desks[e] = D.desks[e]
      /\ R.declaring = D.declaring /\ R.next = D.next /\ R.requests = D.requests
      /\ R.owed = D.owed
  BY <1>1, DeskSet
<1>3. \A e \in Desk : R.desks[e].client = D.desks[e].client
  BY <1>2
<1>4. DesksGood(R, A)
  BY <1>2, <1>3 DEF Good, DesksGood, Desk
<1>5. Handed(R, E)
  BY <1>2 DEF Good, Handed
<1>6. \A k \in Flying(Members(R.requests), Members(E)) : KindGood(R, A, k)
  BY <1>2, <1>3 DEF Good, KindGood
<1>7. OwedGood(R, A, C)
  BY <1>2, <1>3 DEF Good, OwedGood
<1>8. QED
  BY <1>2, <1>4, <1>5, <1>6, <1>7 DEF Good

\* pending_resize is set for the client on the desk, or cleared.
LEMMA PendingGood ==
  ASSUME NEW D, NEW E, NEW A, NEW C, NEW d \in Desk,
         NEW p \in [client : Clients, size : Widths] \cup {NoResize},
         Good(D, E, A, C), p # NoResize => p.client = D.desks[d].client,
         NEW R, R = WithPending(D, d, p)
  PROVE  /\ Good(R, E, A, C)
         /\ R.declaring = D.declaring /\ R.next = D.next /\ R.requests = D.requests
         /\ R.known = D.known /\ R.owed = D.owed
         /\ \A e \in Desk : R.desks[e].client = D.desks[e].client
         /\ \A e \in Desk : R.desks[e].queued = D.desks[e].queued
<1>1. D \in Daemon /\ D.desks[d] \in DeskState
  BY DaemonIs DEF Good
<1>2. PICK s : s = [D.desks[d] EXCEPT !.pending = p]
  OBVIOUS
<1>3. /\ s \in DeskState /\ s.client = D.desks[d].client /\ s.pending = p
      /\ s.queued = D.desks[d].queued
  BY <1>1, <1>2 DEF DeskState
<1>4. R = WithDesk(D, d, s)
  BY <1>1, <1>2 DEF WithDesk, WithPending
<1>5. s.queued # NoWait => s.queued.client = s.client /\ By(A, s.queued.ask, s.client)
  BY <1>3 DEF Good, DesksGood
<1>6. Good(R, E, A, C)
  BY <1>3, <1>4, <1>5, DeskGood
<1>7. /\ R.desks[d] = s
      /\ \A e \in Desk \ {d} : R.desks[e] = D.desks[e]
      /\ R.declaring = D.declaring /\ R.next = D.next /\ R.requests = D.requests
      /\ R.known = D.known /\ R.owed = D.owed
  BY <1>1, <1>3, <1>4, DeskSet
<1>8. QED
  BY <1>3, <1>6, <1>7

\* Whoever waits keeps waiting.
LEMMA PendingLeaves ==
  ASSUME NEW D \in Daemon, NEW d \in Desk, NEW p, NEW F, F = WithPending(D, d, p)
  PROVE  /\ F.declaring = D.declaring
         /\ \A e \in Desk : F.desks[e].queued = D.desks[e].queued
<1>1. F.declaring = D.declaring
  BY DEF WithPending, Daemon
<1>2. ASSUME NEW e \in Desk
      PROVE  F.desks[e].queued = D.desks[e].queued
  BY DEF WithPending, Daemon, DeskState
<1>3. QED
  BY <1>1, <1>2

\* The same, where it is cleared.
LEMMA ClearedGood ==
  ASSUME NEW D, NEW E, NEW A, NEW C, NEW d \in Desk, Good(D, E, A, C),
         NEW R, R = WithPending(D, d, NoResize)
  PROVE  /\ Good(R, E, A, C)
         /\ R.declaring = D.declaring /\ R.next = D.next /\ R.requests = D.requests
         /\ R.known = D.known /\ R.owed = D.owed
         /\ \A e \in Desk : R.desks[e].client = D.desks[e].client
         /\ \A e \in Desk : R.desks[e].queued = D.desks[e].queued
<1>1. NoResize \in [client : Clients, size : Widths] \cup {NoResize}
  OBVIOUS
<1>2. PICK p \in [client : Clients, size : Widths] \cup {NoResize} : p = NoResize
  BY <1>1
<1>3. R = WithPending(D, d, p)
  BY <1>2
<1>4. p # NoResize => p.client = D.desks[d].client
  BY <1>2
<1>5. QED
  BY <1>3, <1>4, PendingGood

\* A configuration of a resize is no declaration in hand.
LEMMA ConfiguredGood ==
  ASSUME NEW D, NEW E, NEW A, NEW C, NEW k \in Kind, Good(D, E, A, C), KindGood(D, A, k)
  PROVE  Good(Configured(D, k), E, A, C)
<1>1. PICK R : R = Configured(D, k)
  OBVIOUS
<1>2. /\ R \in Daemon
      /\ R.desks = D.desks /\ R.declaring = D.declaring /\ R.next = D.next
      /\ R.owed = D.owed
  BY <1>1, ConfiguredIs DEF Good
<1>3. PICK r : /\ Members(R.requests) = Members(D.requests) \cup {r}
               /\ Configures(r) /\ r.kind = k
  BY <1>1, ConfiguredIs DEF Good
<1>4. /\ Flying(Members(R.requests), Members(E)) =
           Flying(Members(D.requests), Members(E)) \cup {k}
      /\ Passing(Members(D.requests), Members(E)) \subseteq
           Passing(Members(R.requests), Members(E))
  <2>1. PICK rs, all, es : /\ rs = Members(D.requests) /\ es = Members(E)
                           /\ all = Members(R.requests)
    OBVIOUS
  <2>2. all = With(rs, r) /\ Configures(r)
    BY <1>3, <2>1 DEF With
  <2>3. /\ Flying(all, es) = Flying(rs, es) \cup {r.kind}
        /\ Passing(rs, es) \subseteq Passing(all, es)
    BY <2>2, FlyingRequest
  <2>4. QED
    BY <1>3, <2>1, <2>3
<1>5. \A x \in Flying(Members(R.requests), Members(E)) : KindGood(R, A, x)
  BY <1>2, <1>4 DEF Good, KindGood
<1>6. Handed(R, E)
  BY <1>2, <1>4 DEF Good, Handed
<1>7. DesksGood(R, A) /\ OwedGood(R, A, C)
  BY <1>2 DEF Good, DesksGood, OwedGood
<1>8. QED
  BY <1>1, <1>2, <1>5, <1>6, <1>7 DEF Good

\* A declaration that goes out, where none is.
LEMMA DeclaredOutGood ==
  ASSUME NEW D, NEW E, NEW A, NEW C, NEW k \in Kind,
         Good(D, E, A, C \cup {k.ask}), D.declaring.id = 0,
         k.kind = "declare", k.id = D.next, k.scale \in Scales,
         By(A, k.ask, k.client),
         \A d \in Desk : D.desks[d].client = k.client => d = k.desk
  PROVE  LET R == DeclaredOut(D, k)
         IN /\ Good(R, E, A, C)
            /\ R.declaring.id # 0 /\ R.declaring.ask = k.ask
            /\ R.desks = D.desks
<1>1. /\ D \in Daemon /\ D.next \in Nat /\ D.next > 0
      /\ k.ask \in Nat /\ k.desk \in Desk
  BY DaemonIs DEF Good, Kind
<1>2. PICK out : out = [id |-> k.id, desk |-> k.desk, ask |-> k.ask]
  OBVIOUS
<1>3. /\ out \in [id : Nat, desk : Desk, ask : Nat]
      /\ out.id = D.next /\ out.desk = k.desk /\ out.ask = k.ask
  BY <1>1, <1>2
<1>4. PICK n \in Nat : n = D.next + 1 /\ n > 0 /\ D.next < n
  BY <1>1
<1>5. PICK F : F = [D EXCEPT !.next = n, !.declaring = out]
  OBVIOUS
<1>6. F \in Daemon
  BY <1>1, <1>3, <1>4, <1>5 DEF Daemon
<1>7. /\ F.desks = D.desks /\ F.declaring = out /\ F.next = n
      /\ F.requests = D.requests /\ F.owed = D.owed
  BY <1>1, <1>5 DEF Daemon
<1>8. PICK R : R = Configured(F, k)
  OBVIOUS
<1>9. /\ R \in Daemon
      /\ R.desks = D.desks /\ R.declaring = out /\ R.next = n /\ R.owed = D.owed
  BY <1>6, <1>7, <1>8, ConfiguredIs
<1>10. PICK r : /\ Members(R.requests) = Members(D.requests) \cup {r}
                /\ Configures(r) /\ r.kind = k
  BY <1>6, <1>7, <1>8, ConfiguredIs
<1>11. /\ Flying(Members(R.requests), Members(E)) =
            Flying(Members(D.requests), Members(E)) \cup {k}
       /\ k.id \in Passing(Members(R.requests), Members(E))
  <2>1. PICK rs, all, es : /\ rs = Members(D.requests) /\ es = Members(E)
                           /\ all = Members(R.requests)
    OBVIOUS
  <2>2. r.kind.kind = "declare" /\ Configures(r) /\ all = With(rs, r)
    BY <1>10, <2>1 DEF With
  <2>3. Flying(all, es) = Flying(rs, es) \cup {r.kind}
    BY <2>2, FlyingRequest
  <2>4. Passing(all, es) = Passing(rs, es) \cup {r.kind.id}
    BY <2>2, FlyingRequest
  <2>5. QED
    BY <1>10, <2>1, <2>3, <2>4
<1>12. Handed(R, E)
  BY <1>3, <1>4, <1>9, <1>11 DEF Handed
<1>13. KindGood(R, A, k)
  BY <1>1, <1>3, <1>4, <1>9 DEF KindGood
<1>14. ASSUME NEW x \in Flying(Members(D.requests), Members(E)) PROVE KindGood(R, A, x)
  <2>1. KindGood(D, A, x)
    BY DEF Good
  <2>2. x.kind = "declare" => x.id \in Nat \ {0} /\ x.id < n /\ x.id # out.id
    BY <1>1, <1>3, <1>4, <2>1 DEF KindGood
  <2>3. QED
    BY <1>9, <2>1, <2>2 DEF KindGood
<1>15. DesksGood(R, A)
  BY <1>9 DEF Good, DesksGood
<1>16. OwedGood(R, A, C)
  BY <1>1, <1>3, <1>9 DEF Good, OwedGood
<1>17. R = DeclaredOut(D, k)
  BY <1>2, <1>4, <1>5, <1>8 DEF DeclaredOut
<1>18. QED
  BY <1>1, <1>3, <1>4, <1>9, <1>11, <1>12, <1>13, <1>14, <1>15, <1>16, <1>17 DEF Good

\* What a client asks of its output, as it waits.
Wait == [client : Clients, size : Widths, scale : Scales, ask : Nat]

\* A client is on one desk.
LEMMA OneDesk ==
  ASSUME NEW D, NEW A, D \in Daemon, DesksGood(D, A), NEW c \in Clients,
         NEW d \in Desk, NEW e \in Desk, D.desks[d].client = c, D.desks[e].client = c
  PROVE  d = e
BY ConfiguredAssumption DEF DesksGood, Desk

LEMMA NumberedGood ==
  ASSUME NEW D, NEW E, NEW A, NEW C, Good(D, E, A, C), D.declaring.id = 0,
         NEW R, R = Numbered(D)
  PROVE  Good(R, E, A, C) /\ R.desks = D.desks
<1>1. D \in Daemon /\ D.next \in Nat /\ D.next > 0
  BY DaemonIs DEF Good
<1>2. PICK n \in Nat : n = D.next + 1 /\ n > 0 /\ D.next < n
  BY <1>1
<1>3. R = [D EXCEPT !.next = n]
  BY <1>2 DEF Numbered
<1>4. /\ R \in Daemon /\ R.desks = D.desks /\ R.declaring = D.declaring
      /\ R.next = n /\ R.requests = D.requests /\ R.owed = D.owed
  BY <1>1, <1>3 DEF Daemon
<1>5. ASSUME NEW k \in Flying(Members(D.requests), Members(E)) PROVE KindGood(R, A, k)
  <2>1. KindGood(D, A, k)
    BY DEF Good
  <2>2. k.kind = "declare" => k.id \in Nat \ {0} /\ k.id < n
    BY <1>1, <1>2, <2>1 DEF KindGood
  <2>3. QED
    BY <1>4, <2>1, <2>2 DEF KindGood
<1>6. DesksGood(R, A) /\ Handed(R, E) /\ OwedGood(R, A, C)
  BY <1>4 DEF Good, DesksGood, Handed, OwedGood
<1>7. QED
  BY <1>2, <1>4, <1>5, <1>6 DEF Good

LEMMA DeclaredGood ==
  ASSUME NEW D, NEW E, NEW A, NEW C, NEW d \in Desk, NEW w \in Wait, NEW retry \in BOOLEAN,
         Good(D, E, A, C \cup {w.ask}), D.declaring.id = 0,
         w.client = D.desks[d].client, By(A, w.ask, w.client)
  PROVE  LET R == Declared(D, d, w, retry)
         IN /\ Good(R, E, A, C)
            /\ \A e \in Desk : R.desks[e].client = D.desks[e].client
            /\ \A e \in Desk : R.desks[e].queued = D.desks[e].queued
<1>1. D \in Daemon /\ D.next \in Nat /\ D.next > 0
  BY DaemonIs DEF Good
<1>2. w.client \in Clients /\ w.size \in Widths /\ w.scale \in Scales /\ w.ask \in Nat
  BY DEF Wait
<1>3. PICK now : now = Current(D, d)
  OBVIOUS
<1>4. PICK k : k = [kind |-> "declare", id |-> D.next, desk |-> d, client |-> w.client,
                    size |-> w.size, scale |-> w.scale, ask |-> w.ask, retry |-> retry]
  OBVIOUS
<1>5. /\ k \in Kind /\ k.kind = "declare" /\ k.id = D.next /\ k.desk = d
      /\ k.client = w.client /\ k.scale = w.scale /\ k.ask = w.ask
  BY <1>1, <1>2, <1>4 DEF Kind
<1>6. CASE now = [size |-> w.size, scale |-> w.scale]
  <2>1. Declared(D, d, w, retry) = Reported(D, d, w.ask)
    BY <1>3, <1>6 DEF Declared
  <2>2. QED
    BY <1>1, <2>1, ReportedGood, ReportedIs
<1>7. CASE now # [size |-> w.size, scale |-> w.scale] /\ Configurable(D, d)
  <2>1. PICK p : p = IF w.size = now.size THEN NoResize
                     ELSE [client |-> w.client, size |-> w.size]
    OBVIOUS
  <2>2. /\ p \in [client : Clients, size : Widths] \cup {NoResize}
        /\ p # NoResize => p.client = D.desks[d].client
    BY <1>2, <2>1
  <2>3. PICK F : F = WithPending(D, d, p)
    OBVIOUS
  <2>4. /\ Good(F, E, A, C \cup {w.ask}) /\ F.declaring = D.declaring /\ F.next = D.next
        /\ \A e \in Desk : F.desks[e].client = D.desks[e].client
        /\ \A e \in Desk : F.desks[e].queued = D.desks[e].queued
    BY <2>2, <2>3, PendingGood
  <2>5. \A e \in Desk : F.desks[e].client = k.client => e = k.desk
    BY <1>1, <1>2, <1>5, <2>4, OneDesk DEF Good
  <2>6. /\ Good(DeclaredOut(F, k), E, A, C)
        /\ DeclaredOut(F, k).desks = F.desks
    BY <1>2, <1>5, <2>4, <2>5, DeclaredOutGood
  <2>7. Declared(D, d, w, retry) = DeclaredOut(F, k)
    BY <1>3, <1>4, <1>7, <2>1, <2>3 DEF Declared, WithPending
  <2>8. QED
    BY <2>4, <2>6, <2>7
<1>8. CASE now # [size |-> w.size, scale |-> w.scale] /\ ~Configurable(D, d)
  <2>1. PICK F : F = WithPending(D, d, NoResize)
    OBVIOUS
  <2>2. /\ Good(F, E, A, C \cup {w.ask}) /\ F.declaring = D.declaring
        /\ \A e \in Desk : F.desks[e].client = D.desks[e].client
        /\ \A e \in Desk : F.desks[e].queued = D.desks[e].queued
    BY <2>1, ClearedGood
  <2>3. PICK G : G = Numbered(F)
    OBVIOUS
  <2>4. Good(G, E, A, C \cup {w.ask}) /\ G.desks = F.desks
    BY <2>2, <2>3, NumberedGood
  <2>5. G \in Daemon
    BY <2>4 DEF Good
  <2>6. Declared(D, d, w, retry) = Reported(G, d, w.ask)
    <3>1. G = [D EXCEPT !.desks[d].pending = NoResize, !.next = @ + 1]
      BY <1>1, <2>1, <2>3 DEF Daemon, WithPending, Numbered
    <3>2. QED
      BY <1>3, <1>8, <3>1 DEF Declared
  <2>7. QED
    BY <2>2, <2>4, <2>5, <2>6, ReportedGood, ReportedIs
<1>9. QED
  BY <1>6, <1>7, <1>8

LEMMA DeclaredWaits ==
  ASSUME NEW D, NEW E, NEW A, NEW C, NEW d \in Desk, NEW w \in Wait, NEW retry \in BOOLEAN,
         Good(D, E, A, C \cup {w.ask}), D.declaring.id # 0,
         w.client = D.desks[d].client, By(A, w.ask, w.client)
  PROVE  LET R == Declared(D, d, w, retry)
         IN Good(R, E, A, C) /\ R.declaring = D.declaring
<1>1. D \in Daemon /\ D.desks[d] \in DeskState
  BY DaemonIs DEF Good
<1>2. PICK old : old = D.desks[d].queued.ask
  OBVIOUS
<1>3. PICK s : s = [D.desks[d] EXCEPT !.queued = w]
  OBVIOUS
<1>4. /\ s \in DeskState /\ s.client = D.desks[d].client
      /\ s.pending = D.desks[d].pending /\ s.queued = w
  BY <1>1, <1>3 DEF DeskState, Waits, Wait
<1>5. PICK F : F = WithDesk(D, d, s)
  OBVIOUS
<1>6. F = [D EXCEPT !.desks[d].queued = w]
  BY <1>1, <1>3, <1>5 DEF WithDesk
<1>7. F \in Daemon /\ F.declaring = D.declaring /\ F.desks[d] = s
  BY <1>1, <1>4, <1>5, DeskSet
<1>8. Good(F, E, A, C \cup {old})
  <2>1. PICK all : all = C \cup {w.ask} \cup {old}
    OBVIOUS
  <2>2. Good(D, E, A, all)
    BY <2>1 DEF Good, OwedGood
  <2>3. s.pending # NoResize => s.pending.client = s.client
    BY <1>4 DEF Good, DesksGood
  <2>4. old \in all
    BY <2>1
  <2>5. Good(F, E, A, all)
    BY <1>2, <1>4, <1>5, <2>2, <2>3, <2>4, DeskGood
  <2>6. QED
    BY <1>4, <1>7, <2>1, <2>5 DEF Good, OwedGood
<1>9. Declared(D, d, w, retry) = Reported(F, d, old)
  BY <1>2, <1>6 DEF Declared
<1>10. QED
  BY <1>7, <1>8, <1>9, ReportedGood, ReportedIs

\* One that replaces what waits is answered, as is the one it replaces: more
\* may be at hand than is needed.
LEMMA GoodMore ==
  ASSUME NEW D, NEW E, NEW A, NEW C, Good(D, E, A, C), NEW B, C \subseteq B
  PROVE  Good(D, E, A, B)
BY DEF Good, OwedGood

LEMMA ToldGood ==
  ASSUME NEW D, NEW E, NEW A, NEW C, NEW d \in Desk, Good(D, E, A, C)
  PROVE  LET R == Reported(D, d, 0)
         IN Good(R, E, A, C) /\ R.desks = D.desks /\ R.declaring = D.declaring
<1>1. Good(D, E, A, C \cup {0})
  BY GoodMore
<1>2. D \in Daemon
  BY DEF Good
<1>3. QED
  BY <1>1, <1>2, ReportedGood, ReportedIs

\* take_if: no declaration is out any more.
LEMMA TakenGood ==
  ASSUME NEW D, NEW E, NEW A, NEW C, Good(D, E, A, C), NEW n, n = D.declaring.ask
  PROVE  /\ Good(Taken(D), E, A, C \cup {n})
         /\ Taken(D).desks = D.desks /\ Taken(D).declaring.id = 0
         /\ Taken(D).requests = D.requests
<1>1. D \in Daemon
  BY DEF Good
<1>2. PICK R : R = Taken(D)
  OBVIOUS
<1>3. NoneOut \in [id : Nat, desk : Desk, ask : Nat] /\ NoneOut.id = 0
  BY DEF NoneOut, Desk
<1>4. PICK none : none = NoneOut
  OBVIOUS
<1>5. none \in [id : Nat, desk : Desk, ask : Nat] /\ none.id = 0
  BY <1>3, <1>4
<1>6. /\ R \in Daemon /\ R.desks = D.desks /\ R.declaring = none /\ R.next = D.next
      /\ R.requests = D.requests /\ R.owed = D.owed
  BY <1>1, <1>2, <1>4, <1>5 DEF Taken, Daemon
<1>7. R.declaring.id = 0
  BY <1>5, <1>6
<1>8. DesksGood(R, A) /\ Handed(R, E)
  BY <1>6, <1>7 DEF Good, DesksGood, Handed
<1>9. OwedGood(R, A, C \cup {n})
  BY <1>6 DEF Good, OwedGood
<1>10. ASSUME NEW k \in Flying(Members(D.requests), Members(E)) PROVE KindGood(R, A, k)
  <2>1. KindGood(D, A, k)
    BY DEF Good
  <2>2. QED
    BY <1>6, <1>7, <2>1 DEF KindGood
<1>11. QED
  BY <1>2, <1>6, <1>7, <1>8, <1>9, <1>10 DEF Good

\* What waits on a desk runs, if none is out.
LEMMA WaitedGood ==
  ASSUME NEW D, NEW E, NEW A, NEW C, NEW d \in Desk, Good(D, E, A, C),
         NEW R, R = WaitedOn(D, d)
  PROVE  /\ Good(R, E, A, C)
         /\ R.desks[d].queued # NoWait => R.declaring.id # 0
         /\ \A e \in Desk \ {d} : R.desks[e].queued = D.desks[e].queued
         /\ D.declaring.id # 0 => R.declaring.id # 0
<1>1. CASE D.declaring.id # 0 \/ D.desks[d].queued = NoWait
  BY <1>1 DEF WaitedOn
<1>2. CASE D.declaring.id = 0 /\ D.desks[d].queued # NoWait
  <2>1. PICK w : w = D.desks[d].queued
    OBVIOUS
  <2>2. D \in Daemon /\ D.desks[d] \in DeskState /\ w \in Waits
    BY <2>1, DaemonIs DEF Good
  <2>3. w \in Wait /\ w.client = D.desks[d].client /\ By(A, w.ask, w.client)
    BY <1>2, <2>1, <2>2 DEF Waits, Wait, Good, DesksGood
  <2>4. PICK s : s = [D.desks[d] EXCEPT !.queued = NoWait]
    OBVIOUS
  <2>5. /\ s \in DeskState /\ s.client = D.desks[d].client
        /\ s.pending = D.desks[d].pending /\ s.queued = NoWait
    BY <2>2, <2>4 DEF DeskState, Waits
  <2>6. PICK F : F = WithDesk(D, d, s)
    OBVIOUS
  <2>7. F = [D EXCEPT !.desks[d].queued = NoWait]
    BY <2>2, <2>4, <2>6 DEF WithDesk
  <2>8. /\ F.declaring = D.declaring /\ F.desks[d] = s
        /\ \A e \in Desk \ {d} : F.desks[e] = D.desks[e]
    BY <2>2, <2>5, <2>6, DeskSet
  <2>9. Good(F, E, A, C \cup {w.ask})
    <3>1. PICK all : all = C \cup {w.ask}
      OBVIOUS
    <3>2. Good(D, E, A, all) /\ D.desks[d].queued.ask \in all
      BY <2>1, <3>1, GoodMore
    <3>3. s.pending # NoResize => s.pending.client = s.client
      BY <2>5 DEF Good, DesksGood
    <3>4. s.queued # NoWait => s.queued.client = s.client /\ By(A, s.queued.ask, s.client)
      BY <2>5
    <3>5. Good(F, E, A, all)
      BY <2>5, <2>6, <3>2, <3>3, <3>4, DeskGood
    <3>6. QED
      BY <3>1, <3>5
  <2>10. PICK retry \in BOOLEAN : R = Declared(F, d, w, retry)
    BY <1>2, <2>1, <2>3, <2>7 DEF WaitedOn
  <2>11. F.declaring.id = 0 /\ w.client = F.desks[d].client
    BY <1>2, <2>3, <2>5, <2>8
  <2>12. /\ Good(R, E, A, C)
         /\ \A e \in Desk : R.desks[e].queued = F.desks[e].queued
    BY <2>3, <2>9, <2>10, <2>11, DeclaredGood
  <2>13. QED
    BY <1>2, <2>5, <2>8, <2>12
<1>3. QED
  BY <1>1, <1>2

\* declaration_settled: nothing waits any more, or one is out again.
LEMMA SettledGood ==
  ASSUME NEW D, NEW E, NEW A, NEW C, Good(D, E, A, C)
  PROVE  Good(Settled(D), E, A, C) /\ Waiting(Settled(D))
<1>1. PICK F : F = WaitedOn(D, FIRST)
  OBVIOUS
<1>2. PICK R : R = WaitedOn(F, BESIDE)
  OBVIOUS
<1>3. R = Settled(D)
  BY <1>1, <1>2 DEF Settled
<1>4. FIRST \in Desk /\ BESIDE \in Desk /\ FIRST # BESIDE
  BY DEF Desk, FIRST, BESIDE
<1>5. /\ Good(F, E, A, C)
      /\ F.desks[FIRST].queued # NoWait => F.declaring.id # 0
  BY <1>1, <1>4, WaitedGood
<1>6. /\ Good(R, E, A, C)
      /\ R.desks[BESIDE].queued # NoWait => R.declaring.id # 0
      /\ R.desks[FIRST].queued = F.desks[FIRST].queued
      /\ F.declaring.id # 0 => R.declaring.id # 0
  BY <1>2, <1>4, <1>5, WaitedGood
<1>7. Waiting(R)
  BY <1>5, <1>6 DEF Waiting, Desk
<1>8. QED
  BY <1>3, <1>6, <1>7

\* A declaration that is answered, and what waited runs.
LEMMA AnsweredGood ==
  ASSUME NEW D, NEW E, NEW A, NEW C, NEW d \in Desk, NEW n,
         Good(D, E, A, C \cup {n})
  PROVE  LET R == Settled(Reported(D, d, n))
         IN Good(R, E, A, C) /\ Waiting(R)
BY ReportedGood, SettledGood

\* Compositor::resize, of the client on the desk.
LEMMA ResizedGood ==
  ASSUME NEW D, NEW E, NEW A, NEW C, NEW d \in Desk, NEW k \in Kind, Good(D, E, A, C),
         k.kind = "resize", k.client = D.desks[d].client,
         NEW R, R = Resized(D, d, k)
  PROVE  Good(R, E, A, C) /\ (Waiting(D) => Waiting(R))
<1>1. CASE Configurable(D, d)
  <2>1. PICK p : p = [client |-> k.client, size |-> k.size]
    OBVIOUS
  <2>2. p \in [client : Clients, size : Widths] \cup {NoResize}
    BY <2>1 DEF Kind
  <2>3. p.client = D.desks[d].client
    BY <2>1
  <2>4. PICK F : F = WithPending(D, d, p)
    OBVIOUS
  <2>5. /\ Good(F, E, A, C) /\ F.declaring = D.declaring
        /\ \A e \in Desk : F.desks[e].queued = D.desks[e].queued
    <3>1. Good(F, E, A, C)
      BY <2>2, <2>3, <2>4, PendingGood
    <3>2. D \in Daemon
      BY DEF Good
    <3>3. /\ F.declaring = D.declaring
          /\ \A e \in Desk : F.desks[e].queued = D.desks[e].queued
      BY <2>4, <3>2, PendingLeaves
    <3>4. QED
      BY <3>1, <3>3
  <2>6. KindGood(F, A, k) /\ F \in Daemon
    BY <2>5 DEF KindGood, Good
  <2>7. R = Configured(F, k)
    BY <1>1, <2>1, <2>4 DEF Resized, WithPending
  <2>8. Good(R, E, A, C)
    BY <2>5, <2>6, <2>7, ConfiguredGood
  <2>9. R.desks = F.desks /\ R.declaring = F.declaring
    BY <2>6, <2>7, ConfiguredIs
  <2>10. QED
    BY <2>5, <2>8, <2>9 DEF Waiting
<1>2. CASE ~Configurable(D, d)
  <2>1. R = WithPending(D, d, NoResize)
    BY <1>2 DEF Resized, WithPending
  <2>2. Good(R, E, A, C)
    BY <2>1, ClearedGood
  <2>3. R.declaring = D.declaring
    BY <2>1, <2>2, ClearedGood
  <2>4. \A e \in Desk : R.desks[e].queued = D.desks[e].queued
    BY <2>1, <2>2, ClearedGood
  <2>5. QED
    BY <2>2, <2>3, <2>4 DEF Waiting
<1>3. QED
  BY <1>1, <1>2
-----------------------------------------------------------------------------
(* Who is on a desk.                                                       *)

Empty == [client |-> Nobody, pending |-> NoResize, queued |-> NoWait]

LEMMA EmptyIs ==
  Empty \in DeskState /\ Empty.client = Nobody /\ Empty.pending = NoResize
  /\ Empty.queued = NoWait /\ NoWait.ask = 0
BY DEF Empty, DeskState, Waits, NoWait

\* let_go, of all that is kept of a desk's client.
LEMMA GoneIs ==
  ASSUME NEW D \in Daemon, NEW A, NEW d \in Desk, NEW asked, DesksGood(D, A)
  PROVE  LET R == Gone(D, d, asked)
         IN /\ R \in Daemon
            /\ R.desks[d] = Empty /\ \A e \in Desk \ {d} : R.desks[e] = D.desks[e]
            /\ R.declaring = D.declaring /\ R.next = D.next /\ R.requests = D.requests
            /\ R.owed = D.owed \ asked
<1>1. D.desks \in [Desk -> DeskState] /\ D.desks[d] \in DeskState
  BY DaemonIs
<1>2. PICK s : s = D.desks[d]
  OBVIOUS
<1>3. s \in DeskState /\ (s.pending # NoResize => s.pending.client = s.client)
  BY <1>1, <1>2 DEF DesksGood
<1>4. (IF s.pending.client = s.client THEN NoResize ELSE s.pending) = NoResize
  BY <1>3
<1>5. PICK t : t = [s EXCEPT !.queued = NoWait, !.pending = NoResize]
  OBVIOUS
<1>6. t \in DeskState /\ t.pending = NoResize /\ t.queued = NoWait
  BY <1>3, <1>5 DEF DeskState, Waits
<1>7. PICK u : u = [t EXCEPT !.client = Nobody]
  OBVIOUS
<1>8. u \in DeskState /\ u.pending = NoResize /\ u.queued = NoWait /\ u.client = Nobody
  BY <1>6, <1>7 DEF DeskState
<1>9. u = [client |-> u.client, pending |-> u.pending, queued |-> u.queued]
  BY <1>8 DEF DeskState
<1>10. u = Empty
  BY <1>8, <1>9 DEF Empty
<1>11. PICK F : F = WithDesk(D, d, t)
  OBVIOUS
<1>12. F = LetGo(D, d)
  BY <1>1, <1>2, <1>4, <1>5, <1>11 DEF LetGo, WithDesk, Daemon
<1>13. /\ F \in Daemon
       /\ F.desks[d] = t /\ \A e \in Desk \ {d} : F.desks[e] = D.desks[e]
       /\ F.declaring = D.declaring /\ F.next = D.next /\ F.requests = D.requests
       /\ F.owed = D.owed
  BY <1>6, <1>11, DeskSet
<1>14. PICK G : G = WithDesk(F, d, u)
  OBVIOUS
<1>15. /\ G \in Daemon
       /\ G.desks[d] = u /\ \A e \in Desk \ {d} : G.desks[e] = F.desks[e]
       /\ G.declaring = F.declaring /\ G.next = F.next /\ G.requests = F.requests
       /\ G.owed = F.owed
  BY <1>8, <1>13, <1>14, DeskSet
<1>16. PICK R : R = [G EXCEPT !.owed = @ \ asked]
  OBVIOUS
<1>17. /\ R \in Daemon /\ R.desks = G.desks /\ R.declaring = G.declaring
       /\ R.next = G.next /\ R.requests = G.requests /\ R.owed = G.owed \ asked
  BY <1>15, <1>16 DEF Daemon
<1>18. G = [F EXCEPT !.desks[d].client = Nobody]
  BY <1>7, <1>13, <1>14 DEF WithDesk
<1>19. R = Gone(D, d, asked)
  BY <1>12, <1>16, <1>18 DEF Gone
<1>20. QED
  BY <1>10, <1>13, <1>15, <1>17, <1>19

\* All the requests of client c are among these.
Covers(A, c, asked) == \A n \in 1 .. A.made : A.by[n] = c => n \in asked

\* No other desk is changed.
Elsewhere(R, D, d) == \A e \in Desk : e # d => R.desks[e] = D.desks[e]

LEMMA GoneGood ==
  ASSUME NEW D, NEW E, NEW A, NEW C, NEW d \in Desk, NEW asked, Good(D, E, A, C),
         Covers(A, D.desks[d].client, asked),
         NEW R, R = Gone(D, d, asked)
  PROVE  /\ Good(R, E, A, C)
         /\ R.desks[d] = Empty
         /\ Elsewhere(R, D, d)
         /\ Waiting(D) => Waiting(R)
<1>1. D \in Daemon /\ D.desks[d] \in DeskState /\ DesksGood(D, A) /\ A \in AsksType
  BY DaemonIs DEF Good
<1>2. PICK s : s = Empty
  OBVIOUS
<1>3. /\ s \in DeskState /\ s.client = Nobody /\ s.pending = NoResize /\ s.queued = NoWait
      /\ s.queued.ask = 0
  BY <1>2, EmptyIs
<1>4. /\ R \in Daemon
      /\ R.desks[d] = s /\ \A e \in Desk \ {d} : R.desks[e] = D.desks[e]
      /\ R.declaring = D.declaring /\ R.next = D.next /\ R.requests = D.requests
      /\ R.owed = D.owed \ asked
  BY <1>1, <1>2, GoneIs
<1>5. \A e \in Desk : R.desks[e].client \in {D.desks[e].client, Nobody}
  BY <1>3, <1>4
<1>6. DesksGood(R, A)
  <2>1. ASSUME NEW e \in Desk
        PROVE  /\ R.desks[e].client # Nobody => R.desks[e].client \in A.met
               /\ R.desks[e].pending # NoResize =>
                    R.desks[e].pending.client = R.desks[e].client
               /\ R.desks[e].queued # NoWait =>
                    /\ R.desks[e].queued.client = R.desks[e].client
                    /\ By(A, R.desks[e].queued.ask, R.desks[e].client)
    BY <1>1, <1>3, <1>4 DEF DesksGood
  <2>2. R.desks[FIRST].client = R.desks[BESIDE].client => R.desks[FIRST].client = Nobody
    BY <1>1, <1>3, <1>4 DEF DesksGood, Desk
  <2>3. QED
    BY <2>1, <2>2 DEF DesksGood
<1>7. Handed(R, E)
  BY <1>4 DEF Good, Handed
<1>8. ASSUME NEW k \in Flying(Members(D.requests), Members(E)) PROVE KindGood(R, A, k)
  <2>1. KindGood(D, A, k)
    BY DEF Good
  <2>2. k.kind = "declare" => k.client # Nobody
    BY <1>1, <2>1, ConfiguredAssumption DEF KindGood, By, AsksType
  <2>3. QED
    BY <1>4, <1>5, <2>1, <2>2 DEF KindGood
<1>9. ASSUME NEW n \in R.owed
       PROVE  /\ n \in 1 .. A.made /\ n \in 1 .. MaxAsks
              /\ \E e \in Desk : R.desks[e].client = A.by[n] /\ R.desks[e].client # Nobody
              /\ \/ R.declaring.id # 0 /\ R.declaring.ask = n
                 \/ \E e \in Desk : R.desks[e].queued.ask = n
                 \/ n \in C
  <2>1. n \in D.owed /\ n \notin asked
    BY <1>4
  <2>2. /\ n \in 1 .. A.made /\ n \in 1 .. MaxAsks
        /\ \/ D.declaring.id # 0 /\ D.declaring.ask = n
           \/ \E e \in Desk : D.desks[e].queued.ask = n
           \/ n \in C
    BY <2>1 DEF Good, OwedGood
  <2>3. PICK e \in Desk : D.desks[e].client = A.by[n] /\ D.desks[e].client # Nobody
    BY <2>1 DEF Good, OwedGood
  <2>4. e # d
    BY <2>1, <2>2, <2>3 DEF Covers
  <2>5. R.desks[e].client = A.by[n] /\ R.desks[e].client # Nobody
    BY <1>4, <2>3, <2>4
  <2>6. D.desks[d].queued.ask # n
    <3>1. CASE D.desks[d].queued = NoWait
      <4>1. n # 0
        BY <2>2
      <4>2. QED
        BY <3>1, <4>1, EmptyIs
    <3>2. CASE D.desks[d].queued # NoWait
      <4>1. By(A, D.desks[d].queued.ask, D.desks[d].client) /\ D.desks[d].client \in Clients
        BY <1>1, <3>2 DEF DesksGood, By, AsksType
      <4>2. QED
        BY <2>1, <2>2, <4>1 DEF By, Covers
    <3>3. QED
      BY <3>1, <3>2
  <2>7. (\E x \in Desk : D.desks[x].queued.ask = n) => \E x \in Desk : R.desks[x].queued.ask = n
    BY <1>4, <2>6
  <2>8. QED
    BY <1>4, <2>2, <2>5, <2>7
<1>10. Waiting(D) => Waiting(R)
  BY <1>3, <1>4 DEF Waiting
<1>11. Good(R, E, A, C)
  <2>1. OwedGood(R, A, C)
    BY <1>9 DEF OwedGood
  <2>2. QED
    BY <1>4, <1>6, <1>7, <1>8, <2>1 DEF Good
<1>12. QED
  BY <1>2, <1>4, <1>10, <1>11 DEF Elsewhere

\* One more request, or one more client that there has been.
Grows(A, B) ==
  /\ A \in AsksType /\ B \in AsksType
  /\ A.made <= B.made /\ A.met \subseteq B.met
  /\ \A n \in 1 .. A.made : n \in 1 .. MaxAsks => B.by[n] = A.by[n]

LEMMA ByGrows ==
  ASSUME NEW A, NEW B, Grows(A, B), NEW n, NEW c, By(A, n, c)
  PROVE  By(B, n, c)
BY DEF Grows, By, AsksType

LEMMA GrownGood ==
  ASSUME NEW D, NEW E, NEW A, NEW C, Good(D, E, A, C), NEW B, Grows(A, B)
  PROVE  Good(D, E, B, C)
<1>1. DesksGood(D, B)
  BY ByGrows DEF Good, DesksGood, Grows
<1>2. ASSUME NEW k \in Flying(Members(D.requests), Members(E)) PROVE KindGood(D, B, k)
  BY ByGrows DEF Good, KindGood
<1>3. ASSUME NEW n \in D.owed
      PROVE  /\ n \in 1 .. B.made /\ n \in 1 .. MaxAsks
             /\ \E d \in Desk : D.desks[d].client = B.by[n] /\ D.desks[d].client # Nobody
             /\ \/ D.declaring.id # 0 /\ D.declaring.ask = n
                \/ \E d \in Desk : D.desks[d].queued.ask = n
                \/ n \in C
  <2>1. /\ n \in 1 .. A.made /\ n \in 1 .. MaxAsks
        /\ \E d \in Desk : D.desks[d].client = A.by[n] /\ D.desks[d].client # Nobody
        /\ \/ D.declaring.id # 0 /\ D.declaring.ask = n
           \/ \E d \in Desk : D.desks[d].queued.ask = n
           \/ n \in C
    BY DEF Good, OwedGood
  <2>2. B.by[n] = A.by[n] /\ n \in 1 .. B.made
    BY <2>1 DEF Grows, AsksType
  <2>3. QED
    BY <2>1, <2>2
<1>4. QED
  BY <1>1, <1>2, <1>3 DEF Good, OwedGood, Grows

\* A client that comes to a desk that has none.
WithClient(D, d, c) == [D EXCEPT !.desks[d].client = c]

LEMMA SeatedGood ==
  ASSUME NEW D, NEW E, NEW A, NEW C, NEW d \in Desk, NEW c \in Clients, NEW B,
         Good(D, E, A, C), D.desks[d] = Empty, c \notin A.met,
         Grows(A, B), c \in B.met,
         NEW R, R = WithClient(D, d, c)
  PROVE  Good(R, E, B, C) /\ (Waiting(D) => Waiting(R))
<1>1. D \in Daemon /\ Good(D, E, B, C) /\ DesksGood(D, A) /\ DesksGood(D, B)
  BY GrownGood DEF Good
<1>2. PICK s : s = [Empty EXCEPT !.client = c]
  OBVIOUS
<1>3. s \in DeskState /\ s.client = c /\ s.pending = NoResize /\ s.queued = NoWait
  BY <1>2, EmptyIs DEF DeskState
<1>4. R = WithDesk(D, d, s)
  BY <1>2 DEF WithClient, WithDesk
<1>5. /\ R \in Daemon
      /\ R.desks[d] = s /\ \A e \in Desk \ {d} : R.desks[e] = D.desks[e]
      /\ R.declaring = D.declaring /\ R.next = D.next /\ R.requests = D.requests
      /\ R.owed = D.owed
  BY <1>1, <1>3, <1>4, DeskSet
<1>6. c # Nobody /\ \A e \in Desk : D.desks[e].client # c
  BY <1>1, ConfiguredAssumption DEF DesksGood
<1>7. D.desks[d].client = Nobody /\ D.desks[d].queued = NoWait
  BY EmptyIs
<1>8. DesksGood(R, B)
  <2>1. ASSUME NEW e \in Desk
        PROVE  /\ R.desks[e].client # Nobody => R.desks[e].client \in B.met
               /\ R.desks[e].pending # NoResize =>
                    R.desks[e].pending.client = R.desks[e].client
               /\ R.desks[e].queued # NoWait =>
                    /\ R.desks[e].queued.client = R.desks[e].client
                    /\ By(B, R.desks[e].queued.ask, R.desks[e].client)
    BY <1>1, <1>3, <1>5 DEF DesksGood
  <2>2. R.desks[FIRST].client # R.desks[BESIDE].client
    BY <1>3, <1>5, <1>6 DEF Desk, FIRST, BESIDE
  <2>3. QED
    BY <2>1, <2>2 DEF DesksGood
<1>9. ASSUME NEW k \in Flying(Members(D.requests), Members(E)) PROVE KindGood(R, B, k)
  <2>1. KindGood(D, B, k) /\ KindGood(D, A, k)
    BY <1>1 DEF Good
  <2>2. k.kind = "declare" => k.client # c
    BY <2>1 DEF KindGood, By
  <2>3. QED
    BY <1>3, <1>5, <2>1, <2>2 DEF KindGood
<1>10. OwedGood(R, B, C)
  <2>1. ASSUME NEW n \in R.owed
        PROVE  /\ \E e \in Desk : R.desks[e].client = B.by[n] /\ R.desks[e].client # Nobody
               /\ (\E e \in Desk : D.desks[e].queued.ask = n) =>
                    \E e \in Desk : R.desks[e].queued.ask = n
    <3>1. PICK e \in Desk : D.desks[e].client = B.by[n] /\ D.desks[e].client # Nobody
      BY <1>1, <1>5 DEF Good, OwedGood
    <3>2. e # d
      BY <1>7, <3>1
    <3>3. \A x \in Desk : R.desks[x].queued = D.desks[x].queued
      BY <1>3, <1>5, <1>7
    <3>4. QED
      BY <1>5, <3>1, <3>2, <3>3
  <2>2. QED
    BY <1>1, <1>5, <2>1 DEF Good, OwedGood
<1>11. Handed(R, E)
  BY <1>1, <1>5 DEF Good, Handed
<1>12. Waiting(D) => Waiting(R)
  BY <1>3, <1>5 DEF Waiting
<1>13. QED
  BY <1>1, <1>5, <1>8, <1>9, <1>10, <1>11, <1>12 DEF Good
-----------------------------------------------------------------------------
(* What the compositor reads and sends.                                    *)

\* An outcome is of a configuration it has, a round trip ends after a sync.
LEMMA SentGood ==
  ASSUME NEW D, NEW E, NEW A, NEW C, Good(D, E, A, C), NEW e \in EventType,
         e.event \in Outcomes => KindGood(D, A, e.kind),
         NEW F, F = Append(E, e)
  PROVE  /\ Good(D, F, A, C)
         /\ e \in Members(F)
<1>1. E \in Seq(EventType) /\ D \in Daemon
  BY DEF Good
<1>2. F \in Seq(EventType) /\ Members(F) = Members(E) \cup {e}
  BY <1>1, MembersAppend
<1>3. PICK rs, es, all : /\ rs = Members(D.requests) /\ es = Members(E)
                         /\ all = Members(F)
  OBVIOUS
<1>4. all = With(es, e)
  BY <1>2, <1>3 DEF With
<1>5. /\ e.event \notin Outcomes => Flying(rs, all) = Flying(rs, es)
      /\ e.event \in Outcomes => Flying(rs, all) = Flying(rs, es) \cup {e.kind}
      /\ Passing(rs, es) \subseteq Passing(rs, all)
  BY <1>4, FlyingEvent
<1>6. \A k \in Flying(rs, all) : KindGood(D, A, k)
  BY <1>3, <1>5 DEF Good
<1>7. Handed(D, F)
  BY <1>3, <1>5 DEF Good, Handed
<1>8. QED
  BY <1>2, <1>3, <1>5, <1>6, <1>7 DEF Good

\* An event that is read, with no declaration that only it had in hand.
LEMMA ReadGood ==
  ASSUME NEW D, NEW E, NEW A, NEW C, Good(D, E, A, C), E # <<>>,
         \/ D.declaring.id = 0
         \/ E[1].event \notin Outcomes \cup {"synced"}
         \/ E[1].event \in Outcomes /\ E[1].kind.kind # "declare"
         \/ /\ E[1].event \in Outcomes /\ E[1].kind.kind = "declare"
            /\ E[1].kind.id # D.declaring.id
         \/ E[1].event = "synced" /\ E[1].id # D.declaring.id
         \/ D.declaring.id \in Passing(Members(D.requests), Members(Tail(E)))
  PROVE  Good(D, Tail(E), A, C)
<1>1. E \in Seq(EventType) /\ D \in Daemon
  BY DEF Good
<1>2. /\ Tail(E) \in Seq(EventType) /\ E[1] \in EventType
      /\ Members(E) = Members(Tail(E)) \cup {E[1]}
  BY <1>1, MembersTail
<1>3. PICK e, rs, es, all : /\ e = E[1] /\ rs = Members(D.requests)
                            /\ es = Members(Tail(E)) /\ all = Members(E)
  OBVIOUS
<1>4. all = With(es, e)
  BY <1>2, <1>3 DEF With
<1>5. /\ e.event \notin Outcomes => Flying(rs, all) = Flying(rs, es)
      /\ e.event \in Outcomes => Flying(rs, all) = Flying(rs, es) \cup {e.kind}
      /\ e.event \in Outcomes /\ e.kind.kind = "declare" =>
           Passing(rs, all) = Passing(rs, es) \cup {e.kind.id}
      /\ e.event \in Outcomes /\ e.kind.kind # "declare" =>
           Passing(rs, all) = Passing(rs, es)
      /\ e.event = "synced" => Passing(rs, all) = Passing(rs, es) \cup {e.id}
      /\ e.event \notin Outcomes \cup {"synced"} => Passing(rs, all) = Passing(rs, es)
  BY <1>4, FlyingEvent
<1>6. Flying(rs, es) \subseteq Flying(rs, all)
  BY <1>5
<1>7. D.declaring.id # 0 => D.declaring.id \in Passing(rs, all)
  BY <1>3 DEF Good, Handed
<1>8. D.declaring.id # 0 => D.declaring.id \in Passing(rs, es)
  BY <1>3, <1>5, <1>7
<1>9. Handed(D, Tail(E))
  BY <1>3, <1>8 DEF Good, Handed
<1>10. \A k \in Flying(rs, es) : KindGood(D, A, k)
  BY <1>3, <1>6 DEF Good
<1>11. QED
  BY <1>2, <1>3, <1>9, <1>10 DEF Good

\* What is on its way to the daemon is in hand.
LEMMA OnItsWay ==
  ASSUME NEW rs, NEW es
  PROVE  /\ \A r \in rs : Configures(r) => r.kind \in Flying(rs, es)
         /\ \A r \in rs : IsSync(r) => r.sync \in Passing(rs, es)
         /\ \A e \in es : e.event \in Outcomes => e.kind \in Flying(rs, es)
         /\ \A e \in es : e.event \in Outcomes /\ e.kind.kind = "declare" =>
              e.kind.id \in Passing(rs, es)
         /\ \A e \in es : e.event = "synced" => e.id \in Passing(rs, es)
<1>1. \A r \in rs : Configures(r) => r.kind \in Flying(rs, es)
  BY DEF Flying, Configures
<1>2. \A r \in rs : IsSync(r) => r.sync \in Passing(rs, es)
  BY DEF Passing, IsSync
<1>3. \A e \in es : e.event \in Outcomes => e.kind \in Flying(rs, es)
  BY DEF Flying
<1>4. \A e \in es : e.event \in Outcomes /\ e.kind.kind = "declare" =>
        e.kind.id \in Passing(rs, es)
  BY <1>3 DEF Passing
<1>5. \A e \in es : e.event = "synced" => e.id \in Passing(rs, es)
  BY DEF Passing
<1>6. QED
  BY <1>1, <1>2, <1>3, <1>4, <1>5

\* The compositor reads a request whose answer is sent.
RequestRead(D) == [D EXCEPT !.requests = Tail(@)]

LEMMA RequestReadGood ==
  ASSUME NEW D, NEW E, NEW A, NEW C, Good(D, E, A, C), D.requests # <<>>,
         NEW r, r = D.requests[1],
         \/ Configures(r) /\ r.kind.kind # "declare"
         \/ /\ Configures(r) /\ r.kind.kind = "declare"
            /\ r.kind.id \in Passing(Members(Tail(D.requests)), Members(E))
         \/ IsSync(r) /\ r.sync \in Passing(Members(Tail(D.requests)), Members(E)),
         NEW R, R = RequestRead(D)
  PROVE  Good(R, E, A, C) /\ (Waiting(D) => Waiting(R))
<1>1. D \in Daemon /\ D.requests \in Seq(Request)
  BY DaemonIs DEF Good
<1>2. PICK q : q = Tail(D.requests)
  OBVIOUS
<1>3. q \in Seq(Request) /\ Members(D.requests) = Members(q) \cup {r}
  BY <1>1, <1>2, MembersTail
<1>4. /\ R \in Daemon /\ R.desks = D.desks /\ R.declaring = D.declaring
      /\ R.next = D.next /\ R.owed = D.owed /\ R.requests = q
  BY <1>1, <1>2, <1>3 DEF RequestRead, Daemon, Request
<1>5. PICK rs, es, all : /\ rs = Members(q) /\ es = Members(E)
                         /\ all = Members(D.requests)
  OBVIOUS
<1>6. all = With(rs, r)
  BY <1>3, <1>5 DEF With
<1>7. Flying(rs, es) \subseteq Flying(all, es) /\ Passing(all, es) = Passing(rs, es)
  <2>1. CASE Configures(r) /\ r.kind.kind # "declare"
    BY <1>6, <2>1, FlyingRequest
  <2>2. CASE /\ Configures(r) /\ r.kind.kind = "declare"
             /\ r.kind.id \in Passing(rs, es)
    <3>1. /\ Flying(all, es) = Flying(rs, es) \cup {r.kind}
          /\ Passing(all, es) = Passing(rs, es) \cup {r.kind.id}
      BY <1>6, <2>2, FlyingRequest
    <3>2. QED
      BY <2>2, <3>1
  <2>3. CASE IsSync(r) /\ r.sync \in Passing(rs, es)
    <3>1. /\ Flying(all, es) = Flying(rs, es)
          /\ Passing(all, es) = Passing(rs, es) \cup {r.sync}
      BY <1>6, <2>3, FlyingSync
    <3>2. QED
      BY <2>3, <3>1
  <2>4. QED
    BY <1>2, <1>5, <2>1, <2>2, <2>3
<1>8. DesksGood(R, A) /\ OwedGood(R, A, C)
  BY <1>4 DEF Good, DesksGood, OwedGood
<1>9. Handed(R, E)
  BY <1>4, <1>5, <1>7 DEF Good, Handed
<1>10. ASSUME NEW k \in Flying(Members(R.requests), Members(E)) PROVE KindGood(R, A, k)
  <2>1. KindGood(D, A, k)
    BY <1>4, <1>5, <1>7 DEF Good
  <2>2. QED
    BY <1>4, <2>1 DEF KindGood
<1>11. Waiting(D) => Waiting(R)
  BY <1>4 DEF Waiting
<1>12. QED
  BY <1>4, <1>8, <1>9, <1>10, <1>11 DEF Good

\* The round trip after a success: the declaration stays in hand.
SyncSent(D, id) == [D EXCEPT !.requests = Append(@, [sync |-> id])]

LEMMA SyncedGood ==
  ASSUME NEW D, NEW E, NEW A, NEW C, Good(D, E, A, C), NEW id \in Nat,
         NEW R, R = SyncSent(D, id)
  PROVE  /\ Good(R, E, A, C) /\ R.declaring = D.declaring
         /\ Waiting(D) => Waiting(R)
         /\ \A es : id \in Passing(Members(R.requests), es)
<1>1. D \in Daemon /\ D.requests \in Seq(Request)
  BY DaemonIs DEF Good
<1>2. PICK r : r = [sync |-> id]
  OBVIOUS
<1>3. r \in Request /\ IsSync(r) /\ r.sync = id
  BY <1>2 DEF Request, IsSync
<1>4. PICK q : q = Append(D.requests, r)
  OBVIOUS
<1>5. q \in Seq(Request) /\ Members(q) = Members(D.requests) \cup {r}
  BY <1>1, <1>3, <1>4, MembersAppend
<1>6. /\ R \in Daemon /\ R.desks = D.desks /\ R.declaring = D.declaring
      /\ R.next = D.next /\ R.owed = D.owed /\ R.requests = q
  BY <1>1, <1>2, <1>4, <1>5 DEF SyncSent, Daemon, Request
<1>7. PICK rs, es, all : /\ rs = Members(D.requests) /\ es = Members(E)
                         /\ all = Members(q)
  OBVIOUS
<1>8. all = With(rs, r)
  BY <1>5, <1>7 DEF With
<1>9. Flying(all, es) = Flying(rs, es) /\ Passing(all, es) = Passing(rs, es) \cup {r.sync}
  BY <1>3, <1>8, FlyingSync
<1>10. DesksGood(R, A) /\ OwedGood(R, A, C)
  BY <1>6 DEF Good, DesksGood, OwedGood
<1>11. Handed(R, E)
  BY <1>6, <1>7, <1>9 DEF Good, Handed
<1>12. ASSUME NEW k \in Flying(Members(R.requests), Members(E)) PROVE KindGood(R, A, k)
  <2>1. KindGood(D, A, k)
    BY <1>6, <1>7, <1>9 DEF Good
  <2>2. QED
    BY <1>6, <2>1 DEF KindGood
<1>13. Waiting(D) => Waiting(R)
  BY <1>6 DEF Waiting
<1>14. ASSUME NEW x PROVE id \in Passing(Members(R.requests), x)
  <2>1. r \in Members(q)
    BY <1>5
  <2>2. r.sync \in Passing(Members(q), x)
    BY <1>3, <2>1, OnItsWay
  <2>3. QED
    BY <1>3, <1>6, <2>2
<1>15. QED
  BY <1>6, <1>10, <1>11, <1>12, <1>13, <1>14 DEF Good
-----------------------------------------------------------------------------
(* The clients.                                                            *)

LEMMA InvIs ==
  ASSUME ConfigInv
  PROVE  /\ WorldGood /\ CommandsGood
         /\ Good(daemon, events, asks, Unhandled) /\ Waiting(daemon)
         /\ daemon \in Daemon /\ asks \in AsksType /\ Grows(asks, asks)
BY DEF ConfigInv, Good, Grows, AsksType

LEMMA CommandsKept ==
  ASSUME CommandsGood, Grows(asks, asks'), commands' = commands
  PROVE  CommandsGood' /\ Unhandled' = Unhandled
BY ByGrows DEF CommandsGood, Unhandled

\* Joins, Leaves: all the requests of a client that is let go are its own.
AsksOn(left) == UNION {AsksOf(daemon.desks[e].client) : e \in left}

LEMMA AsksOfGone ==
  ASSUME NEW left, NEW d \in left
  PROVE  Covers(asks, daemon.desks[d].client, AsksOn(left))
BY DEF AsksOf, AsksOn, Covers

LEMMA JoinsKeeps ==
  ASSUME ConfigInv, NEW c \in Clients, NEW d \in Desk, Joins(d, c)
  PROVE  ConfigInv'
<1>1. /\ WorldGood /\ CommandsGood
      /\ Good(daemon, events, asks, Unhandled) /\ Waiting(daemon)
      /\ daemon \in Daemon /\ asks \in AsksType
  BY InvIs
<1>2. /\ c \notin asks.met /\ asks' = [asks EXCEPT !.met = @ \cup {c}]
      /\ UNCHANGED <<heads, layout, events, commands>>
  BY DEF Joins
<1>3. Grows(asks, asks') /\ c \in asks'.met
  BY <1>1, <1>2 DEF Grows, AsksType
<1>4. CommandsGood' /\ Unhandled' = Unhandled
  BY <1>1, <1>2, <1>3, CommandsKept
<1>5. WorldGood'
  <2>1. daemon.known.heads[BESIDE].size \in Widths
    BY <1>1 DEF Daemon, Shape, Desk
  <2>2. pictures' \in [Desk -> [size : Widths, origin : Clients \cup {Nobody}]]
    BY <1>1, <2>1 DEF Joins, WorldGood
  <2>3. QED
    BY <1>1, <1>2, <2>2 DEF WorldGood
<1>6. FIRST \in Desk /\ BESIDE \in Desk /\ FIRST # BESIDE
  BY DEF Desk, FIRST, BESIDE
<1>7. CASE d = FIRST
  <2>1. PICK asked : asked = AsksOn(Desk)
    OBVIOUS
  <2>2. PICK F : F = Gone(daemon, FIRST, asked)
    OBVIOUS
  <2>3. PICK G : G = Gone(F, BESIDE, asked)
    OBVIOUS
  <2>4. daemon' = WithClient(G, FIRST, c)
    BY <1>6, <1>7, <2>1, <2>2, <2>3 DEF Joins, AsksOn, WithClient
  <2>5. \A e \in Desk : Covers(asks, daemon.desks[e].client, asked)
    BY <2>1, AsksOfGone
  <2>6. /\ Good(F, events, asks, Unhandled) /\ Waiting(F)
        /\ F.desks[FIRST] = Empty /\ F.desks[BESIDE] = daemon.desks[BESIDE]
    <3>1. /\ Good(daemon, events, asks, Unhandled)
          /\ Covers(asks, daemon.desks[FIRST].client, asked)
      BY <1>1, <1>6, <2>5
    <3>2. Good(F, events, asks, Unhandled)
      BY <1>6, <2>2, <3>1, GoneGood
    <3>3. Waiting(F) /\ F.desks[FIRST] = Empty /\ Elsewhere(F, daemon, FIRST)
      BY <1>1, <1>6, <2>2, <3>1, <3>2, GoneGood
    <3>4. QED
      BY <1>6, <3>2, <3>3 DEF Elsewhere
  <2>7. Covers(asks, F.desks[BESIDE].client, asked)
    BY <1>6, <2>5, <2>6
  <2>8. /\ Good(G, events, asks, Unhandled) /\ Waiting(G)
        /\ G.desks[FIRST] = Empty
    <3>1. Good(F, events, asks, Unhandled) /\ Waiting(F)
      BY <2>6
    <3>2. Good(G, events, asks, Unhandled)
      BY <1>6, <2>3, <2>7, <3>1, GoneGood
    <3>3. Waiting(G)
      BY <1>6, <2>3, <2>7, <3>1, <3>2, GoneGood
    <3>4. Elsewhere(G, F, BESIDE)
      BY <1>6, <2>3, <2>7, <3>1, <3>2, GoneGood
    <3>5. QED
      BY <1>6, <2>6, <3>2, <3>3, <3>4 DEF Elsewhere
  <2>9. Good(daemon', events, asks', Unhandled) /\ Waiting(daemon')
    <3>1. Good(G, events, asks, Unhandled) /\ c \notin asks.met
      BY <1>2, <2>8
    <3>2. G.desks[FIRST] = Empty
      BY <2>8
    <3>3. QED
      BY <1>3, <1>6, <2>4, <2>8, <3>1, <3>2, SeatedGood
  <2>10. QED
    BY <1>2, <1>4, <1>5, <2>9 DEF ConfigInv
<1>8. CASE d = BESIDE
  <2>1. PICK asked : asked = AsksOn({BESIDE})
    OBVIOUS
  <2>2. PICK G : G = Gone(daemon, BESIDE, asked)
    OBVIOUS
  <2>3. PICK H : H = WithClient(G, BESIDE, c)
    OBVIOUS
  <2>4. PICK I : I = WithPending(H, BESIDE, NoResize)
    OBVIOUS
  <2>5. daemon' = Reported(I, BESIDE, 0)
    BY <1>6, <1>8, <2>1, <2>2, <2>3, <2>4 DEF Joins, AsksOn, WithClient, WithPending
  <2>6. Covers(asks, daemon.desks[BESIDE].client, asked)
    BY <2>1, AsksOfGone
  <2>7. /\ Good(G, events, asks, Unhandled) /\ Waiting(G)
        /\ G.desks[BESIDE] = Empty
    <3>1. Good(daemon, events, asks, Unhandled)
      BY <1>1
    <3>2. Good(G, events, asks, Unhandled)
      BY <1>6, <2>2, <2>6, <3>1, GoneGood
    <3>3. Waiting(G)
      BY <1>1, <1>6, <2>2, <2>6, <3>1, <3>2, GoneGood
    <3>4. G.desks[BESIDE] = Empty
      BY <1>6, <2>2, <2>6, <3>1, <3>2, GoneGood
    <3>5. QED
      BY <3>2, <3>3, <3>4
  <2>8. Good(H, events, asks', Unhandled) /\ Waiting(H)
    <3>1. Good(G, events, asks, Unhandled) /\ c \notin asks.met
      BY <1>2, <2>7
    <3>2. G.desks[BESIDE] = Empty
      BY <2>7
    <3>3. QED
      BY <1>3, <1>6, <2>3, <2>7, <3>1, <3>2, SeatedGood
  <2>9. /\ Good(I, events, asks', Unhandled) /\ I.declaring = H.declaring
        /\ \A e \in Desk : I.desks[e].queued = H.desks[e].queued
    BY <1>6, <2>4, <2>8, ClearedGood
  <2>10. /\ Good(daemon', events, asks', Unhandled)
         /\ daemon'.desks = I.desks /\ daemon'.declaring = I.declaring
    BY <1>6, <2>5, <2>9, ToldGood
  <2>11. Waiting(daemon')
    BY <2>8, <2>9, <2>10 DEF Waiting
  <2>12. QED
    BY <1>2, <1>4, <1>5, <2>10, <2>11 DEF ConfigInv
<1>9. QED
  BY <1>7, <1>8 DEF Desk

LEMMA LeavesKeeps ==
  ASSUME ConfigInv, NEW c \in Clients, Leaves(c)
  PROVE  ConfigInv'
<1>1. /\ WorldGood /\ CommandsGood /\ Grows(asks, asks)
      /\ Good(daemon, events, asks, Unhandled) /\ Waiting(daemon)
  BY InvIs
<1>2. UNCHANGED <<heads, layout, events, pictures, commands, asks>>
  BY DEF Leaves
<1>3. CommandsGood' /\ Unhandled' = Unhandled /\ WorldGood'
  BY <1>1, <1>2, CommandsKept DEF WorldGood
<1>4. FIRST \in Desk /\ BESIDE \in Desk /\ FIRST # BESIDE
  BY DEF Desk, FIRST, BESIDE
<1>5. PICK d \in DeskOf(daemon, c) :
        LET left == IF d = FIRST THEN Desk ELSE {BESIDE}
            asked == UNION {AsksOf(daemon.desks[e].client) : e \in left}
            D == Gone(daemon, BESIDE, asked)
        IN daemon' = IF d = FIRST THEN Gone(D, FIRST, asked) ELSE D
  BY DEF Leaves
<1>6. PICK left \in SUBSET Desk :
        left = (IF d = FIRST THEN Desk ELSE {BESIDE}) /\ BESIDE \in left
  BY <1>4
<1>7. PICK asked : asked = AsksOn(left)
  OBVIOUS
<1>8. \A e \in left : Covers(asks, daemon.desks[e].client, asked)
  BY <1>7, AsksOfGone
<1>9. PICK F : F = Gone(daemon, BESIDE, asked)
  OBVIOUS
<1>10. /\ Good(F, events, asks, Unhandled) /\ Waiting(F)
       /\ F.desks[FIRST] = daemon.desks[FIRST]
  <2>1. /\ Good(daemon, events, asks, Unhandled)
        /\ Covers(asks, daemon.desks[BESIDE].client, asked)
    BY <1>1, <1>6, <1>8
  <2>2. Good(F, events, asks, Unhandled)
    BY <1>4, <1>9, <2>1, GoneGood
  <2>3. Waiting(F)
    BY <1>1, <1>4, <1>9, <2>1, <2>2, GoneGood
  <2>4. Elsewhere(F, daemon, BESIDE)
    BY <1>4, <1>9, <2>1, <2>2, GoneGood
  <2>5. QED
    BY <1>4, <2>2, <2>3, <2>4 DEF Elsewhere
<1>11. Good(daemon', events, asks, Unhandled) /\ Waiting(daemon')
  <2>1. CASE d = FIRST
    <3>1. daemon' = Gone(F, FIRST, asked)
      BY <1>5, <1>6, <1>7, <1>9, <2>1 DEF AsksOn
    <3>2. Covers(asks, F.desks[FIRST].client, asked)
      BY <1>4, <1>6, <1>8, <1>10, <2>1
    <3>3. QED
      BY <1>4, <1>10, <3>1, <3>2, GoneGood
  <2>2. CASE d # FIRST
    <3>1. daemon' = F
      BY <1>5, <1>6, <1>7, <1>9, <2>2 DEF AsksOn
    <3>2. QED
      BY <1>10, <3>1
  <2>3. QED
    BY <2>1, <2>2
<1>12. QED
  BY <1>2, <1>3, <1>11 DEF ConfigInv

\* Who is on a desk has come.
LEMMA OnDesk ==
  ASSUME ConfigInv, NEW c \in Clients, NEW d \in DeskOf(daemon, c)
  PROVE  d \in Desk /\ daemon.desks[d].client = c /\ c \in asks.met
BY ConfiguredAssumption DEF ConfigInv, Good, DesksGood, DeskOf

LEMMA AskedIs ==
  ASSUME ConfigInv, NEW c \in Clients, NEW a \in Asks, c \in asks.met, Asked(c, a),
         NEW n \in Nat, n = asks.made + 1
  PROVE  /\ Grows(asks, asks') /\ By(asks', n, c)
         /\ CommandsGood'
         /\ a.scale = NoScale => Unhandled' = Unhandled
         /\ a.scale # NoScale => Unhandled' = Unhandled \cup {n}
<1>1. /\ CommandsGood /\ asks \in AsksType /\ layout.others \in Nat
  BY InvIs DEF WorldGood
<1>2. a.size \in Widths /\ a.scale \in Scales \cup {NoScale}
  BY ConfiguredAssumption
<1>3. PICK w : w = [client |-> c, size |-> a.size, scale |-> a.scale, ask |-> n]
  OBVIOUS
<1>4. /\ w \in Command /\ w.client = c /\ w.ask = n
      /\ w.scale = a.scale
  BY <1>2, <1>3 DEF Command
<1>5. asks.made + layout.others < MaxAsks /\ asks.made \in Nat
  BY <1>1 DEF Asked, AsksType
<1>6. n \in 1 .. n /\ n \in 1 .. MaxAsks /\ n \notin 1 .. asks.made /\ asks.made <= n
  BY <1>1, <1>5, ConfiguredAssumption
<1>7. asks' = [asks EXCEPT !.made = n, !.by[n] = c]
  BY DEF Asked
<1>8. /\ asks' \in AsksType /\ asks'.made = n /\ asks'.met = asks.met
      /\ asks'.by[n] = c
      /\ \A x \in 1 .. MaxAsks : x # n => asks'.by[x] = asks.by[x]
  BY <1>1, <1>6, <1>7 DEF AsksType
<1>9. Grows(asks, asks')
  BY <1>1, <1>6, <1>8 DEF Grows
<1>10. By(asks', n, c)
  BY <1>6, <1>8 DEF By
<1>11. commands' = Append(commands, w)
  BY <1>3 DEF Asked
<1>12. commands' \in Seq(Command) /\ Members(commands') = Members(commands) \cup {w}
  BY <1>1, <1>4, <1>11, MembersAppend DEF CommandsGood
<1>13. CommandsGood'
  <2>1. ASSUME NEW x \in Members(commands') PROVE By(asks', x.ask, x.client)
    BY <1>1, <1>4, <1>9, <1>10, <1>12, ByGrows DEF CommandsGood
  <2>2. QED
    BY <1>12, <2>1 DEF CommandsGood
<1>14. /\ a.scale = NoScale => Unhandled' = Unhandled
       /\ a.scale # NoScale => Unhandled' = Unhandled \cup {n}
  BY <1>4, <1>12 DEF Unhandled
<1>15. QED
  BY <1>9, <1>10, <1>13, <1>14

LEMMA AskResizeKeeps ==
  ASSUME ConfigInv, NEW c \in Clients, NEW a \in Asks, AskResize(c, a)
  PROVE  ConfigInv'
<1>1. /\ WorldGood /\ Good(daemon, events, asks, Unhandled) /\ Waiting(daemon)
      /\ asks.made \in Nat
  BY InvIs DEF AsksType
<1>2. c \in asks.met
  BY OnDesk DEF AskResize
<1>3. PICK n \in Nat : n = asks.made + 1
  BY <1>1
<1>4. /\ Grows(asks, asks') /\ CommandsGood' /\ Unhandled' = Unhandled
  BY <1>2, <1>3, AskedIs DEF AskResize
<1>5. UNCHANGED <<heads, layout, events, daemon, pictures>>
  BY DEF AskResize
<1>6. Good(daemon, events, asks', Unhandled)
  BY <1>1, <1>4, GrownGood
<1>7. WorldGood'
  BY <1>1, <1>5 DEF WorldGood
<1>8. QED
  BY <1>1, <1>4, <1>5, <1>6, <1>7 DEF ConfigInv

LEMMA AskDensityKeeps ==
  ASSUME ConfigInv, NEW c \in Clients, NEW a \in Asks, AskDensity(c, a)
  PROVE  ConfigInv'
<1>1. /\ WorldGood /\ Good(daemon, events, asks, Unhandled) /\ Waiting(daemon)
      /\ asks.made \in Nat /\ daemon \in Daemon
  BY InvIs DEF AsksType
<1>2. PICK d \in Desk : daemon.desks[d].client = c /\ c \in asks.met
  BY OnDesk DEF AskDensity
<1>3. PICK n \in Nat : n = asks.made + 1
  BY <1>1
<1>4. /\ Grows(asks, asks') /\ By(asks', n, c)
      /\ CommandsGood' /\ Unhandled' = Unhandled \cup {n}
  BY <1>2, <1>3, AskedIs DEF AskDensity
<1>5. UNCHANGED <<heads, layout, events, pictures>>
  BY DEF AskDensity
<1>6. PICK R : R = [daemon EXCEPT !.owed = @ \cup {n}]
  OBVIOUS
<1>7. daemon' = R
  BY <1>3, <1>6 DEF AskDensity
<1>8. /\ R \in Daemon /\ R.desks = daemon.desks /\ R.declaring = daemon.declaring
      /\ R.next = daemon.next /\ R.requests = daemon.requests
      /\ R.owed = daemon.owed \cup {n}
  BY <1>1, <1>6 DEF Daemon
<1>9. Good(daemon, events, asks', Unhandled)
  BY <1>1, <1>4, GrownGood
<1>10. OwedGood(R, asks', Unhandled')
  <2>1. ASSUME NEW m \in R.owed
        PROVE  /\ m \in 1 .. asks'.made /\ m \in 1 .. MaxAsks
               /\ \E e \in Desk : R.desks[e].client = asks'.by[m]
                                  /\ R.desks[e].client # Nobody
               /\ \/ R.declaring.id # 0 /\ R.declaring.ask = m
                  \/ \E e \in Desk : R.desks[e].queued.ask = m
                  \/ m \in Unhandled'
    <3>1. CASE m = n
      BY <1>2, <1>4, <1>8, <3>1, ConfiguredAssumption DEF By
    <3>2. CASE m # n
      <4>1. m \in daemon.owed
        BY <1>8, <3>2
      <4>2. QED
        BY <1>4, <1>8, <1>9, <4>1 DEF Good, OwedGood
    <3>3. QED
      BY <3>1, <3>2
  <2>2. QED
    BY <2>1 DEF OwedGood
<1>11. DesksGood(R, asks') /\ Handed(R, events)
  BY <1>8, <1>9 DEF Good, DesksGood, Handed
<1>12. ASSUME NEW k \in Flying(Members(R.requests), Members(events))
       PROVE  KindGood(R, asks', k)
  BY <1>8, <1>9 DEF Good, KindGood
<1>13. Good(R, events, asks', Unhandled')
  BY <1>8, <1>9, <1>10, <1>11, <1>12 DEF Good
<1>14. Waiting(R)
  BY <1>1, <1>8 DEF Waiting
<1>15. WorldGood'
  BY <1>1, <1>5 DEF WorldGood
<1>16. QED
  BY <1>4, <1>5, <1>7, <1>13, <1>14, <1>15 DEF ConfigInv

LEMMA HandleAskKeeps ==
  ASSUME ConfigInv, HandleAsk
  PROVE  ConfigInv'
<1>1. /\ WorldGood /\ CommandsGood
      /\ Good(daemon, events, asks, Unhandled) /\ Waiting(daemon)
      /\ daemon \in Daemon /\ asks \in AsksType
  BY InvIs
<1>2. /\ commands # <<>> /\ commands' = Tail(commands)
      /\ UNCHANGED <<heads, layout, events, pictures, asks>>
  BY DEF HandleAsk
<1>3. PICK w : w = commands[1]
  OBVIOUS
<1>4. /\ commands' \in Seq(Command) /\ w \in Command
      /\ Members(commands) = Members(commands') \cup {w}
  BY <1>1, <1>2, <1>3, MembersTail DEF CommandsGood
<1>5. By(asks, w.ask, w.client)
  BY <1>1, <1>4 DEF CommandsGood
<1>6. CommandsGood'
  BY <1>1, <1>2, <1>4 DEF CommandsGood
<1>7. WorldGood'
  BY <1>1, <1>2 DEF WorldGood
<1>8. /\ Unhandled \subseteq Unhandled' \cup {w.ask}
      /\ w.scale = NoScale => Unhandled = Unhandled'
  BY <1>4 DEF Unhandled
<1>9. PICK C, B : C = Unhandled' /\ B = C \cup {w.ask}
  OBVIOUS
<1>10. Good(daemon, events, asks, B)
  BY <1>1, <1>8, <1>9, GoodMore
<1>11. /\ w.client \in Clients /\ w.size \in Widths /\ w.ask \in Nat
       /\ w.scale \in Scales \cup {NoScale}
  BY <1>4 DEF Command
<1>12. CASE DeskOf(daemon, w.client) = {} /\ daemon' = daemon
  <2>1. \A d \in Desk : daemon.desks[d].client # w.client
    BY <1>12 DEF DeskOf
  <2>2. ASSUME NEW n \in daemon.owed PROVE n # w.ask
    BY <1>5, <1>10, <2>1 DEF Good, OwedGood, By
  <2>3. OwedGood(daemon, asks, C)
    BY <1>9, <1>10, <2>2 DEF Good, OwedGood
  <2>4. Good(daemon, events, asks, C)
    BY <1>10, <2>3 DEF Good
  <2>5. QED
    BY <1>1, <1>2, <1>6, <1>7, <1>9, <1>12, <2>4 DEF ConfigInv
<1>13. CASE \E d \in DeskOf(daemon, w.client) :
              /\ w.scale = NoScale
              /\ daemon' = Resized(daemon, d,
                             [kind |-> "resize", id |-> 0, desk |-> d,
                              client |-> w.client, size |-> w.size,
                              scale |-> NoScale, ask |-> w.ask, retry |-> FALSE])
  <2>1. PICK d \in DeskOf(daemon, w.client) :
              /\ w.scale = NoScale
              /\ daemon' = Resized(daemon, d,
                             [kind |-> "resize", id |-> 0, desk |-> d,
                              client |-> w.client, size |-> w.size,
                              scale |-> NoScale, ask |-> w.ask, retry |-> FALSE])
    BY <1>13
  <2>2. d \in Desk /\ w.client = daemon.desks[d].client
    BY DEF DeskOf
  <2>3. PICK k : k = [kind |-> "resize", id |-> 0, desk |-> d,
                      client |-> w.client, size |-> w.size,
                      scale |-> NoScale, ask |-> w.ask, retry |-> FALSE]
    OBVIOUS
  <2>4. k \in Kind /\ k.kind = "resize" /\ k.client = w.client
    BY <1>11, <2>2, <2>3 DEF Kind
  <2>5. daemon' = Resized(daemon, d, k)
    BY <2>1, <2>3
  <2>6. Good(daemon, events, asks, C)
    BY <1>1, <1>8, <1>9, <2>1
  <2>7. Good(daemon', events, asks, C)
    BY <2>2, <2>4, <2>5, <2>6, ResizedGood
  <2>8. Waiting(daemon')
    BY <1>1, <2>2, <2>4, <2>5, <2>6, <2>7, ResizedGood
  <2>9. QED
    BY <1>2, <1>6, <1>7, <1>9, <2>7, <2>8 DEF ConfigInv
<1>14. CASE \E d \in DeskOf(daemon, w.client) :
              w.scale # NoScale /\ daemon' = Declared(daemon, d, w, FALSE)
  <2>1. PICK d \in DeskOf(daemon, w.client), retry \in BOOLEAN :
          w.scale # NoScale /\ daemon' = Declared(daemon, d, w, retry)
    BY <1>14
  <2>2. d \in Desk /\ w.client = daemon.desks[d].client
    BY DEF DeskOf
  <2>3. w \in Wait
    BY <1>4, <1>11, <2>1 DEF Wait, Command
  <2>4. Good(daemon, events, asks, C \cup {w.ask})
    BY <1>9, <1>10
  <2>5. CASE daemon.declaring.id = 0
    <3>1. /\ Good(daemon', events, asks, C)
          /\ \A e \in Desk : daemon'.desks[e].queued = daemon.desks[e].queued
      <4>1. Good(daemon', events, asks, C)
        BY <1>5, <2>1, <2>2, <2>3, <2>4, <2>5, DeclaredGood
      <4>2. ASSUME NEW e \in Desk PROVE daemon'.desks[e].queued = daemon.desks[e].queued
        BY SMTT(60), <1>5, <2>1, <2>2, <2>3, <2>4, <2>5, <4>1, DeclaredGood
      <4>3. QED
        BY <4>1, <4>2
    <3>2. Waiting(daemon')
      BY <1>1, <2>5, <3>1 DEF Waiting
    <3>3. QED
      BY <1>2, <1>6, <1>7, <1>9, <3>1, <3>2 DEF ConfigInv
  <2>6. CASE daemon.declaring.id # 0
    <3>1. Good(daemon', events, asks, C) /\ daemon'.declaring = daemon.declaring
      BY <1>5, <2>1, <2>2, <2>3, <2>4, <2>6, DeclaredWaits
    <3>2. Waiting(daemon')
      BY <2>6, <3>1 DEF Waiting
    <3>3. QED
      BY <1>2, <1>6, <1>7, <1>9, <3>1, <3>2 DEF ConfigInv
  <2>7. QED
    BY <2>5, <2>6
<1>15. QED
  BY <1>3, <1>12, <1>13, <1>14 DEF HandleAsk
-----------------------------------------------------------------------------
(* The compositor.                                                         *)

LEMMA TwoMore ==
  ASSUME NEW S, NEW s \in Seq(S), NEW x \in S, NEW y \in S
  PROVE  s \o <<x, y>> = Append(Append(s, x), y)
OBVIOUS

\* A configuration is applied.
LEMMA AppliedIs ==
  ASSUME WorldGood, NEW k \in Kind,
         NEW to, to = [heads EXCEPT ![k.desk].size = k.size,
                                    ![k.desk].scale =
                                      IF k.scale = NoScale THEN @ ELSE k.scale]
  PROVE  to \in [Desk -> Shape]
<1>1. PICK d \in Desk, n \in Widths, f \in Scales \cup {NoScale} :
        d = k.desk /\ n = k.size /\ f = k.scale
  BY DEF Kind
<1>2. PICK h : h = [heads EXCEPT ![d].size = n]
  OBVIOUS
<1>3. h \in [Desk -> Shape]
  BY <1>2 DEF WorldGood, Shape
<1>4. PICK g : g = IF f = NoScale THEN h[d].scale ELSE f
  OBVIOUS
<1>5. g \in Scales
  BY <1>3, <1>4 DEF Shape
<1>6. to = [h EXCEPT ![d].scale = g]
  BY <1>1, <1>2, <1>4
<1>7. QED
  BY <1>3, <1>5, <1>6 DEF Shape

LEMMA LayoutEventIs ==
  ASSUME NEW to \in [Desk -> Shape], NEW n \in Nat
  PROVE  LayoutEvent(to, n) \in EventType /\ LayoutEvent(to, n).event \notin Outcomes
BY DEF EventType, LayoutEvent, Outcomes

\* A configuration is read, and its outcome is among the events.
LEMMA AnsweredRead ==
  ASSUME NEW D, NEW F, NEW A, NEW C, Good(D, F, A, C), Waiting(D), D.requests # <<>>,
         NEW r, r = D.requests[1], Configures(r),
         NEW e \in Members(F), e.event \in Outcomes, e.kind = r.kind,
         NEW R, R = RequestRead(D)
  PROVE  Good(R, F, A, C) /\ Waiting(R)
<1>1. r.kind.kind = "declare" =>
        r.kind.id \in Passing(Members(Tail(D.requests)), Members(F))
  BY OnItsWay
<1>2. Good(R, F, A, C)
  BY <1>1, RequestReadGood
<1>3. QED
  BY <1>1, <1>2, RequestReadGood

LEMMA AnswersKeeps ==
  ASSUME ConfigInv, Answers
  PROVE  ConfigInv'
<1>1. /\ WorldGood /\ CommandsGood /\ Grows(asks, asks)
      /\ Good(daemon, events, asks, Unhandled) /\ Waiting(daemon)
      /\ daemon \in Daemon
  BY InvIs
<1>2. PICK r : r = daemon.requests[1]
  OBVIOUS
<1>3. /\ daemon.requests # <<>> /\ "kind" \in DOMAIN r
      /\ daemon' = RequestRead(daemon)
      /\ UNCHANGED <<pictures, commands, asks>>
  BY <1>2 DEF Answers, RequestRead
<1>4. r \in Request /\ r \in Members(daemon.requests)
  BY <1>1, <1>2, <1>3, DaemonIs, MembersTail
<1>5. Configures(r) /\ r.kind \in Kind
  BY <1>3, <1>4, RequestIs
<1>6. KindGood(daemon, asks, r.kind)
  BY <1>1, <1>4, <1>5, OnItsWay DEF Good
<1>7. CommandsGood' /\ Unhandled' = Unhandled
  BY <1>1, <1>3, CommandsKept
<1>8. PICK C : C = Unhandled
  OBVIOUS
<1>9. events \in Seq(EventType)
  BY <1>1 DEF Good
<1>10. ASSUME NEW e \in Members(events'), e.event \in Outcomes, e.kind = r.kind,
              Good(daemon, events', asks, C), WorldGood'
       PROVE  ConfigInv'
  <2>1. Good(daemon', events', asks, C) /\ Waiting(daemon')
    BY <1>1, <1>2, <1>3, <1>5, <1>10, AnsweredRead
  <2>2. QED
    BY <1>3, <1>7, <1>8, <1>10, <2>1 DEF ConfigInv
<1>11. ASSUME NEW o \in Outcomes, NEW e, e = [event |-> o, kind |-> r.kind]
       PROVE  e \in EventType /\ e.event \in Outcomes /\ e.kind = r.kind
  BY <1>5, <1>11 DEF EventType
<1>12. CASE \E o \in Outcomes : /\ events' = Append(events, [event |-> o, kind |-> r.kind])
                                /\ UNCHANGED <<heads, layout>>
  <2>1. PICK e : /\ events' = Append(events, e)
                 /\ \E o \in Outcomes : e = [event |-> o, kind |-> r.kind]
    BY <1>12
  <2>2. e \in EventType /\ e.event \in Outcomes /\ e.kind = r.kind
    BY <1>11, <2>1
  <2>3. Good(daemon, events, asks, C) /\ KindGood(daemon, asks, e.kind)
    BY <1>1, <1>6, <1>8, <2>2
  <2>4. Good(daemon, events', asks, C)
    BY <2>1, <2>2, <2>3, SentGood
  <2>5. e \in Members(events')
    BY <2>1, <2>2, <2>3, <2>4, SentGood
  <2>6. WorldGood'
    BY <1>1, <1>3, <1>12 DEF WorldGood
  <2>7. QED
    BY <1>10, <2>2, <2>4, <2>5, <2>6
<1>13. ASSUME NEW x \in EventType, x.event \notin Outcomes,
              NEW e \in EventType, e.event \in Outcomes, e.kind = r.kind,
              events' \in {events \o <<x, e>>, events \o <<e, x>>},
              WorldGood'
       PROVE  ConfigInv'
  <2>1. Good(daemon, events, asks, C) /\ KindGood(daemon, asks, e.kind)
    BY <1>1, <1>6, <1>8, <1>13
  <2>2. x.event \notin Outcomes /\ e.event \in Outcomes
    BY <1>13
  <2>3. CASE events' = events \o <<x, e>>
    <3>1. PICK F : F = Append(events, x)
      OBVIOUS
    <3>2. Good(daemon, F, asks, C)
      BY <2>1, <2>2, <3>1, SentGood
    <3>3. events' = Append(F, e)
      BY <1>9, <2>3, <3>1, TwoMore
    <3>4. Good(daemon, events', asks, C)
      BY <2>1, <3>2, <3>3, SentGood
    <3>5. e \in Members(events')
      BY <2>1, <3>2, <3>3, <3>4, SentGood
    <3>6. QED
      BY <1>10, <1>13, <3>4, <3>5
  <2>4. CASE events' = events \o <<e, x>>
    <3>1. PICK F : F = Append(events, e)
      OBVIOUS
    <3>2. Good(daemon, F, asks, C)
      BY <2>1, <3>1, SentGood
    <3>3. e \in Members(F)
      BY <2>1, <3>1, <3>2, SentGood
    <3>4. events' = Append(F, x)
      BY <1>9, <2>4, <3>1, TwoMore
    <3>5. Good(daemon, events', asks, C)
      BY <2>2, <3>2, <3>4, SentGood
    <3>6. e \in Members(events')
      <4>1. F \in Seq(EventType)
        BY <3>2 DEF Good
      <4>2. QED
        BY <3>3, <3>4, <4>1, MembersAppend
    <3>7. QED
      BY <1>10, <1>13, <3>5, <3>6
  <2>5. QED
    BY <1>13, <2>3, <2>4
<1>14. ASSUME NEW to, NEW x, NEW e,
              to = [heads EXCEPT ![r.kind.desk].size = r.kind.size,
                                 ![r.kind.desk].scale =
                                   IF r.kind.scale = NoScale THEN @ ELSE r.kind.scale],
              x = LayoutEvent(to, layout.serial + 1),
              e = [event |-> "succeeded", kind |-> r.kind],
              events' \in {events \o <<x, e>>, events \o <<e, x>>},
              heads' = to, layout' = [layout EXCEPT !.serial = @ + 1]
       PROVE  ConfigInv'
  <2>1. to \in [Desk -> Shape]
    BY <1>1, <1>5, <1>14, AppliedIs
  <2>2. PICK n \in Nat : n = layout.serial + 1
    BY <1>1 DEF WorldGood
  <2>3. layout' \in [serial : Nat, others : Nat]
    <3>1. layout' = [layout EXCEPT !.serial = n]
      BY <1>14, <2>2
    <3>2. QED
      BY <1>1, <3>1 DEF WorldGood
  <2>4. WorldGood'
    <3>1. heads' = to /\ pictures' = pictures
      BY <1>3, <1>14
    <3>2. QED
      BY <1>1, <2>1, <2>3, <3>1 DEF WorldGood
  <2>5. x \in EventType /\ x.event \notin Outcomes
    <3>1. x = LayoutEvent(to, n)
      BY <1>14, <2>2
    <3>2. QED
      BY <2>1, <3>1, LayoutEventIs
  <2>6. e \in EventType /\ e.event \in Outcomes /\ e.kind = r.kind
    BY <1>11, <1>14 DEF Outcomes
  <2>7. QED
    BY <1>13, <1>14, <2>4, <2>5, <2>6
<1>15. QED
  BY <1>2, <1>12, <1>14 DEF Answers, Outcomes

LEMMA SyncsKeeps ==
  ASSUME ConfigInv, Syncs
  PROVE  ConfigInv'
<1>1. /\ WorldGood /\ CommandsGood /\ Grows(asks, asks)
      /\ Good(daemon, events, asks, Unhandled) /\ Waiting(daemon)
      /\ daemon \in Daemon
  BY InvIs
<1>2. PICK r, e : r = daemon.requests[1] /\ e = [event |-> "synced", id |-> r.sync]
  OBVIOUS
<1>3. /\ daemon.requests # <<>> /\ "sync" \in DOMAIN r
      /\ events' = Append(events, e) /\ daemon' = RequestRead(daemon)
      /\ UNCHANGED <<heads, layout, pictures, commands, asks>>
  BY <1>2 DEF Syncs, RequestRead
<1>4. r \in Request /\ IsSync(r) /\ r.sync \in Nat
  BY <1>1, <1>2, <1>3, DaemonIs, MembersTail, RequestIs
<1>5. e \in EventType /\ e.event = "synced" /\ e.id = r.sync /\ e.event \notin Outcomes
  BY <1>2, <1>4 DEF EventType, Outcomes
<1>6. CommandsGood' /\ Unhandled' = Unhandled /\ WorldGood'
  BY <1>1, <1>3, CommandsKept DEF WorldGood
<1>7. PICK C : C = Unhandled
  OBVIOUS
<1>8. Good(daemon, events', asks, C) /\ e \in Members(events')
  <2>1. Good(daemon, events, asks, C)
    BY <1>1, <1>7
  <2>2. Good(daemon, events', asks, C)
    BY <1>3, <1>5, <2>1, SentGood
  <2>3. QED
    BY <1>3, <1>5, <2>1, <2>2, SentGood
<1>9. r.sync \in Passing(Members(Tail(daemon.requests)), Members(events'))
  BY <1>5, <1>8, OnItsWay
<1>10. Good(daemon', events', asks, C)
  BY <1>2, <1>3, <1>4, <1>8, <1>9, RequestReadGood
<1>11. Waiting(daemon')
  BY <1>1, <1>2, <1>3, <1>4, <1>8, <1>9, <1>10, RequestReadGood
<1>12. QED
  BY <1>3, <1>6, <1>7, <1>10, <1>11 DEF ConfigInv

\* What is sent that is no outcome, and nothing else of the connection changes.
LEMMA SentKeeps ==
  ASSUME ConfigInv, NEW e \in EventType, e.event \notin Outcomes,
         events' = Append(events, e), WorldGood', UNCHANGED <<daemon, commands, asks>>
  PROVE  ConfigInv'
<1>1. /\ CommandsGood /\ Grows(asks, asks)
      /\ Good(daemon, events, asks, Unhandled) /\ Waiting(daemon)
  BY InvIs
<1>2. CommandsGood' /\ Unhandled' = Unhandled
  BY <1>1, CommandsKept
<1>3. Good(daemon, events', asks, Unhandled)
  BY <1>1, SentGood
<1>4. QED
  BY <1>1, <1>2, <1>3 DEF ConfigInv

LEMMA OthersConfigureKeeps ==
  ASSUME ConfigInv, OthersConfigure
  PROVE  ConfigInv'
<1>1. WorldGood
  BY InvIs
<1>2. PICK e : e = LayoutEvent(heads', layout'.serial)
  OBVIOUS
<1>3. heads' \in [Desk -> Shape]
  BY <1>1 DEF OthersConfigure, WorldGood, Shape
<1>4. layout' \in [serial : Nat, others : Nat]
  BY <1>1 DEF OthersConfigure, WorldGood
<1>5. WorldGood'
  BY <1>1, <1>3, <1>4 DEF OthersConfigure, WorldGood
<1>6. e \in EventType /\ e.event \notin Outcomes
  BY <1>2, <1>3, <1>4 DEF EventType, LayoutEvent, Outcomes
<1>7. events' = Append(events, e) /\ UNCHANGED <<daemon, commands, asks>>
  BY <1>2 DEF OthersConfigure
<1>8. QED
  BY <1>5, <1>6, <1>7, SentKeeps

LEMMA CapturesKeeps ==
  ASSUME ConfigInv, NEW d \in Desk, Captures(d)
  PROVE  ConfigInv'
<1>1. WorldGood
  BY InvIs
<1>2. PICK e : e = [event |-> "frame", desk |-> d, size |-> heads[d].size]
  OBVIOUS
<1>3. e \in EventType /\ e.event \notin Outcomes
  BY <1>1, <1>2 DEF EventType, WorldGood, Shape, Outcomes
<1>4. events' = Append(events, e) /\ WorldGood' /\ UNCHANGED <<daemon, commands, asks>>
  BY <1>1, <1>2 DEF Captures, WorldGood
<1>5. QED
  BY <1>3, <1>4, SentKeeps
-----------------------------------------------------------------------------
(* The compositor thread.                                                  *)

LEMMA ReadsIs ==
  ASSUME ConfigInv, NEW o, Reads(o)
  PROVE  /\ events # <<>> /\ events' = Tail(events) /\ events[1].event = o
         /\ events[1] \in EventType /\ events[1] \in Members(events)
         /\ CommandsGood' /\ Unhandled' = Unhandled
         /\ UNCHANGED <<heads, layout, commands, asks>>
<1>1. CommandsGood /\ Grows(asks, asks) /\ events \in Seq(EventType)
  BY InvIs DEF Good
<1>2. /\ events # <<>> /\ events' = Tail(events) /\ events[1].event = o
      /\ UNCHANGED <<heads, layout, commands, asks>>
  BY DEF Reads
<1>3. events[1] \in EventType /\ events[1] \in Members(events)
  BY <1>1, <1>2, MembersTail
<1>4. CommandsGood' /\ Unhandled' = Unhandled
  BY <1>1, <1>2, CommandsKept
<1>5. QED
  BY <1>2, <1>3, <1>4

LEMMA ReadsKeeps ==
  ASSUME ConfigInv, NEW o, Reads(o), pictures' = pictures,
         Good(daemon', events', asks, Unhandled), Waiting(daemon')
  PROVE  ConfigInv'
<1>1. /\ CommandsGood' /\ Unhandled' = Unhandled
      /\ UNCHANGED <<heads, layout, commands, asks>>
  BY ReadsIs
<1>2. WorldGood'
  BY <1>1, InvIs DEF WorldGood
<1>3. QED
  BY <1>1, <1>2 DEF ConfigInv

\* The outcome of a configuration is of one that was good.
LEMMA OutcomeIs ==
  ASSUME ConfigInv, events # <<>>, events[1].event \in Outcomes
  PROVE  /\ events[1].kind \in Kind
         /\ KindGood(daemon, asks, events[1].kind)
<1>1. events \in Seq(EventType) /\ Good(daemon, events, asks, Unhandled)
  BY InvIs DEF Good
<1>2. events[1] \in EventType /\ events[1] \in Members(events)
  BY <1>1, MembersTail
<1>3. events[1].kind \in Flying(Members(daemon.requests), Members(events))
  BY <1>2, OnItsWay
<1>4. QED
  BY <1>1, <1>2, <1>3, EventIs DEF Good

LEMMA ToldWaits ==
  ASSUME NEW D, NEW E, NEW A, NEW C, NEW d \in Desk, Good(D, E, A, C), Waiting(D),
         NEW R, R = Reported(D, d, 0)
  PROVE  Good(R, E, A, C) /\ Waiting(R)
<1>1. Good(R, E, A, C) /\ R.desks = D.desks /\ R.declaring = D.declaring
  BY ToldGood
<1>2. QED
  BY <1>1 DEF Waiting

\* The declaration out is answered, of whichever desk, and what waited runs.
LEMMA TakenAnswered ==
  ASSUME NEW D, NEW E, NEW A, NEW C, Good(D, E, A, C),
         NEW d \in Desk, NEW n, n = D.declaring.ask,
         NEW R, R = Settled(Reported(Taken(D), d, n))
  PROVE  Good(R, E, A, C) /\ Waiting(R)
BY TakenGood, AnsweredGood

LEMMA ScaleToldGood ==
  ASSUME NEW D, NEW E, NEW A, NEW C, Good(D, E, A, C), Waiting(D), NEW d \in Desk,
         NEW R, R = ScaleTold(D, d)
  PROVE  Good(R, E, A, C) /\ Waiting(R)
<1>1. CASE D.declaring.id # 0 /\ D.declaring.desk = d
  <2>1. R = Settled(Reported(Taken(D), d, D.declaring.ask))
    BY <1>1 DEF ScaleTold
  <2>2. QED
    BY <2>1, TakenAnswered
<1>2. CASE ~(D.declaring.id # 0 /\ D.declaring.desk = d)
  <2>1. R = Reported(D, d, 0)
    BY <1>2 DEF ScaleTold
  <2>2. QED
    BY <2>1, ToldWaits
<1>3. QED
  BY <1>1, <1>2

LEMMA DesksTold ==
  ASSUME NEW D, NEW E, NEW A, NEW C, Good(D, E, A, C), Waiting(D),
         NEW d \in Desk, NEW changed
  PROVE  /\ Good(Told(D, d, changed), E, A, C) /\ Waiting(Told(D, d, changed))
         /\ Good(Sized(D, d), E, A, C) /\ Waiting(Sized(D, d))
<1>1. Good(Told(D, d, changed), E, A, C) /\ Waiting(Told(D, d, changed))
  BY ScaleToldGood DEF Told
<1>2. Good(Sized(D, d), E, A, C) /\ Waiting(Sized(D, d))
  BY ToldWaits DEF Sized
<1>3. QED
  BY <1>1, <1>2

LEMMA LayoutChangedKeeps ==
  ASSUME ConfigInv, LayoutChanged
  PROVE  ConfigInv'
<1>1. Reads("layout") /\ pictures' = pictures
  BY DEF LayoutChanged
<1>2. PICK C : C = Unhandled
  OBVIOUS
<1>3. /\ Good(daemon, events, asks, C) /\ Waiting(daemon) /\ daemon \in Daemon
      /\ events # <<>> /\ events' = Tail(events)
      /\ events[1] \in EventType /\ events[1].event = "layout"
  BY <1>1, <1>2, InvIs, ReadsIs
<1>4. PICK now : now = [heads |-> events[1].heads, serial |-> events[1].serial]
  OBVIOUS
<1>5. now \in [heads : [Desk -> Shape], serial : Nat]
  BY <1>3, <1>4, EventIs
<1>6. PICK D : D = [daemon EXCEPT !.known = now]
  OBVIOUS
<1>7. PICK changed : changed = {d \in Desk : now.heads[d].scale
                                             # daemon.known.heads[d].scale}
  OBVIOUS
<1>8. PICK d \in Desk, e \in Desk :
        daemon' = Sized(Sized(Told(Told(D, d, changed), e, changed), FIRST), BESIDE)
  BY <1>4, <1>6, <1>7 DEF LayoutChanged
<1>9. /\ D \in Daemon /\ D.desks = daemon.desks /\ D.declaring = daemon.declaring
      /\ D.next = daemon.next /\ D.requests = daemon.requests /\ D.owed = daemon.owed
  BY <1>3, <1>5, <1>6 DEF Daemon
<1>10. Good(daemon, events', asks, C)
  BY <1>3, ReadGood DEF Outcomes
<1>11. Good(D, events', asks, C) /\ Waiting(D)
  <2>1. \A k \in Flying(Members(D.requests), Members(events')) : KindGood(D, asks, k)
    BY <1>9, <1>10 DEF Good, KindGood
  <2>2. DesksGood(D, asks) /\ OwedGood(D, asks, C) /\ Handed(D, events')
    BY <1>9, <1>10 DEF Good, DesksGood, OwedGood, Handed
  <2>3. QED
    BY <1>3, <1>9, <1>10, <2>1, <2>2 DEF Good, Waiting
<1>12. PICK F : F = Told(D, d, changed)
  OBVIOUS
<1>13. Good(F, events', asks, C) /\ Waiting(F)
  BY <1>11, <1>12, DesksTold
<1>14. PICK G : G = Told(F, e, changed)
  OBVIOUS
<1>15. Good(G, events', asks, C) /\ Waiting(G)
  BY <1>13, <1>14, DesksTold
<1>16. PICK H : H = Sized(G, FIRST)
  OBVIOUS
<1>17. Good(H, events', asks, C) /\ Waiting(H)
  BY <1>15, <1>16, DesksTold DEF Desk
<1>18. daemon' = Sized(H, BESIDE)
  BY <1>8, <1>12, <1>14, <1>16
<1>19. Good(daemon', events', asks, C) /\ Waiting(daemon')
  BY <1>17, <1>18, DesksTold DEF Desk
<1>20. QED
  BY <1>1, <1>2, <1>19, ReadsKeeps

LEMMA SucceedsKeeps ==
  ASSUME ConfigInv, Succeeds
  PROVE  ConfigInv'
<1>1. Reads("succeeded") /\ pictures' = pictures
  BY DEF Succeeds
<1>2. PICK C, k : C = Unhandled /\ k = events[1].kind
  OBVIOUS
<1>3. /\ Good(daemon, events, asks, C) /\ Waiting(daemon)
      /\ events # <<>> /\ events' = Tail(events) /\ events[1].event \in Outcomes
  BY <1>1, <1>2, InvIs, ReadsIs DEF Outcomes
<1>4. k \in Kind
  BY <1>2, <1>3, OutcomeIs
<1>5. CASE k.kind = "declare" /\ daemon.declaring.id = k.id
  <2>1. PICK id \in Nat : id = k.id
    BY <1>4 DEF Kind
  <2>2. daemon' = SyncSent(daemon, id)
    BY <1>2, <1>5, <2>1 DEF Succeeds, SyncSent
  <2>3. /\ Good(daemon', events, asks, C) /\ daemon'.declaring = daemon.declaring
        /\ Waiting(daemon')
        /\ id \in Passing(Members(daemon'.requests), Members(Tail(events)))
    <3>1. Good(daemon', events, asks, C)
      BY <1>3, <2>2, SyncedGood
    <3>2. Waiting(daemon') /\ daemon'.declaring = daemon.declaring
      BY <1>3, <2>2, <3>1, SyncedGood
    <3>3. ASSUME NEW es PROVE id \in Passing(Members(daemon'.requests), es)
      BY <1>3, <2>2, <3>1, SyncedGood
    <3>4. QED
      BY <3>1, <3>2, <3>3
  <2>4. Good(daemon', events', asks, C)
    BY <1>3, <1>5, <2>1, <2>3, ReadGood
  <2>5. QED
    BY <1>1, <1>2, <2>3, <2>4, ReadsKeeps
<1>6. CASE ~(k.kind = "declare" /\ daemon.declaring.id = k.id)
  <2>1. daemon' = daemon
    BY <1>2, <1>6 DEF Succeeds
  <2>2. Good(daemon, events', asks, C)
    BY <1>2, <1>3, <1>6, ReadGood
  <2>3. QED
    BY <1>1, <1>2, <1>3, <2>1, <2>2, ReadsKeeps
<1>7. QED
  BY <1>5, <1>6

\* A declaration's outcome is read, the declaration taken and answered.
LEMMA OutcomeAnswered ==
  ASSUME NEW D, NEW E, NEW A, NEW C, Good(D, E, A, C), E # <<>>,
         NEW d \in Desk, NEW n, n = D.declaring.ask,
         NEW R, R = Settled(Reported(Taken(D), d, n))
  PROVE  Good(R, Tail(E), A, C) /\ Waiting(R)
<1>1. Good(Taken(D), E, A, C \cup {n}) /\ Taken(D).declaring.id = 0
  BY TakenGood
<1>2. Good(Taken(D), Tail(E), A, C \cup {n})
  BY <1>1, ReadGood
<1>3. QED
  BY <1>2, AnsweredGood

LEMMA CancelledDeclaration ==
  ASSUME NEW D, NEW E, NEW A, NEW C, Good(D, E, A, C), E # <<>>,
         NEW k \in Kind, KindGood(D, A, k), k.kind = "declare", D.declaring.id = k.id,
         NEW F, F = Taken(WithPending(D, k.desk, NoResize)),
         NEW R, R = Settled(IF F.desks[k.desk].client = k.client
                            THEN AskedAgain(k, F) ELSE F)
  PROVE  Good(R, Tail(E), A, C) /\ Waiting(R)
<1>1. k.desk \in Desk
  BY DEF Kind
<1>2. PICK G : G = WithPending(D, k.desk, NoResize)
  OBVIOUS
<1>3. /\ Good(G, E, A, C) /\ G.declaring = D.declaring /\ G.owed = D.owed
      /\ \A e \in Desk : G.desks[e].client = D.desks[e].client
  BY <1>1, <1>2, ClearedGood
<1>4. D.declaring.ask = k.ask
  BY DEF KindGood
<1>5. Good(F, E, A, C \cup {k.ask}) /\ F.desks = G.desks /\ F.declaring.id = 0
  BY <1>2, <1>3, <1>4, TakenGood
<1>6. Good(F, Tail(E), A, C \cup {k.ask})
  BY <1>5, ReadGood
<1>7. /\ By(A, k.ask, k.client) /\ k.scale \in Scales
      /\ \A d \in Desk : F.desks[d].client = k.client => d = k.desk
  BY <1>3, <1>5 DEF KindGood
<1>8. CASE F.desks[k.desk].client = k.client
  <2>1. PICK w : w = [client |-> k.client, size |-> k.size, scale |-> k.scale,
                      ask |-> k.ask]
    OBVIOUS
  <2>2. w \in Wait /\ w.client = k.client /\ w.ask = k.ask
    BY <1>7, <2>1 DEF Wait, Kind
  <2>3. PICK H : H = AskedAgain(k, F) /\ \E retry \in BOOLEAN : H = Declared(F, k.desk, w, retry)
    BY <2>1 DEF AskedAgain
  <2>4. Good(H, Tail(E), A, C)
    <3>1. PICK retry \in BOOLEAN : H = Declared(F, k.desk, w, retry)
      BY <2>3
    <3>2. /\ Good(F, Tail(E), A, C \cup {w.ask})
          /\ w.client = F.desks[k.desk].client /\ By(A, w.ask, w.client)
      BY <1>6, <1>7, <1>8, <2>2
    <3>3. w \in Wait /\ k.desk \in Desk /\ F.declaring.id = 0
      BY <1>1, <1>5, <2>2
    <3>4. QED
      BY <3>1, <3>2, <3>3, DeclaredGood
  <2>5. R = Settled(H)
    BY <1>8, <2>3
  <2>6. QED
    BY <2>4, <2>5, SettledGood
<1>9. CASE F.desks[k.desk].client # k.client
  <2>1. k.ask \notin F.owed
    <3>1. SUFFICES ASSUME k.ask \in F.owed PROVE FALSE
      OBVIOUS
    <3>2. \E d \in Desk : F.desks[d].client = A.by[k.ask]
      BY <1>6, <3>1 DEF Good, OwedGood
    <3>3. A.by[k.ask] = k.client
      BY <1>7 DEF By
    <3>4. QED
      BY <1>7, <1>9, <3>2, <3>3
  <2>2. Good(F, Tail(E), A, C)
    BY <1>6, <2>1 DEF Good, OwedGood
  <2>3. R = Settled(F)
    BY <1>9
  <2>4. QED
    BY <2>2, <2>3, SettledGood
<1>10. QED
  BY <1>8, <1>9

LEMMA CancelsKeeps ==
  ASSUME ConfigInv, Cancels
  PROVE  ConfigInv'
<1>1. Reads("cancelled") /\ pictures' = pictures
  BY DEF Cancels
<1>2. PICK C, k : C = Unhandled /\ k = events[1].kind
  OBVIOUS
<1>3. /\ Good(daemon, events, asks, C) /\ Waiting(daemon)
      /\ events # <<>> /\ events' = Tail(events) /\ events[1].event \in Outcomes
  BY <1>1, <1>2, InvIs, ReadsIs DEF Outcomes
<1>4. k \in Kind /\ KindGood(daemon, asks, k)
  BY <1>2, <1>3, OutcomeIs
<1>5. CASE daemon' = daemon /\ (k.kind = "resize" \/ daemon.declaring.id # k.id)
  <2>1. k.kind \in {"resize", "declare"}
    BY <1>4 DEF Kind
  <2>2. Good(daemon, events', asks, C)
    BY <1>2, <1>3, <1>5, <2>1, ReadGood
  <2>3. QED
    BY <1>1, <1>2, <1>3, <1>5, <2>2, ReadsKeeps
<1>6. CASE /\ k.kind = "resize" /\ DeskOf(daemon, k.client) # {}
           /\ daemon' = LET d == CHOOSE x \in DeskOf(daemon, k.client) : TRUE
                        IN Resized([daemon EXCEPT !.desks[d].pending = NoResize], d,
                                   [k EXCEPT !.retry = TRUE, !.desk = d])
  <2>1. PICK d : d = CHOOSE x \in DeskOf(daemon, k.client) : TRUE
    OBVIOUS
  <2>2. d \in Desk /\ daemon.desks[d].client = k.client
    BY <1>6, <2>1 DEF DeskOf
  <2>3. PICK F : F = WithPending(daemon, d, NoResize)
    OBVIOUS
  <2>4. PICK j : j = [k EXCEPT !.retry = TRUE, !.desk = d]
    OBVIOUS
  <2>5. j \in Kind /\ j.kind = "resize" /\ j.client = k.client
    BY <1>4, <1>6, <2>2, <2>4 DEF Kind
  <2>6. daemon' = Resized(F, d, j)
    BY <1>6, <2>1, <2>3, <2>4 DEF WithPending
  <2>7. Good(daemon, events', asks, C)
    BY <1>2, <1>3, <1>6, ReadGood
  <2>8. /\ Good(F, events', asks, C) /\ F.declaring = daemon.declaring
        /\ F.desks[d].client = daemon.desks[d].client
        /\ \A e \in Desk : F.desks[e].queued = daemon.desks[e].queued
    BY <2>2, <2>3, <2>7, ClearedGood
  <2>9. Waiting(F)
    BY <1>3, <2>8 DEF Waiting
  <2>10. Good(daemon', events', asks, C) /\ Waiting(daemon')
    <3>1. j.client = F.desks[d].client
      BY <2>2, <2>5, <2>8
    <3>2. Good(daemon', events', asks, C)
      BY <2>2, <2>5, <2>6, <2>8, <3>1, ResizedGood
    <3>3. Waiting(daemon')
      BY <2>2, <2>5, <2>6, <2>8, <2>9, <3>1, <3>2, ResizedGood
    <3>4. QED
      BY <3>2, <3>3
  <2>11. QED
    BY <1>1, <1>2, <2>10, ReadsKeeps
<1>7. CASE /\ k.kind = "declare" /\ daemon.declaring.id = k.id
           /\ daemon' = LET D == Taken([daemon EXCEPT !.desks[k.desk].pending = NoResize])
                        IN Settled(IF D.desks[k.desk].client = k.client
                                   THEN AskedAgain(k, D) ELSE D)
  <2>1. PICK F : F = Taken(WithPending(daemon, k.desk, NoResize))
    OBVIOUS
  <2>2. daemon' = Settled(IF F.desks[k.desk].client = k.client
                          THEN AskedAgain(k, F) ELSE F)
    BY <1>7, <2>1 DEF WithPending
  <2>3. Good(daemon', events', asks, C) /\ Waiting(daemon')
    BY <1>3, <1>4, <1>7, <2>1, <2>2, CancelledDeclaration
  <2>4. QED
    BY <1>1, <1>2, <2>3, ReadsKeeps
<1>8. QED
  BY <1>2, <1>5, <1>6, <1>7 DEF Cancels

\* A resize refused: what its client waited for is cleared.
ClearedOf(D, c) ==
  [D EXCEPT !.desks = [d \in Desk |-> IF @[d].client = c
                                      THEN [@[d] EXCEPT !.pending = NoResize]
                                      ELSE @[d]]]

LEMMA ClearedOfGood ==
  ASSUME NEW D, NEW E, NEW A, NEW C, Good(D, E, A, C), NEW c,
         NEW R, R = ClearedOf(D, c)
  PROVE  Good(R, E, A, C) /\ (Waiting(D) => Waiting(R))
<1>1. D \in Daemon /\ DesksGood(D, A)
  BY DEF Good
<1>2. PICK f : f = [d \in Desk |-> IF D.desks[d].client = c
                                   THEN [D.desks[d] EXCEPT !.pending = NoResize]
                                   ELSE D.desks[d]]
  OBVIOUS
<1>3. ASSUME NEW d \in Desk
      PROVE  /\ f[d] \in DeskState
             /\ f[d].client = D.desks[d].client /\ f[d].queued = D.desks[d].queued
             /\ f[d].pending \in {D.desks[d].pending, NoResize}
  <2>1. D.desks[d] \in DeskState
    BY <1>1, DaemonIs
  <2>2. PICK s : s = [D.desks[d] EXCEPT !.pending = NoResize]
    OBVIOUS
  <2>3. /\ s \in DeskState /\ s.client = D.desks[d].client
        /\ s.queued = D.desks[d].queued /\ s.pending = NoResize
    BY <2>1, <2>2 DEF DeskState
  <2>4. f[d] \in {s, D.desks[d]}
    BY <1>2, <2>2
  <2>5. QED
    BY <2>1, <2>3, <2>4
<1>4. f \in [Desk -> DeskState]
  BY <1>2, <1>3
<1>5. R = [D EXCEPT !.desks = f]
  BY <1>2 DEF ClearedOf
<1>6. /\ R \in Daemon /\ R.desks = f /\ R.declaring = D.declaring /\ R.next = D.next
      /\ R.requests = D.requests /\ R.owed = D.owed
  BY <1>1, <1>4, <1>5 DEF Daemon
<1>7. DesksGood(R, A)
  <2>1. ASSUME NEW d \in Desk
        PROVE  /\ R.desks[d].client # Nobody => R.desks[d].client \in A.met
               /\ R.desks[d].pending # NoResize =>
                    R.desks[d].pending.client = R.desks[d].client
               /\ R.desks[d].queued # NoWait =>
                    /\ R.desks[d].queued.client = R.desks[d].client
                    /\ By(A, R.desks[d].queued.ask, R.desks[d].client)
    BY <1>1, <1>3, <1>6 DEF DesksGood
  <2>2. R.desks[FIRST].client = R.desks[BESIDE].client => R.desks[FIRST].client = Nobody
    BY <1>1, <1>3, <1>6 DEF DesksGood, Desk
  <2>3. QED
    BY <2>1, <2>2 DEF DesksGood
<1>8. OwedGood(R, A, C) /\ Handed(R, E)
  BY <1>3, <1>6 DEF Good, OwedGood, Handed
<1>9. ASSUME NEW k \in Flying(Members(D.requests), Members(E)) PROVE KindGood(R, A, k)
  BY <1>3, <1>6 DEF Good, KindGood
<1>10. Waiting(D) => Waiting(R)
  BY <1>3, <1>6 DEF Waiting
<1>11. QED
  BY <1>6, <1>7, <1>8, <1>9, <1>10 DEF Good

LEMMA RefusesKeeps ==
  ASSUME ConfigInv, Refuses
  PROVE  ConfigInv'
<1>1. Reads(events[1].event) /\ pictures' = pictures /\ events[1].event \in Outcomes
  BY DEF Refuses, Outcomes
<1>2. PICK C, k : C = Unhandled /\ k = events[1].kind
  OBVIOUS
<1>3. /\ Good(daemon, events, asks, C) /\ Waiting(daemon)
      /\ events # <<>> /\ events' = Tail(events)
  BY <1>1, <1>2, InvIs, ReadsIs
<1>4. k \in Kind /\ KindGood(daemon, asks, k)
  BY <1>1, <1>2, <1>3, OutcomeIs
<1>5. CASE daemon' = daemon /\ (k.kind = "resize" \/ daemon.declaring.id # k.id)
  <2>1. k.kind \in {"resize", "declare"}
    BY <1>4 DEF Kind
  <2>2. Good(daemon, events', asks, C)
    BY <1>1, <1>2, <1>3, <1>5, <2>1, ReadGood
  <2>3. QED
    BY <1>1, <1>2, <1>3, <1>5, <2>2, ReadsKeeps
<1>6. CASE k.kind = "resize" /\ daemon' = ClearedOf(daemon, k.client)
  <2>1. Good(daemon, events', asks, C)
    BY <1>1, <1>2, <1>3, <1>6, ReadGood
  <2>2. Good(daemon', events', asks, C)
    BY <1>6, <2>1, ClearedOfGood
  <2>3. Waiting(daemon')
    BY <1>3, <1>6, <2>1, <2>2, ClearedOfGood
  <2>4. QED
    BY <1>1, <1>2, <2>2, <2>3, ReadsKeeps
<1>7. CASE /\ k.kind = "declare" /\ daemon.declaring.id = k.id
           /\ daemon' = DeclarationRefused(k, [daemon EXCEPT !.desks[k.desk].pending = NoResize])
  <2>1. PICK F : F = WithPending(daemon, k.desk, NoResize)
    OBVIOUS
  <2>2. k.desk \in Desk
    BY <1>4 DEF Kind
  <2>3. Good(F, events, asks, C) /\ F.declaring = daemon.declaring
    <3>1. Good(F, events, asks, C)
      BY <1>3, <2>1, <2>2, ClearedGood
    <3>2. F.declaring = daemon.declaring
      BY <1>3, <2>1, <2>2, <3>1, ClearedGood
    <3>3. QED
      BY <3>1, <3>2
  <2>4. k.ask = F.declaring.ask
    BY <1>4, <1>7, <2>3 DEF KindGood
  <2>5. daemon' = Settled(Reported(Taken(F), k.desk, k.ask))
    BY <1>7, <2>1 DEF DeclarationRefused, WithPending
  <2>6. Good(daemon', events', asks, C) /\ Waiting(daemon')
    BY <1>3, <2>2, <2>3, <2>4, <2>5, OutcomeAnswered
  <2>7. QED
    BY <1>1, <1>2, <2>6, ReadsKeeps
<1>8. QED
  BY <1>2, <1>5, <1>6, <1>7 DEF Refuses, ClearedOf

LEMMA ScaleSettlesKeeps ==
  ASSUME ConfigInv, ScaleSettles
  PROVE  ConfigInv'
<1>1. Reads("synced") /\ pictures' = pictures
  BY DEF ScaleSettles
<1>2. PICK C : C = Unhandled
  OBVIOUS
<1>3. /\ Good(daemon, events, asks, C) /\ Waiting(daemon) /\ daemon \in Daemon
      /\ events # <<>> /\ events' = Tail(events) /\ events[1].event = "synced"
  BY <1>1, <1>2, InvIs, ReadsIs
<1>4. CASE daemon.declaring.id # events[1].id
  <2>1. daemon' = daemon
    BY <1>4 DEF ScaleSettles
  <2>2. Good(daemon, events', asks, C)
    BY <1>3, <1>4, ReadGood
  <2>3. QED
    BY <1>1, <1>2, <1>3, <2>1, <2>2, ReadsKeeps
<1>5. CASE daemon.declaring.id = events[1].id
  <2>1. PICK d, n : d = daemon.declaring.desk /\ n = daemon.declaring.ask
    OBVIOUS
  <2>2. daemon' = Settled(Reported(Taken(daemon), d, n))
    BY <1>5, <2>1 DEF ScaleSettles
  <2>3. Good(daemon', events', asks, C) /\ Waiting(daemon')
    <3>1. d \in Desk
      BY <1>3, <2>1, DaemonIs
    <3>2. QED
      BY <1>3, <2>1, <2>2, <3>1, OutcomeAnswered
  <2>4. QED
    BY <1>1, <1>2, <2>3, ReadsKeeps
<1>6. QED
  BY <1>4, <1>5

LEMMA FrameArrivesKeeps ==
  ASSUME ConfigInv, FrameArrives
  PROVE  ConfigInv'
<1>1. Reads("frame")
  BY DEF FrameArrives
<1>2. PICK C, d : C = Unhandled /\ d = events[1].desk
  OBVIOUS
<1>3. /\ Good(daemon, events, asks, C) /\ Waiting(daemon) /\ daemon \in Daemon
      /\ events # <<>> /\ events' = Tail(events) /\ events[1].event = "frame"
      /\ events[1] \in EventType /\ WorldGood
      /\ CommandsGood' /\ Unhandled' = Unhandled
      /\ UNCHANGED <<heads, layout, commands, asks>>
  BY <1>1, <1>2, InvIs, ReadsIs
<1>4. d \in Desk /\ events[1].size \in Widths
  BY <1>2, <1>3, EventIs
<1>5. Good(daemon, events', asks, C)
  BY <1>3, ReadGood DEF Outcomes
<1>6. daemon' = daemon \/ daemon' = WithPending(daemon, d, NoResize)
  BY <1>2 DEF FrameArrives, WithPending
<1>7. Good(daemon', events', asks, C) /\ Waiting(daemon')
  <2>1. CASE daemon' = daemon
    BY <1>3, <1>5, <2>1
  <2>2. CASE daemon' = WithPending(daemon, d, NoResize)
    <3>1. PICK R : R = daemon'
      OBVIOUS
    <3>2. /\ Good(R, events', asks, C) /\ R.declaring = daemon.declaring
          /\ \A e \in Desk : R.desks[e].queued = daemon.desks[e].queued
      BY <1>4, <1>5, <2>2, <3>1, ClearedGood
    <3>3. QED
      BY <1>3, <3>1, <3>2 DEF Waiting
  <2>3. QED
    BY <1>6, <2>1, <2>2
<1>8. daemon.desks[d].pending.client \in Clients \cup {Nobody}
  BY <1>3, <1>4, DaemonIs DEF NoResize
<1>9. pictures' \in [Desk -> [size : Widths, origin : Clients \cup {Nobody}]]
  <2>1. PICK p : p = pictures[d]
    OBVIOUS
  <2>2. p \in [size : Widths, origin : Clients \cup {Nobody}]
    BY <1>3, <1>4, <2>1 DEF WorldGood
  <2>3. PICK o \in Clients \cup {Nobody} :
          pictures' = pictures \/
          pictures' = [pictures EXCEPT ![d] =
                         IF @.size = events[1].size THEN @
                         ELSE [size |-> events[1].size, origin |-> o]]
    BY <1>2, <1>8 DEF FrameArrives
  <2>4. PICK q : q = IF p.size = events[1].size THEN p
                     ELSE [size |-> events[1].size, origin |-> o]
    OBVIOUS
  <2>5. q \in [size : Widths, origin : Clients \cup {Nobody}]
    BY <1>4, <2>2, <2>4
  <2>6. pictures' = pictures \/ pictures' = [pictures EXCEPT ![d] = q]
    BY <2>1, <2>3, <2>4
  <2>7. QED
    BY <1>3, <1>4, <2>5, <2>6 DEF WorldGood
<1>10. WorldGood'
  BY <1>3, <1>9 DEF WorldGood
<1>11. QED
  BY <1>2, <1>3, <1>7, <1>10 DEF ConfigInv
-----------------------------------------------------------------------------
(* The invariant holds from the start, through every step.                 *)

LEMMA SmallestHeads == InitHeads \in [Desk -> Shape]
<1>1. PICK w, s : /\ w = CHOOSE x \in Widths : \A t \in Widths : x <= t
                  /\ s = CHOOSE x \in Scales : \A t \in Scales : x <= t
  OBVIOUS
<1>2. w \in Widths /\ s \in Scales
  BY <1>1, Smallest, ConfiguredAssumption
<1>3. InitHeads = [d \in Desk |-> [size |-> w, scale |-> s]]
  BY <1>1 DEF InitHeads
<1>4. QED
  BY <1>2, <1>3 DEF Shape

LEMMA InitKeeps ==
  ASSUME ConfigInit
  PROVE  ConfigInv
<1>1. PICK c, H :
        /\ c \in Clients /\ H = InitHeads
        /\ daemon = [known |-> [heads |-> H, serial |-> 1],
                     desks |-> [d \in Desk |-> [client  |-> IF d = FIRST THEN c ELSE Nobody,
                                                pending |-> NoResize, queued |-> NoWait]],
                     declaring |-> NoneOut, next |-> 1, requests |-> <<>>,
                     geometry |-> H, owed |-> {}]
  BY DEF ConfigInit
<1>2. H \in [Desk -> Shape] /\ H \in [Desk -> [size : Widths \cup {NoSize}, scale : Scales]]
  BY <1>1, SmallestHeads DEF Shape
<1>3. c # Nobody /\ c \in Nat
  BY <1>1, ConfiguredAssumption
<1>4. daemon.desks \in [Desk -> DeskState]
  BY <1>1 DEF DeskState, Waits
<1>5. NoneOut \in [id : Nat, desk : Desk, ask : Nat] /\ NoneOut.id = 0
  BY DEF NoneOut, Desk
<1>6. /\ daemon.known \in [heads : [Desk -> Shape], serial : Nat]
      /\ daemon.requests \in Seq([kind : Kind, serial : Nat] \cup [sync : Nat])
  BY <1>1, <1>2
<1>7. daemon \in Daemon /\ daemon.next = 1
  BY <1>1, <1>2, <1>4, <1>5, <1>6 DEF Daemon
<1>8. /\ daemon.desks[FIRST].client = c /\ daemon.desks[BESIDE].client = Nobody
      /\ \A d \in Desk : daemon.desks[d].pending = NoResize
                         /\ daemon.desks[d].queued = NoWait
  BY <1>1 DEF Desk, FIRST, BESIDE
<1>9. /\ events = <<>> /\ commands = <<>> /\ daemon.requests = <<>>
      /\ daemon.declaring.id = 0 /\ daemon.owed = {}
  BY <1>1, <1>5 DEF ConfigInit
<1>10. asks = [made |-> 0, by |-> [n \in 1 .. MaxAsks |-> Nobody], met |-> {c}]
  BY <1>8 DEF ConfigInit
<1>11. asks \in AsksType
  BY <1>1, <1>10 DEF AsksType
<1>12. DesksGood(daemon, asks)
  <2>1. /\ c \in asks.met /\ Desk = {FIRST, BESIDE}
        /\ \A d \in Desk : daemon.desks[d].client \in {c, Nobody}
    BY <1>8, <1>10 DEF Desk
  <2>2. \A d \in Desk : daemon.desks[d].client # Nobody
                         => daemon.desks[d].client \in asks.met
    BY <2>1
  <2>3. QED
    BY <1>3, <1>8, <2>2 DEF DesksGood
<1>13. Flying(Members(daemon.requests), Members(events)) = {}
  BY <1>9 DEF Flying, Members
<1>14. Handed(daemon, events) /\ OwedGood(daemon, asks, Unhandled) /\ Waiting(daemon)
  BY <1>8, <1>9 DEF Handed, OwedGood, Waiting
<1>15. events \in Seq(EventType) /\ CommandsGood
  BY <1>9 DEF CommandsGood, Members
<1>16. Good(daemon, events, asks, Unhandled)
  BY <1>7, <1>11, <1>12, <1>13, <1>14, <1>15 DEF Good
<1>17. WorldGood
  <2>1. heads = H /\ layout = [serial |-> 1, others |-> 0]
        /\ pictures = [d \in Desk |-> [size |-> H[d].size, origin |-> Nobody]]
    BY <1>1 DEF ConfigInit
  <2>2. QED
    BY <1>2, <2>1 DEF WorldGood, Shape
<1>18. QED
  BY <1>14, <1>15, <1>16, <1>17 DEF ConfigInv

LEMMA StutterKeeps ==
  ASSUME ConfigInv, UNCHANGED configVars
  PROVE  ConfigInv'
<1>1. PICK C : C = Unhandled
  OBVIOUS
<1>2. Unhandled' = C
  BY <1>1 DEF Unhandled, configVars
<1>3. Good(daemon, events, asks, C)'
  BY <1>1, <1>2 DEF ConfigInv, configVars
<1>4. WorldGood' /\ CommandsGood' /\ Waiting(daemon)'
  BY DEF ConfigInv, configVars, WorldGood, CommandsGood
<1>5. QED
  BY <1>1, <1>2, <1>3, <1>4 DEF ConfigInv

LEMMA NextKeeps ==
  ASSUME ConfigInv, ConfigNext
  PROVE  ConfigInv'
<1>1. CASE \E c \in Clients, d \in Desk : Joins(d, c)
  BY <1>1, JoinsKeeps
<1>2. CASE \E c \in Clients : Leaves(c)
  BY <1>2, LeavesKeeps
<1>3. CASE \E c \in Clients, a \in Asks : AskResize(c, a)
  BY <1>3, AskResizeKeeps
<1>4. CASE \E c \in Clients, a \in Asks : AskDensity(c, a)
  BY <1>4, AskDensityKeeps
<1>5. CASE HandleAsk
  BY <1>5, HandleAskKeeps
<1>6. CASE Event
  BY <1>6, LayoutChangedKeeps, SucceedsKeeps, CancelsKeeps, RefusesKeeps,
     ScaleSettlesKeeps, FrameArrivesKeeps DEF Event
<1>7. CASE Answers
  BY <1>7, AnswersKeeps
<1>8. CASE Syncs
  BY <1>8, SyncsKeeps
<1>9. CASE OthersConfigure
  BY <1>9, OthersConfigureKeeps
<1>10. CASE \E d \in Desk : Captures(d)
  BY <1>10, CapturesKeeps
<1>11. QED
  BY <1>1, <1>2, <1>3, <1>4, <1>5, <1>6, <1>7, <1>8, <1>9, <1>10 DEF ConfigNext

\* Every state the clients, the thread and the compositor reach is of its type
\* and keeps the inductive invariant, which is why the two below hold.
THEOREM ConfigSafe == ConfigSpec => []ConfigInv
<1>1. ConfigInit => ConfigInv
  BY InitKeeps
<1>2. ConfigInv /\ [ConfigNext]_configVars => ConfigInv'
  BY NextKeeps, StutterKeeps
<1>3. QED
  BY <1>1, <1>2, PTL DEF ConfigSpec

\* A resize that waits for its frame is of the client on the desk, whoever
\* joins, leaves or takes over between the request and its outcome
\* (let_go against pending_resize).
THEOREM PendingIsItsClients == ConfigSpec => []PendingIsTheClients
<1>1. ConfigInv => PendingIsTheClients
  BY DEF ConfigInv, Good, DesksGood, PendingIsTheClients
<1>2. QED
  BY <1>1, ConfigSafe, PTL

\* What passes is in hand.
LEMMA PassingInHand ==
  ASSUME daemon \in Daemon, events \in Seq(EventType), NEW id,
         id \in Passing(Members(daemon.requests), Members(events))
  PROVE  InHand(id)
<1>1. \A i \in DOMAIN daemon.requests : daemon.requests[i] \in Request
  BY DaemonIs
<1>2. \A i \in DOMAIN events : events[i] \in EventType
  OBVIOUS
<1>3. CASE \E i \in DOMAIN daemon.requests :
             /\ "kind" \in DOMAIN daemon.requests[i]
             /\ daemon.requests[i].kind.kind = "declare"
             /\ daemon.requests[i].kind.id = id
  <2>1. PICK i \in DOMAIN daemon.requests :
             /\ "kind" \in DOMAIN daemon.requests[i]
             /\ daemon.requests[i].kind.kind = "declare"
             /\ daemon.requests[i].kind.id = id
    BY <1>3
  <2>2. "sync" \notin DOMAIN daemon.requests[i]
    BY <1>1, <2>1, RequestIs DEF Configures
  <2>3. QED
    BY <2>1, <2>2 DEF InHand
<1>4. CASE \E i \in DOMAIN daemon.requests :
             "sync" \in DOMAIN daemon.requests[i] /\ daemon.requests[i].sync = id
  BY <1>4 DEF InHand
<1>5. CASE \E i \in DOMAIN events :
             /\ events[i].event \in Outcomes
             /\ events[i].kind.kind = "declare" /\ events[i].kind.id = id
  BY <1>5 DEF InHand, Outcomes
<1>6. CASE \E i \in DOMAIN events : events[i].event = "synced" /\ events[i].id = id
  BY <1>6 DEF InHand
<1>7. QED
  BY <1>3, <1>4, <1>5, <1>6 DEF Passing, Flying, Members

\* No declaration is left behind: the one that is out has an outcome still to
\* come, what waits waits for it, and whoever is owed a report has its
\* declaration out, waiting or not handled yet (Outputs::declaring,
\* declaration_settled).
THEOREM DeclarationsSettle == ConfigSpec => []DeclarationInHand
<1>1. ConfigInv => DeclarationInHand
  <2> SUFFICES ASSUME ConfigInv
               PROVE  DeclarationInHand
    OBVIOUS
  <2>1. /\ daemon \in Daemon /\ events \in Seq(EventType)
        /\ Handed(daemon, events) /\ OwedGood(daemon, asks, Unhandled)
        /\ Waiting(daemon)
    BY DEF ConfigInv, Good
  <2>2. daemon.declaring.id # 0 => InHand(daemon.declaring.id)
    BY <2>1, PassingInHand DEF Handed
  <2>3. ASSUME NEW n \in Unhandled
        PROVE  \E i \in DOMAIN commands : commands[i].ask = n
    BY DEF Unhandled, Members
  <2>4. ASSUME NEW n \in daemon.owed
        PROVE  \/ daemon.declaring.id # 0 /\ daemon.declaring.ask = n
               \/ \E d \in Desk : daemon.desks[d].queued.ask = n
               \/ \E i \in DOMAIN commands : commands[i].ask = n
    BY <2>1, <2>3 DEF OwedGood
  <2>5. QED
    BY <2>1, <2>2, <2>4 DEF DeclarationInHand, Waiting
<1>2. QED
  BY <1>1, ConfigSafe, PTL
=============================================================================
