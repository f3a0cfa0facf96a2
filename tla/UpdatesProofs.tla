---------------------------- MODULE UpdatesProofs ----------------------------
(***************************************************************************)
(* What TLAPS proves of Framebuffer and Updates: for any tiles, sizes,     *)
(* clients, log limit, encoders and requests, a decoder that is fed, and,  *)
(* of frames whose damage is one rectangle, a log that leaves out no tile  *)
(* and a client that has what the session counts as seen.                  *)
(***************************************************************************)
EXTENDS Updates, TLAPS

\* wlroots reports the damage of a frame as one rectangle.  A log cut inside a
\* frame of several loses some of them, and so the rest is of this case.
OneRectangle == MaxRects = 1

Entry == [generation : Nat \ {0}, rect : Rect]

(* What relates the generations, which neither conjunct of LogHolds says.  *)
Generations(f) ==
  /\ f.sizeGeneration <= f.generation
  /\ f.painted <=> f.generation > f.sizeGeneration
  /\ \A t \in Tiles : f.pixels[t] <= f.generation

Painted(f) == f.painted => \A t \in Tiles : f.pixels[t] > f.sizeGeneration

Recent(f) ==
  /\ Len(f.log) <= LogLimit
  /\ f.generation > f.sizeGeneration => f.log # <<>>
  /\ \A i \in 1 .. Len(f.log) :
       /\ f.log[i].generation = f.generation - Len(f.log) + i
       /\ f.log[i].generation > f.sizeGeneration
       /\ \A t \in Tiles : f.pixels[t] = f.log[i].generation => t \in f.log[i].rect

\* The framebuffer whatever the frames report, and of one rectangle to a frame.
Framed(f) == f \in FramebufferType /\ Generations(f) /\ Painted(f)
Logged(f) == Framed(f) /\ Recent(f)

-----------------------------------------------------------------------------
(* What the operators of Framebuffer keep.                                 *)

LEMMA AllTiles == Tiles \in Rect
BY TilesAssumption DEF Rect

LEMMA NewLogged ==
  ASSUME NEW s \in Sizes
  PROVE  Logged(New(s))
BY LogAssumption DEF New, Logged, Framed, FramebufferType, Generations, Painted, Recent

LEMMA ResizedLogged ==
  ASSUME NEW f \in FramebufferType, NEW s \in Sizes, NEW o \in Clients \cup {Server}
  PROVE  /\ Framed(f) => Framed(Resized(f, s, o))
         /\ Logged(f) => Logged(Resized(f, s, o))
         /\ Resized(f, s, o).sizeGeneration = f.generation + 1
         /\ Resized(f, s, o).generation = f.generation + 1
         /\ Resized(f, s, o).size = s
<1>1. PICK n : n = Resized(f, s, o)
  OBVIOUS
<1>2. /\ n.size = s /\ n.origin = o /\ n.painted = FALSE
      /\ n.generation = f.generation + 1 /\ n.sizeGeneration = f.generation + 1
      /\ n.pixels = [t \in Tiles |-> 0] /\ n.log = <<>>
  BY <1>1 DEF Resized, FramebufferType
<1>3. n \in FramebufferType
  <2>1. <<>> \in Seq([generation : Nat \ {0}, rect : Rect])
    OBVIOUS
  <2>2. [t \in Tiles |-> 0] \in [Tiles -> Nat]
    OBVIOUS
  <2>3. f.generation + 1 \in Nat \ {0}
    BY DEF FramebufferType
  <2>4. QED
    BY <1>1, <2>1, <2>2, <2>3 DEF Resized, FramebufferType
<1>4. Framed(f) => Framed(n)
  BY <1>2, <1>3 DEF Framed, Generations, Painted, FramebufferType
<1>5. Logged(f) => Logged(n)
  BY <1>2, <1>4, LogAssumption DEF Logged, Recent, Framed, FramebufferType
<1>6. QED
  BY <1>1, <1>2, <1>4, <1>5

LEMMA TrimmedIs ==
  ASSUME NEW log \in Seq(Entry)
  PROVE  /\ Trimmed(log) \in Seq(Entry)
         /\ Len(Trimmed(log)) <= LogLimit
         /\ Len(Trimmed(log)) = IF Len(log) <= LogLimit THEN Len(log) ELSE LogLimit
         /\ \A i \in 1 .. Len(Trimmed(log)) :
              Trimmed(log)[i] = log[i + (Len(log) - Len(Trimmed(log)))]
<1>1. CASE Len(log) <= LogLimit
  BY <1>1 DEF Trimmed
<1>2. CASE Len(log) > LogLimit
  <2>1. Trimmed(log) = SubSeq(log, Len(log) - LogLimit + 1, Len(log))
    BY <1>2, LogAssumption DEF Trimmed
  <2>2. /\ Len(log) - LogLimit + 1 \in 1 .. Len(log)
        /\ \A i \in (Len(log) - LogLimit + 1) .. Len(log) : log[i] \in Entry
    BY <1>2, LogAssumption
  <2>3. /\ Len(Trimmed(log)) = LogLimit
        /\ \A i \in 1 .. LogLimit : Trimmed(log)[i] = log[i + (Len(log) - LogLimit)]
    BY <2>1, <2>2, <1>2, LogAssumption
  <2>4. Trimmed(log) \in Seq(Entry)
    BY <2>1, <2>2, <1>2, LogAssumption
  <2>5. QED
    BY <1>2, <2>3, <2>4, LogAssumption
<1>3. QED
  BY <1>1, <1>2, LogAssumption

\* What a frame adds to the log.
Noted(g, noted) == [i \in DOMAIN noted |-> [generation |-> g, rect |-> noted[i]]]

LEMMA NotedIs ==
  ASSUME NEW g \in Nat \ {0}, NEW noted \in Seq(Rect)
  PROVE  /\ Noted(g, noted) \in Seq(Entry)
         /\ Len(Noted(g, noted)) = Len(noted)
         /\ \A i \in 1 .. Len(noted) : /\ Noted(g, noted)[i].generation = g
                                      /\ Noted(g, noted)[i].rect = noted[i]
<1>1. Noted(g, noted) = [i \in 1 .. Len(noted) |-> [generation |-> g, rect |-> noted[i]]]
  BY DEF Noted
<1>2. ASSUME NEW i \in 1 .. Len(noted)
      PROVE  [generation |-> g, rect |-> noted[i]] \in Entry
  <2>1. noted[i] \in Rect
    OBVIOUS
  <2>2. QED
    BY <2>1 DEF Entry
<1>3. Len(noted) \in Nat
  OBVIOUS
<1>4. Noted(g, noted) \in [1 .. Len(noted) -> Entry]
  BY <1>1, <1>2
<1>5. Noted(g, noted) \in Seq(Entry) /\ Len(Noted(g, noted)) = Len(noted)
  BY <1>3, <1>4
<1>6. QED
  BY <1>1, <1>5

\* The tiles that a frame writes.
Written(noted) == {t \in Tiles : \E i \in 1 .. Len(noted) : t \in noted[i]}

(* apply, of rectangles that are not all clipped away.                     *)
LEMMA AppliedIs ==
  ASSUME NEW f \in FramebufferType, NEW noted \in Seq(Rect), noted # <<>>
  PROVE  /\ Applied(f, noted) \in FramebufferType
         /\ Applied(f, noted).generation = f.generation + 1
         /\ Applied(f, noted).size = f.size
         /\ Applied(f, noted).sizeGeneration = f.sizeGeneration
         /\ Applied(f, noted).painted = TRUE
         /\ Applied(f, noted).log = Trimmed(f.log \o Noted(f.generation + 1, noted))
         /\ \A t \in Tiles :
              /\ t \in Written(noted) => Applied(f, noted).pixels[t] = f.generation + 1
              /\ t \notin Written(noted) => Applied(f, noted).pixels[t] = f.pixels[t]
<1>1. PICK n : n = Applied(f, noted)
  OBVIOUS
<1>2. PICK g : g = f.generation + 1 /\ g \in Nat \ {0}
  BY DEF FramebufferType
<1>3. PICK px : px = [t \in Tiles |-> IF \E i \in DOMAIN noted : t \in noted[i]
                                     THEN g ELSE f.pixels[t]]
  OBVIOUS
<1>4. PICK log : log = Trimmed(f.log \o Noted(g, noted))
  OBVIOUS
<1>5. px \in [Tiles -> Nat]
  BY <1>2, <1>3 DEF FramebufferType
<1>6. log \in Seq(Entry)
  <2>1. f.log \in Seq(Entry)
    BY DEF FramebufferType, Entry
  <2>2. Noted(g, noted) \in Seq(Entry)
    BY <1>2, NotedIs
  <2>3. f.log \o Noted(g, noted) \in Seq(Entry)
    BY <2>1, <2>2
  <2>4. QED
    BY <1>4, <2>3, TrimmedIs
<1>7. DOMAIN noted = 1 .. Len(noted)
  OBVIOUS
<1>8. n = [f EXCEPT !.generation = g, !.painted = TRUE, !.pixels = px, !.log = log]
  BY <1>1, <1>2, <1>3, <1>4, <1>7, Zenon DEF Applied, Noted
<1>9. /\ n.generation = g /\ n.size = f.size /\ n.sizeGeneration = f.sizeGeneration
      /\ n.painted = TRUE /\ n.log = log /\ n.pixels = px
  BY <1>8 DEF FramebufferType
<1>10. n \in FramebufferType
  BY <1>2, <1>5, <1>6, <1>8 DEF FramebufferType, Entry
<1>11. \A t \in Tiles : /\ t \in Written(noted) => px[t] = g
                        /\ t \notin Written(noted) => px[t] = f.pixels[t]
  BY <1>3, <1>7 DEF Written
<1>12. QED
  BY <1>1, <1>2, <1>4, <1>9, <1>10, <1>11

LEMMA AppliedFramed ==
  ASSUME NEW f, Framed(f), NEW noted \in Seq(Rect),
         f.painted \/ noted = <<Tiles>>
  PROVE  Framed(Applied(f, noted))
<1>1. CASE noted = <<>>
  BY <1>1 DEF Applied
<1>2. CASE noted # <<>>
  <2>1. PICK n : n = Applied(f, noted)
    OBVIOUS
  <2>2. f \in FramebufferType
    BY DEF Framed
  <2>3. Generations(n) /\ Painted(n)
    <3>1. ~f.painted => \A t \in Tiles : t \in Written(noted)
      BY DEF Written
    <3>2. /\ f.generation \in Nat /\ f.sizeGeneration \in Nat
          /\ \A t \in Tiles : f.pixels[t] \in Nat
      BY <2>2 DEF FramebufferType
    <3>3. /\ n.generation = f.generation + 1 /\ n.sizeGeneration = f.sizeGeneration
          /\ n.painted = TRUE
          /\ \A t \in Tiles :
               /\ t \in Written(noted) => n.pixels[t] = f.generation + 1
               /\ t \notin Written(noted) => n.pixels[t] = f.pixels[t]
      BY <1>2, <2>1, <2>2, AppliedIs
    <3>4. /\ f.sizeGeneration <= f.generation
          /\ \A t \in Tiles : f.pixels[t] <= f.generation
          /\ f.painted => \A t \in Tiles : f.pixels[t] > f.sizeGeneration
      BY DEF Framed, Generations, Painted
    <3>5. Generations(n)
      BY <3>2, <3>3, <3>4 DEF Generations
    <3>6. ASSUME NEW t \in Tiles
          PROVE  n.pixels[t] > n.sizeGeneration
      <4>1. CASE t \in Written(noted)
        <5>1. n.pixels[t] = f.generation + 1 /\ n.sizeGeneration = f.sizeGeneration
          BY <4>1, <3>3
        <5>2. f.generation + 1 > f.sizeGeneration
          BY <3>2, <3>4
        <5>3. QED
          BY <5>1, <5>2
      <4>2. CASE t \notin Written(noted)
        <5>1. n.pixels[t] = f.pixels[t] /\ n.sizeGeneration = f.sizeGeneration
          BY <4>2, <3>3
        <5>2. f.pixels[t] > f.sizeGeneration
          BY <4>2, <3>1, <3>4
        <5>3. QED
          BY <5>1, <5>2
      <4>3. QED
        BY <4>1, <4>2
    <3>7. QED
      BY <3>5, <3>6 DEF Painted
  <2>4. QED
    BY <1>2, <2>1, <2>2, <2>3, AppliedIs DEF Framed
<1>3. QED
  BY <1>1, <1>2

\* A log with one more entry.
LEMMA OneMore ==
  ASSUME NEW S, NEW log \in Seq(S), NEW last \in S
  PROVE  /\ log \o <<last>> \in Seq(S)
         /\ Len(log \o <<last>>) = Len(log) + 1
         /\ \A i \in 1 .. Len(log) : (log \o <<last>>)[i] = log[i]
         /\ (log \o <<last>>)[Len(log) + 1] = last
OBVIOUS

\* A generation counted from the end of the log and from that of what is kept.
LEMMA FromTheEnd ==
  ASSUME NEW g \in Nat, NEW a \in Nat, NEW b \in Nat, NEW i \in Nat
  PROVE  g - a + (i + (a - b)) = g - b + i
OBVIOUS

LEMMA AppliedLogged ==
  ASSUME NEW f, Logged(f), NEW noted \in Seq(Rect), Len(noted) \in {0, 1},
         f.painted \/ noted = <<Tiles>>
  PROVE  Logged(Applied(f, noted))
<1>1. CASE noted = <<>>
  BY <1>1 DEF Applied
<1>2. CASE noted # <<>>
  <2>1. PICK n : n = Applied(f, noted)
    OBVIOUS
  <2>2. /\ f \in FramebufferType /\ f.log \in Seq(Entry)
        /\ f.generation \in Nat /\ f.sizeGeneration \in Nat
        /\ f.pixels \in [Tiles -> Nat]
    BY DEF Logged, Framed, FramebufferType, Entry
  <2>3. /\ f.sizeGeneration <= f.generation
        /\ \A t \in Tiles : f.pixels[t] <= f.generation
        /\ \A i \in 1 .. Len(f.log) :
             /\ f.log[i].generation = f.generation - Len(f.log) + i
             /\ f.log[i].generation > f.sizeGeneration
             /\ \A t \in Tiles : f.pixels[t] = f.log[i].generation => t \in f.log[i].rect
    BY DEF Logged, Framed, Generations, Recent
  <2>4. PICK g : g = f.generation + 1 /\ g \in Nat \ {0}
    BY <2>2
  <2>5. Len(noted) = 1
    BY <1>2
  <2>6. PICK entry : entry = [generation |-> g, rect |-> noted[1]]
    OBVIOUS
  <2>7. /\ entry \in Entry /\ entry.generation = g /\ entry.rect = noted[1]
        /\ Noted(g, noted) = <<entry>>
    <3>1. noted[1] \in Rect
      BY <2>5
    <3>2. entry \in Entry /\ entry.generation = g /\ entry.rect = noted[1]
      BY <2>4, <2>6, <3>1 DEF Entry
    <3>3. Noted(g, noted) = [i \in 1 .. 1 |-> [generation |-> g, rect |-> noted[i]]]
      <4>1. DOMAIN noted = 1 .. Len(noted)
        OBVIOUS
      <4>2. DOMAIN noted = 1 .. 1
        BY <4>1, <2>5, Zenon
      <4>3. QED
        BY <4>2, Zenon DEF Noted
    <3>4. Noted(g, noted) = <<entry>>
      BY <2>6, <3>3
    <3>5. QED
      BY <3>2, <3>4
  <2>8. PICK all : all = f.log \o <<entry>>
    OBVIOUS
  <2>9. /\ all \in Seq(Entry) /\ Len(all) = Len(f.log) + 1
        /\ \A i \in 1 .. Len(f.log) : all[i] = f.log[i]
        /\ all[Len(f.log) + 1] = entry
    BY <2>2, <2>7, <2>8, OneMore
  <2>10. /\ n.log = Trimmed(all) /\ n.generation = g
         /\ n.sizeGeneration = f.sizeGeneration
    <3>1. /\ n.log = Trimmed(f.log \o Noted(f.generation + 1, noted))
          /\ n.generation = f.generation + 1
          /\ n.sizeGeneration = f.sizeGeneration
      BY <1>2, <2>1, <2>2, AppliedIs
    <3>2. QED
      BY <3>1, <2>4, <2>7, <2>8, Zenon
  <2>11. \A t \in Tiles : /\ t \in noted[1] => n.pixels[t] = g
                          /\ t \notin noted[1] => n.pixels[t] = f.pixels[t]
    <3>1. \A t \in Tiles : t \in Written(noted) <=> t \in noted[1]
      BY <2>5 DEF Written
    <3>2. \A t \in Tiles : /\ t \in Written(noted) => n.pixels[t] = g
                           /\ t \notin Written(noted) => n.pixels[t] = f.pixels[t]
      <4>1. \A t \in Tiles :
              /\ t \in Written(noted) => Applied(f, noted).pixels[t] = f.generation + 1
              /\ t \notin Written(noted) => Applied(f, noted).pixels[t] = f.pixels[t]
        <5>1. noted \in Seq(Rect) /\ f \in FramebufferType
          BY <2>2
        <5>2. QED
          BY <1>2, <5>1, AppliedIs
      <4>2. QED
        BY <2>1, <2>4, <4>1, Zenon
    <3>3. QED
      BY <3>1, <3>2, Zenon
  <2>12. \A i \in 1 .. Len(all) :
           /\ all[i].generation = g - Len(all) + i
           /\ all[i].generation > f.sizeGeneration
           /\ \A t \in Tiles : n.pixels[t] = all[i].generation => t \in all[i].rect
    <3>1. ASSUME NEW i \in 1 .. Len(f.log)
          PROVE  /\ all[i].generation = g - Len(all) + i
                 /\ all[i].generation > f.sizeGeneration
                 /\ \A t \in Tiles : n.pixels[t] = all[i].generation => t \in all[i].rect
      <4>1. /\ all[i] = f.log[i] /\ f.log[i].generation = f.generation - Len(f.log) + i
            /\ f.log[i].generation > f.sizeGeneration
            /\ \A t \in Tiles : f.pixels[t] = f.log[i].generation => t \in f.log[i].rect
        BY <2>3, <2>9
      <4>2. Len(f.log) \in Nat /\ i \in Nat /\ i <= Len(f.log)
        BY <2>2
      <4>3. all[i].generation = g - Len(all) + i
        BY <4>1, <4>2, <2>2, <2>4, <2>9
      <4>4. all[i].generation # g
        BY <4>1, <4>2, <2>2, <2>4
      <4>5. ASSUME NEW t \in Tiles, n.pixels[t] = all[i].generation
            PROVE  t \in all[i].rect
        <5>1. n.pixels[t] = f.pixels[t]
          BY <4>4, <4>5, <2>11
        <5>2. QED
          BY <4>1, <4>5, <5>1
      <4>6. QED
        BY <4>1, <4>3, <4>5
    <3>2. ASSUME NEW i, i = Len(f.log) + 1
          PROVE  /\ all[i].generation = g - Len(all) + i
                 /\ all[i].generation > f.sizeGeneration
                 /\ \A t \in Tiles : n.pixels[t] = all[i].generation => t \in all[i].rect
      <4>1. all[i].generation = g /\ all[i].rect = noted[1] /\ Len(all) = i
        BY <3>2, <2>7, <2>9
      <4>2. i \in Nat /\ g - i + i = g
        BY <3>2, <2>2, <2>4
      <4>3. g > f.sizeGeneration /\ \A t \in Tiles : f.pixels[t] # g
        BY <2>2, <2>3, <2>4
      <4>4. QED
        BY <4>1, <4>2, <4>3, <2>11
    <3>3. \A i \in 1 .. Len(all) : i \in 1 .. Len(f.log) \/ i = Len(f.log) + 1
      BY <2>2, <2>9
    <3>4. QED
      BY <3>1, <3>2, <3>3
  <2>13. Recent(n)
    <3>1. PICK k : k = Len(all) - Len(n.log)
      OBVIOUS
    <3>2. /\ n.log \in Seq(Entry) /\ Len(n.log) <= LogLimit
          /\ Len(n.log) = IF Len(all) <= LogLimit THEN Len(all) ELSE LogLimit
          /\ \A i \in 1 .. Len(n.log) : n.log[i] = all[i + k]
      <4>1. /\ Trimmed(all) \in Seq(Entry) /\ Len(Trimmed(all)) <= LogLimit
            /\ Len(Trimmed(all)) = IF Len(all) <= LogLimit THEN Len(all) ELSE LogLimit
            /\ \A i \in 1 .. Len(Trimmed(all)) :
                 Trimmed(all)[i] = all[i + (Len(all) - Len(Trimmed(all)))]
        BY <2>9, TrimmedIs
      <4>2. n.log = Trimmed(all)
        BY <2>10
      <4>3. QED
        BY <4>1, <4>2, <3>1
    <3>3. /\ Len(all) \in Nat /\ Len(n.log) \in Nat /\ k \in Nat
          /\ Len(n.log) > 0
          /\ \A i \in 1 .. Len(n.log) : i + k \in 1 .. Len(all)
      <4>1. Len(f.log) \in Nat /\ Len(all) = Len(f.log) + 1
        BY <2>2, <2>9
      <4>2. LogLimit \in Nat /\ LogLimit > 0
        BY LogAssumption
      <4>3. Len(n.log) = IF Len(all) <= LogLimit THEN Len(all) ELSE LogLimit
        BY <3>2
      <4>4. Len(n.log) \in Nat /\ Len(n.log) > 0 /\ Len(n.log) <= Len(all)
        BY <4>1, <4>2, <4>3
      <4>5. k \in Nat /\ k + Len(n.log) = Len(all)
        BY <4>1, <4>4, <3>1
      <4>6. QED
        BY <4>1, <4>4, <4>5
    <3>4. n.log # <<>>
      BY <3>3
    <3>5. ASSUME NEW i \in 1 .. Len(n.log)
          PROVE  /\ n.log[i].generation = n.generation - Len(n.log) + i
                 /\ n.log[i].generation > n.sizeGeneration
                 /\ \A t \in Tiles :
                      n.pixels[t] = n.log[i].generation => t \in n.log[i].rect
      <4>1. n.log[i] = all[i + k] /\ i + k \in 1 .. Len(all)
        BY <3>2, <3>3
      <4>2. g - Len(all) + (i + k) = g - Len(n.log) + i
        <5>1. /\ g \in Nat /\ i \in Nat
              /\ Len(all) \in Nat /\ Len(n.log) \in Nat
          BY <2>4, <3>3
        <5>2. g - Len(all) + (i + (Len(all) - Len(n.log))) = g - Len(n.log) + i
          BY <5>1, FromTheEnd
        <5>3. QED
          BY <5>2, <3>1, Zenon
      <4>3. QED
        BY <4>1, <4>2, <2>10, <2>12
    <3>6. QED
      BY <3>2, <3>4, <3>5 DEF Recent
  <2>14. Framed(n)
    BY <2>1, AppliedFramed DEF Logged
  <2>15. QED
    BY <2>1, <2>13, <2>14 DEF Logged
<1>3. QED
  BY <1>1, <1>2

\* What the compositor may report of a frame's damage.
LEMMA ReportIs ==
  ASSUME NEW r \in Reports
  PROVE  /\ r.noted \in Seq(Rect)
         /\ OneRectangle => Len(r.noted) \in {0, 1}
<1>1. PICK n \in 0 .. MaxRects : r.noted \in [1 .. n -> Rect]
  BY DEF Reports
<1>2. n \in Nat
  BY <1>1, RectsAssumption
<1>3. r.noted \in Seq(Rect) /\ Len(r.noted) = n
  BY <1>1, <1>2
<1>4. OneRectangle => n \in {0, 1}
  BY <1>1 DEF OneRectangle
<1>5. QED
  BY <1>3, <1>4

LEMMA DamageForIs ==
  ASSUME NEW f, NEW r \in Reports
  PROVE  /\ DamageFor(f, r) \in Seq(Rect)
         /\ OneRectangle => Len(DamageFor(f, r)) \in {0, 1}
         /\ f.painted \/ DamageFor(f, r) = <<Tiles>>
<1>1. <<Tiles>> \in Seq(Rect) /\ Len(<<Tiles>>) = 1
  BY AllTiles
<1>2. CASE f.painted /\ r.any
  BY <1>2, ReportIs DEF DamageFor
<1>3. CASE ~(f.painted /\ r.any)
  <2>1. DamageFor(f, r) = <<Tiles>>
    BY <1>3 DEF DamageFor
  <2>2. QED
    BY <1>1, <2>1
<1>4. QED
  BY <1>2, <1>3

\* How a framebuffer may change: it is another size's, or newly blank, from
\* some later generation on, or it is the same but for tiles written since.
Later(f, n) ==
  /\ f.generation <= n.generation
  /\ \/ n.sizeGeneration > f.generation
     \/ /\ n.size = f.size
        /\ n.sizeGeneration = f.sizeGeneration
        /\ \A t \in Tiles : n.pixels[t] = f.pixels[t] \/ n.pixels[t] > f.generation

LEMMA AppliedLater ==
  ASSUME NEW f \in FramebufferType, NEW noted \in Seq(Rect)
  PROVE  /\ Applied(f, noted).size = f.size
         /\ Applied(f, noted).sizeGeneration = f.sizeGeneration
         /\ Later(f, Applied(f, noted))
<1>1. PICK n : n = Applied(f, noted)
  OBVIOUS
<1>2. f.generation \in Nat
  BY DEF FramebufferType
<1>3. CASE noted = <<>>
  BY <1>2, <1>3 DEF Applied, Later
<1>4. CASE noted # <<>>
  <2>1. /\ n.generation = f.generation + 1
        /\ n.size = f.size
        /\ n.sizeGeneration = f.sizeGeneration
        /\ \A t \in Tiles : n.pixels[t] = f.pixels[t] \/ n.pixels[t] = f.generation + 1
    BY <1>1, <1>4, AppliedIs
  <2>2. f.generation <= n.generation
    BY <1>2, <2>1
  <2>3. ASSUME NEW t \in Tiles
        PROVE  n.pixels[t] = f.pixels[t] \/ n.pixels[t] > f.generation
    <3>1. f.generation + 1 > f.generation
      BY <1>2
    <3>2. QED
      BY <2>1, <3>1, Zenon
  <2>4. QED
    BY <1>1, <2>1, <2>2, <2>3 DEF Later
<1>5. QED
  BY <1>3, <1>4

LEMMA FrameKeeps ==
  ASSUME Framed(fb), NEW s \in Sizes, NEW o \in Clients \cup {Server},
         NEW r \in Reports, Frame(s, o, r)
  PROVE  /\ Framed(fb')
         /\ OneRectangle /\ Logged(fb) => Logged(fb')
         /\ Later(fb, fb')
<1>1. PICK f : f = IF fb.size = s THEN fb ELSE Resized(fb, s, o)
  OBVIOUS
<1>2. PICK noted : noted = DamageFor(f, r)
  OBVIOUS
<1>3. fb' = Applied(f, noted)
  BY <1>1, <1>2 DEF Frame
<1>4. fb \in FramebufferType /\ fb.generation \in Nat
  BY DEF Framed, FramebufferType
<1>5. Framed(f) /\ (Logged(fb) => Logged(f))
  BY <1>1, <1>4, ResizedLogged
<1>6. f \in FramebufferType /\ f.generation \in Nat
  BY <1>5 DEF Framed, FramebufferType
<1>7. /\ noted \in Seq(Rect)
      /\ OneRectangle => Len(noted) \in {0, 1}
      /\ f.painted \/ noted = <<Tiles>>
  BY <1>2, DamageForIs
<1>8. Framed(fb')
  BY <1>3, <1>5, <1>7, AppliedFramed
<1>9. OneRectangle /\ Logged(fb) => Logged(fb')
  BY <1>3, <1>5, <1>7, AppliedLogged
<1>10. Later(f, fb') /\ fb'.sizeGeneration = f.sizeGeneration
  BY <1>3, <1>6, <1>7, AppliedLater
<1>11. Later(fb, fb')
  <2>1. CASE fb.size = s
    BY <1>1, <1>10, <2>1
  <2>2. CASE fb.size # s
    <3>1. f.generation = fb.generation + 1 /\ f.sizeGeneration = fb.generation + 1
      BY <1>1, <1>4, <2>2, ResizedLogged
    <3>2. fb'.sizeGeneration > fb.generation
      BY <1>4, <1>10, <3>1
    <3>3. fb'.generation \in Nat /\ f.generation <= fb'.generation
      BY <1>8, <1>10 DEF Later, Framed, FramebufferType
    <3>4. fb.generation <= fb'.generation
      BY <1>4, <3>1, <3>3
    <3>5. QED
      BY <3>2, <3>4 DEF Later
  <2>3. QED
    BY <2>1, <2>2
<1>12. QED
  BY <1>8, <1>9, <1>11

LEMMA ResizeKeeps ==
  ASSUME Framed(fb), NEW s \in Sizes, Resize(s)
  PROVE  /\ Framed(fb')
         /\ Logged(fb) => Logged(fb')
         /\ Later(fb, fb')
<1>1. fb' = Resized(fb, s, Server) /\ fb \in FramebufferType /\ fb.generation \in Nat
  BY DEF Resize, Framed, FramebufferType
<1>2. /\ Framed(fb') /\ (Logged(fb) => Logged(fb'))
      /\ fb'.generation = fb.generation + 1 /\ fb'.sizeGeneration = fb.generation + 1
  BY <1>1, ResizedLogged
<1>3. QED
  BY <1>1, <1>2 DEF Later

\* The place of a generation in a log that reaches back that far.
LEMMA InTheLog ==
  ASSUME NEW g \in Nat, NEW p \in Nat, NEW len \in Nat, NEW since \in Nat,
         p <= g, p > since, g - len + 1 <= since + 1
  PROVE  p - (g - len) \in 1 .. len
OBVIOUS

\* damage_since of a log that is what happened last.
LEMMA LogCovers ==
  ASSUME NEW f, Logged(f), f.painted, NEW since \in 1 .. f.generation
  PROVE  {t \in Tiles : f.pixels[t] > since} \subseteq DamageSince(f, since)
<1>1. /\ f.generation \in Nat /\ f.sizeGeneration \in Nat /\ since \in Nat
      /\ f.pixels \in [Tiles -> Nat] /\ f.log \in Seq(Entry)
  BY DEF Logged, Framed, FramebufferType, Entry
<1>2. SUFFICES ASSUME NEW t \in Tiles, f.pixels[t] > since
               PROVE  t \in DamageSince(f, since)
  OBVIOUS
<1>3. PICK p \in Nat : p = f.pixels[t] /\ p > since /\ p <= f.generation
  BY <1>1, <1>2 DEF Logged, Framed, Generations
<1>4. CASE \/ since < f.sizeGeneration
           \/ since < f.generation /\ f.log # <<>> /\ Head(f.log).generation > since + 1
  BY <1>4 DEF DamageSince
<1>5. CASE ~(\/ since < f.sizeGeneration
             \/ since < f.generation /\ f.log # <<>> /\ Head(f.log).generation > since + 1)
  <2>1. PICK len \in Nat : len = Len(f.log)
    BY <1>1
  <2>2. since < f.generation /\ f.generation > f.sizeGeneration
    BY <1>1, <1>3, <1>5
  <2>3. f.log # <<>>
    BY <2>2 DEF Logged, Recent
  <2>4. 1 \in 1 .. Len(f.log) /\ Head(f.log) = f.log[1]
    BY <1>1, <2>3
  <2>5. Head(f.log).generation = f.generation - len + 1
    BY <2>1, <2>4 DEF Logged, Recent
  <2>6. f.generation - len + 1 <= since + 1
    BY <1>1, <1>5, <2>1, <2>2, <2>3, <2>5
  <2>7. PICK i \in 1 .. len : p = f.generation - len + i
    <3>1. p - (f.generation - len) \in 1 .. len
      BY <1>1, <1>3, <2>6, InTheLog
    <3>2. p = f.generation - len + (p - (f.generation - len))
      BY <1>1, <1>3, <2>1
    <3>3. QED
      BY <3>1, <3>2
  <2>8. f.log[i].generation = p /\ t \in f.log[i].rect
    BY <1>3, <2>1, <2>7 DEF Logged, Recent
  <2>9. i \in DOMAIN f.log /\ f.log[i].generation > since
    BY <1>1, <1>3, <2>1, <2>8
  <2>10. DamageSince(f, since) =
           UNION {f.log[j].rect : j \in {k \in DOMAIN f.log : f.log[k].generation > since}}
    BY <1>5 DEF DamageSince
  <2>11. QED
    BY <2>8, <2>9, <2>10
<1>6. QED
  BY <1>4, <1>5
-----------------------------------------------------------------------------
(* Types.                                                                  *)

\* What every session relies on, whatever the frames report.
Typed == UpdatesTypeOK /\ Framed(fb)

ClientType == [size : Sizes, shown : [Tiles -> Nat], asked : BOOLEAN,
               decoder : {"nothing", "stream", "garbage"}]

SendType ==
  /\ session \in SessionType
  /\ client \in ClientType
  /\ phase \in {"waiting", "reading", "looking", "taking", "arming"}
  /\ announced \in BOOLEAN /\ tick \in BOOLEAN /\ held \in BOOLEAN /\ armed \in BOOLEAN

LEMMA TypedIs == Typed <=> Framed(fb) /\ SendType
BY DEF Typed, UpdatesTypeOK, TypeOK, Framed, SendType, ClientType

LEMMA TypedInit == UpdatesInit => Typed
<1>1. SUFFICES ASSUME UpdatesInit PROVE Framed(fb) /\ SendType
  BY TypedIs
<1>2. Framed(fb)
  BY <1>1, NewLogged DEF UpdatesInit, Init, Logged
<1>3. fb.size \in Sizes
  BY <1>2 DEF Framed, FramebufferType
<1>4. session \in SessionType
  BY <1>1, <1>3 DEF UpdatesInit, SessionType
<1>5. [t \in Tiles |-> 0] \in [Tiles -> Nat]
  OBVIOUS
<1>6. client \in ClientType
  BY <1>1, <1>3, <1>5 DEF UpdatesInit, ClientType
<1>7. QED
  BY <1>1, <1>2, <1>4, <1>6 DEF UpdatesInit, SendType

LEMMA TypedSession ==
  ASSUME Framed(fb), SendType, SessionNext
  PROVE  SendType' /\ UNCHANGED fb
<1> USE DEF SendType
<1>1. fb.size \in Sizes /\ fb.generation \in Nat /\ fb.pixels \in [Tiles -> Nat]
  BY DEF Framed, FramebufferType
<1>2. ASSUME NEW kind \in Requests, Request(kind)
      PROVE  SendType' /\ UNCHANGED fb
  <2>1. PICK pending \in {"none", "incremental", "full"} :
          session' = [session EXCEPT !.pending = pending]
    BY <1>2, RequestAssumption DEF Request, Message, Woken, SessionType
  <2>2. session' \in SessionType
    BY <2>1 DEF SessionType
  <2>3. [t \in Tiles |-> 0] \in [Tiles -> Nat]
    OBVIOUS
  <2>4. client' \in ClientType
    BY <1>2, <2>3 DEF Request, PictureLost, ClientType
  <2>5. QED
    BY <1>2, <2>2, <2>4 DEF Request, Message, Woken
<1>3. ASSUME NEW enable \in BOOLEAN, EnableContinuousUpdates(enable)
      PROVE  SendType' /\ UNCHANGED fb
  BY <1>3 DEF EnableContinuousUpdates, Message, Woken, SessionType
<1>4. CASE Fence
  BY <1>4 DEF Fence, Message, Woken, SessionType
<1>5. CASE FramesChanged
  BY <1>5 DEF FramesChanged, Woken
<1>6. ASSUME NEW cursor \in BOOLEAN, EventReceived(cursor)
      PROVE  SendType' /\ UNCHANGED fb
  BY <1>6 DEF EventReceived, Woken, SessionType
<1>7. CASE TurnComes
  BY <1>7 DEF TurnComes, Woken
<1>8. CASE Look
  <2>1. session' \in SessionType
    BY <1>8 DEF Look, SessionType, Answered
  <2>2. announced' \in BOOLEAN /\ phase' \in {"arming", "taking"}
    BY <1>8 DEF Look, SessionType
  <2>3. QED
    BY <1>8, <2>1, <2>2 DEF Look
<1>9. CASE MakeStream
  <2>1. session' \in SessionType
    BY <1>1, <1>9 DEF MakeStream, SessionType
  <2>2. client' \in ClientType
    BY <1>9 DEF MakeStream, ClientType
  <2>3. QED
    BY <1>9, <2>1, <2>2 DEF MakeStream
<1>10. CASE TakeNothing
  BY <1>10 DEF TakeNothing, SessionType, Answered
<1>11. CASE TakePixels
  <2>1. session' \in SessionType
    BY <1>1, <1>11, FencesAssumption DEF TakePixels, SessionType
  <2>2. [t \in Tiles |-> IF t \in Damage THEN fb.pixels[t] ELSE client.shown[t]]
          \in [Tiles -> Nat]
    BY <1>1 DEF ClientType
  <2>3. Decoded \in {"nothing", "stream", "garbage"}
    BY DEF Decoded, ClientType
  <2>4. (client.asked /\ Damage # Tiles) \in BOOLEAN
    OBVIOUS
  <2>5. client' \in ClientType
    BY <1>1, <1>11, <2>2, <2>3, <2>4 DEF TakePixels, ClientType
  <2>6. QED
    BY <1>11, <2>1, <2>5 DEF TakePixels, Sending
<1>12. CASE EncoderMakesNone
  <2>1. session' \in SessionType
    BY <1>1, <1>12 DEF EncoderMakesNone, SessionType
  <2>2. client' \in ClientType
    BY <1>1, <1>12 DEF EncoderMakesNone, ClientType
  <2>3. QED
    BY <1>12, <2>1, <2>2 DEF EncoderMakesNone, Sending
<1>13. CASE Arm
  BY <1>13 DEF Arm, Wants, SessionType
<1>14. QED
  BY <1>2, <1>3, <1>4, <1>5, <1>6, <1>7, <1>8, <1>9, <1>10, <1>11, <1>12, <1>13
  DEF SessionNext

\* The framebuffer moves by what the compositor thread does of it, and no
\* further than that.
LEMMA FramebufferMoves ==
  ASSUME Typed, [UpdatesNext]_vars
  PROVE  /\ Framed(fb')
         /\ OneRectangle /\ Logged(fb) => Logged(fb')
         /\ \/ Later(fb, fb') /\ UNCHANGED <<session, client>>
            \/ SessionNext
            \/ UNCHANGED vars
<1>1. Framed(fb)
  BY DEF Typed
<1>2. CASE FrameArrives
  BY <1>1, <1>2, FrameKeeps DEF FrameArrives
<1>3. CASE OutputShared
  BY <1>1, <1>3, ResizeKeeps DEF OutputShared, svars
<1>4. CASE SessionNext
  BY <1>1, <1>4, TypedIs, TypedSession
<1>5. CASE UNCHANGED vars
  BY <1>1, <1>5 DEF vars
<1>6. QED
  BY <1>2, <1>3, <1>4, <1>5 DEF UpdatesNext

LEMMA TypedNext == Typed /\ [UpdatesNext]_vars => Typed'
<1>1. SUFFICES ASSUME Typed, [UpdatesNext]_vars PROVE Typed'
  OBVIOUS
<1>2. Framed(fb) /\ SendType /\ Framed(fb')
  BY <1>1, TypedIs, FramebufferMoves
<1>3. SendType'
  <2>1. CASE FrameArrives
    BY <1>2, <2>1 DEF FrameArrives, SendType
  <2>2. CASE OutputShared
    BY <1>2, <2>2 DEF OutputShared, svars, SendType
  <2>3. CASE SessionNext
    BY <1>2, <2>3, TypedSession
  <2>4. CASE UNCHANGED vars
    BY <1>2, <2>4 DEF vars, svars, SendType
  <2>5. QED
    BY <1>1, <2>1, <2>2, <2>3, <2>4 DEF UpdatesNext
<1>4. fb' \in FramebufferType
  BY <1>2 DEF Framed
<1>5. QED
  BY <1>2, <1>3, <1>4
  DEF Typed, UpdatesTypeOK, TypeOK, Framed, SendType, ClientType

\* The types of a session and of the framebuffer it reads, whatever rectangles
\* the frames' damage is reported in.
THEOREM TypeCorrect == UpdatesSpec => [](UpdatesTypeOK /\ PaintedIsWhole)
<1>1. Typed => UpdatesTypeOK /\ PaintedIsWhole
  BY DEF Typed, Framed, Painted, PaintedIsWhole
<1>2. QED
  BY <1>1, TypedInit, TypedNext, PTL DEF UpdatesSpec
-----------------------------------------------------------------------------
(* The log.                                                                *)

\* Nothing is kept out of LogHolds: of frames whose damage is one rectangle,
\* the log is what happened last at this size, and whatever was trimmed,
\* cleared or resized in between, damage_since leaves out no tile written.
THEOREM LogIsHeld ==
  ASSUME OneRectangle
  PROVE  UpdatesSpec => []LogHolds
<1> DEFINE IInv == Typed /\ Logged(fb)
<1>1. UpdatesInit => IInv
  <2>1. UpdatesInit => Logged(fb)
    BY NewLogged DEF UpdatesInit, Init
  <2>2. QED
    BY <2>1, TypedInit
<1>2. IInv /\ [UpdatesNext]_vars => IInv'
  <2>1. SUFFICES ASSUME Typed, Logged(fb), [UpdatesNext]_vars PROVE Typed' /\ Logged(fb')
    OBVIOUS
  <2>2. Logged(fb')
    BY <2>1, FramebufferMoves
  <2>3. QED
    BY <2>1, <2>2, TypedNext
<1>3. IInv => LogHolds
  <2>1. SUFFICES ASSUME Typed, Logged(fb) PROVE LogHolds
    OBVIOUS
  <2>2. UpdatesTypeOK /\ PaintedIsWhole
    BY <2>1 DEF Typed, Framed, Painted, PaintedIsWhole
  <2>3. LogIsRecent
    <3>1. DOMAIN fb.log = 1 .. Len(fb.log)
      BY <2>1 DEF Logged, Framed, FramebufferType
    <3>2. QED
      BY <2>1, <3>1 DEF Logged, Recent, LogIsRecent
  <2>4. DamageCovers
    BY <2>1, LogCovers DEF DamageCovers
  <2>5. QED
    BY <2>2, <2>3, <2>4 DEF LogHolds
<1>4. QED
  BY <1>1, <1>2, <1>3, PTL DEF UpdatesSpec

-----------------------------------------------------------------------------
(* The client's picture.                                                   *)

Shows == session.seen <= fb.generation /\ ClientHasWhatIsSeen

LEMMA ShowsNext ==
  ASSUME OneRectangle, Typed, Logged(fb), Shows, [UpdatesNext]_vars
  PROVE  Shows'
<1>1. /\ fb.generation \in Nat /\ fb.sizeGeneration \in Nat
      /\ session.seen \in Nat /\ session \in SessionType
      /\ \A t \in Tiles : fb.pixels[t] \in Nat
      /\ client \in ClientType
  BY TypedIs DEF Logged, Framed, FramebufferType, SendType, SessionType
<1>2. CASE Later(fb, fb') /\ UNCHANGED <<session, client>>
  <2>1. /\ fb'.generation \in Nat /\ fb'.sizeGeneration \in Nat
        /\ \A t \in Tiles : fb'.pixels[t] \in Nat
    BY FramebufferMoves DEF Framed, FramebufferType
  <2>2. fb.generation <= fb'.generation /\ session'.seen = session.seen /\ client' = client
    BY <1>2 DEF Later
  <2>3. session'.seen <= fb'.generation
    BY <1>1, <2>1, <2>2 DEF Shows
  <2>4. ClientHasWhatIsSeen'
    <3>1. SUFFICES ASSUME session.seen >= fb'.sizeGeneration, ~client.asked
                   PROVE  /\ client.size = fb'.size
                          /\ \A t \in Tiles : fb'.pixels[t] <= session.seen =>
                               client.shown[t] = fb'.pixels[t]
      BY <2>2, Zenon DEF ClientHasWhatIsSeen
    <3>2. ~(fb'.sizeGeneration > fb.generation)
      BY <1>1, <2>1, <3>1 DEF Shows
    <3>3. /\ fb'.size = fb.size /\ fb'.sizeGeneration = fb.sizeGeneration
          /\ \A t \in Tiles : fb'.pixels[t] = fb.pixels[t] \/ fb'.pixels[t] > fb.generation
      BY <1>2, <3>2 DEF Later
    <3>4. /\ client.size = fb.size
          /\ \A t \in Tiles : fb.pixels[t] <= session.seen => client.shown[t] = fb.pixels[t]
      BY <3>1, <3>3 DEF Shows, ClientHasWhatIsSeen
    <3>5. ASSUME NEW t \in Tiles, fb'.pixels[t] <= session.seen
          PROVE  client.shown[t] = fb'.pixels[t]
      <4>1. ~(fb'.pixels[t] > fb.generation)
        BY <1>1, <2>1, <3>5 DEF Shows
      <4>2. fb'.pixels[t] = fb.pixels[t]
        BY <3>3, <4>1
      <4>3. QED
        BY <3>4, <3>5, <4>2
    <3>6. QED
      BY <3>3, <3>4, <3>5
  <2>5. QED
    BY <2>3, <2>4 DEF Shows
<1>3. CASE TakePixels
  <2>1. /\ fb' = fb /\ session'.seen = fb.generation /\ client'.size = fb.size
        /\ client'.asked = (client.asked /\ Damage # Tiles)
        /\ \A t \in Tiles : client'.shown[t] = IF t \in Damage THEN fb.pixels[t]
                                                          ELSE client.shown[t]
    BY <1>1, <1>3 DEF TakePixels, Sending, SessionType
  <2>2. ASSUME ~client'.asked, NEW t \in Tiles
        PROVE  client'.shown[t] = fb.pixels[t]
    <3>1. CASE t \in Damage
      BY <2>1, <3>1
    <3>2. CASE t \notin Damage
      <4>1. Damage # Tiles /\ ~client.asked /\ client'.shown[t] = client.shown[t]
        BY <2>1, <2>2, <3>2
      <4>2. /\ ~Full /\ Damage = DamageSince(fb, session.seen)
        BY <4>1 DEF Damage
      <4>3. session.seen \in 1 .. fb.generation /\ fb.painted
        BY <1>1, <1>3, <4>2 DEF Full, Shows, TakePixels, Sending, NothingToSend
      <4>4. ~(fb.pixels[t] > session.seen)
        BY <3>2, <4>2, <4>3, LogCovers
      <4>5. ~(session.seen < fb.sizeGeneration)
        BY <4>1, <4>2 DEF DamageSince
      <4>6. client.shown[t] = fb.pixels[t]
        BY <1>1, <4>1, <4>4, <4>5 DEF Shows, ClientHasWhatIsSeen
      <4>7. QED
        BY <4>1, <4>6
    <3>3. QED
      BY <3>1, <3>2
  <2>3. ClientHasWhatIsSeen'
    BY <2>1, <2>2 DEF ClientHasWhatIsSeen
  <2>4. session'.seen <= fb'.generation
    BY <1>1, <2>1
  <2>5. QED
    BY <2>3, <2>4 DEF Shows
<1>4. CASE EncoderMakesNone
  <2>1. /\ fb' = fb /\ session'.seen = session.seen /\ client'.size = fb.size
        /\ client'.asked = client.asked /\ client'.shown = client.shown
    BY <1>1, <1>4 DEF EncoderMakesNone, Sending, SessionType, ClientType
  <2>2. QED
    BY <2>1 DEF Shows, ClientHasWhatIsSeen
<1>5. CASE \/ \E kind \in Requests : Request(kind)
           \/ \E enable \in BOOLEAN : EnableContinuousUpdates(enable)
           \/ Fence \/ FramesChanged
           \/ \E cursor \in BOOLEAN : EventReceived(cursor)
           \/ TurnComes \/ Look \/ MakeStream \/ TakeNothing \/ Arm
           \/ UNCHANGED vars
  <2>1. fb' = fb /\ session'.seen = session.seen
    BY <1>1, <1>5
    DEF Request, EnableContinuousUpdates, Fence, FramesChanged, EventReceived,
        TurnComes, Look, MakeStream, TakeNothing, Arm, Message, Woken, SessionType,
        vars, svars
  <2>2. \/ client'.asked
        \/ /\ client'.asked = client.asked /\ client'.shown = client.shown
           /\ client'.size = client.size
    BY <1>1, <1>5
    DEF Request, EnableContinuousUpdates, Fence, FramesChanged, EventReceived,
        TurnComes, Look, MakeStream, TakeNothing, Arm, PictureLost, ClientType,
        vars, svars
  <2>3. QED
    BY <2>1, <2>2 DEF Shows, ClientHasWhatIsSeen
<1>6. QED
  BY <1>2, <1>3, <1>4, <1>5, FramebufferMoves DEF SessionNext

\* Whatever frames, sizes, requests and frames that were not made come between
\* two updates, what the session counts as seen the client has: the log's
\* promise, and that the session asks for everything where it does not hold.
THEOREM ClientHasIt ==
  ASSUME OneRectangle
  PROVE  UpdatesSpec => []ClientHasWhatIsSeen
<1> DEFINE IInv == Typed /\ Logged(fb) /\ Shows
<1>1. UpdatesInit => IInv
  <2>1. SUFFICES ASSUME UpdatesInit PROVE IInv
    OBVIOUS
  <2>2. Logged(fb) /\ fb.sizeGeneration = 1 /\ fb.generation = 1
    <3>1. PICK s \in Sizes : fb = New(s)
      BY <2>1 DEF UpdatesInit, Init
    <3>2. Logged(fb)
      BY <3>1, NewLogged
    <3>3. QED
      BY <3>1, <3>2 DEF New
  <2>3. session.seen = 0
    BY <2>1 DEF UpdatesInit
  <2>4. QED
    BY <2>1, <2>2, <2>3, TypedInit DEF Shows, ClientHasWhatIsSeen
<1>2. IInv /\ [UpdatesNext]_vars => IInv'
  <2>1. SUFFICES ASSUME Typed, Logged(fb), Shows, [UpdatesNext]_vars
                 PROVE  Typed' /\ Logged(fb') /\ Shows'
    OBVIOUS
  <2>2. Logged(fb')
    BY <2>1, FramebufferMoves
  <2>3. QED
    BY <2>1, <2>2, TypedNext, ShowsNext
<1>3. IInv => ClientHasWhatIsSeen
  BY DEF Shows
<1>4. QED
  BY <1>1, <1>2, <1>3, PTL DEF UpdatesSpec

-----------------------------------------------------------------------------
(* The decoder.                                                            *)

\* A decoder that holds nothing of the stream will be sent an IDR: the
\* session owes one, or has sent no picture at all.
Fed == /\ DecoderIsFed
       /\ Video /\ client.decoder = "nothing" => session.keyframeOwed \/ session.seen = 0

\* Of any rectangles and any encoder, also one that makes no frame of a
\* picture: no change reaches a decoder that does not hold what it changes.
THEOREM DecoderFed == UpdatesSpec => []DecoderIsFed
<1>1. UpdatesInit => Typed /\ Fed
  <2>1. UpdatesInit => Fed
    BY DEF UpdatesInit, Fed, DecoderIsFed
  <2>2. QED
    BY <2>1, TypedInit
<1>2. Typed /\ Fed /\ [UpdatesNext]_vars => Typed' /\ Fed'
  <2>1. SUFFICES ASSUME Typed, Fed, [UpdatesNext]_vars PROVE Fed'
    BY TypedNext
  <2>2. session \in SessionType /\ client \in ClientType
    BY <2>1, TypedIs DEF SendType
  <2>3. CASE TakePixels
    <3>1. client'.decoder = Decoded /\ session'.encoder = session.encoder
      BY <2>2, <2>3 DEF TakePixels, SessionType
    <3>2. Decoded # "garbage" /\ (Video => Decoded # "nothing")
      BY <2>1 DEF Decoded, Full, Fed, DecoderIsFed
    <3>3. QED
      BY <3>1, <3>2 DEF Fed, DecoderIsFed, Video
  <2>4. CASE MakeStream
    <3>1. client'.decoder = "nothing" /\ session'.keyframeOwed
      BY <2>2, <2>4 DEF MakeStream, SessionType, ClientType
    <3>2. QED
      BY <3>1 DEF Fed, DecoderIsFed
  <2>5. CASE \/ FrameArrives \/ OutputShared
             \/ \E kind \in Requests : Request(kind)
             \/ \E enable \in BOOLEAN : EnableContinuousUpdates(enable)
             \/ Fence \/ FramesChanged
             \/ \E cursor \in BOOLEAN : EventReceived(cursor)
             \/ TurnComes \/ Look \/ TakeNothing \/ EncoderMakesNone \/ Arm
             \/ UNCHANGED vars
    <3>1. /\ session'.seen = session.seen /\ session'.encoder = session.encoder
          /\ session'.keyframeOwed = session.keyframeOwed
      BY <2>2, <2>5
      DEF FrameArrives, OutputShared, Request, EnableContinuousUpdates, Fence,
          FramesChanged, EventReceived, TurnComes, Look, TakeNothing,
          EncoderMakesNone, Arm, Message, Woken, SessionType, vars, svars
    <3>2. client'.decoder = client.decoder
      BY <2>2, <2>5
      DEF FrameArrives, OutputShared, Request, EnableContinuousUpdates, Fence,
          FramesChanged, EventReceived, TurnComes, Look, TakeNothing,
          EncoderMakesNone, Arm, PictureLost, ClientType, vars, svars
    <3>3. QED
      BY <2>1, <3>1, <3>2 DEF Fed, DecoderIsFed, Video
  <2>6. QED
    BY <2>1, <2>3, <2>4, <2>5 DEF UpdatesNext, SessionNext
<1>3. Fed => DecoderIsFed
  BY DEF Fed
<1>4. QED
  BY <1>1, <1>2, <1>3, PTL DEF UpdatesSpec
=============================================================================
