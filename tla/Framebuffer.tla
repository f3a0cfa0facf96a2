----------------------------- MODULE Framebuffer -----------------------------
(***************************************************************************)
(* The framebuffer of one desk (src/framebuffer.rs): what it shows, and    *)
(* the log of what changed when, from which a session that last sent       *)
(* generation n asks for everything after n.  The frames that reach it are *)
(* those of src/capture.rs, whole or by the damage the compositor reports. *)
(*                                                                         *)
(* A rectangle is the set of tiles it touches, and a tile's pixels are the *)
(* generation that last wrote them: two framebuffers that agree on it show *)
(* the same.                                                               *)
(***************************************************************************)
EXTENDS Integers, Sequences

CONSTANTS
  Tiles,          \* The pixels, as coarsely as rectangles tell them apart.
  Sizes,          \* The sizes an output's frames come in.
  Clients,        \* Who may have asked for a size.
  LogLimit,       \* LOG_LIMIT: the rectangles the log keeps.
  MaxRects,       \* Bound: the rectangles one frame's damage is reported in.
  MaxGeneration   \* Bound: the changes of a behaviour.

Server == 0

ASSUME TilesAssumption      == Tiles # {} /\ Sizes # {}
ASSUME FbClientsAssumption  == Clients \subseteq Nat \ {Server}
ASSUME LogAssumption        == LogLimit \in Nat \ {0}
ASSUME RectsAssumption      == MaxRects \in Nat \ {0}
ASSUME GenerationAssumption == MaxGeneration \in Nat

VARIABLE fb

Rect == (SUBSET Tiles) \ {{}}

FramebufferType ==
  [size : Sizes,
   generation : Nat \ {0},
   sizeGeneration : Nat \ {0},
   origin : Clients \cup {Server},
   painted : BOOLEAN,
   log : Seq([generation : Nat \ {0}, rect : Rect]),
   pixels : [Tiles -> Nat]]

(* Framebuffer::new                                                        *)
New(size) ==
  [size |-> size, generation |-> 1, sizeGeneration |-> 1, origin |-> Server,
   painted |-> FALSE, log |-> <<>>, pixels |-> [t \in Tiles |-> 0]]

(* Mutant: the log of another size is kept. *)
ResizedWithLog(f, size, origin) ==
  [f EXCEPT !.size = size, !.origin = origin, !.painted = FALSE,
            !.generation = @ + 1,
            !.pixels = [t \in Tiles |-> 0]]

(* resize: blank until a frame at the new size arrives.                    *)
Resized(f, size, origin) ==
  [f EXCEPT !.size = size, !.origin = origin, !.painted = FALSE,
            !.generation = @ + 1, !.sizeGeneration = f.generation + 1,
            !.pixels = [t \in Tiles |-> 0],
            !.log = <<>>]

Trimmed(log) ==
  IF Len(log) <= LogLimit THEN log
                          ELSE SubSeq(log, Len(log) - LogLimit + 1, Len(log))

(* apply: what is left of the rectangles, clipped to the framebuffer; with *)
(* nothing left there is no change.                                        *)
Applied(f, noted) ==
  LET g == f.generation + 1
  IN  IF noted = <<>> THEN f
      ELSE [f EXCEPT !.generation = g,
                     !.painted = TRUE,
                     !.pixels = [t \in Tiles |->
                        IF \E i \in DOMAIN noted : t \in noted[i] THEN g ELSE @[t]],
                     !.log = Trimmed(@ \o [i \in DOMAIN noted |->
                               [generation |-> g, rect |-> noted[i]]])]

(* damage_for: a blank framebuffer takes the frame whole, and so does a    *)
(* frame without damage.  `reported.any` is whether the compositor         *)
(* reported a rectangle, `reported.noted` what clipping leaves of them.    *)
DamageFor(f, reported) ==
  IF f.painted /\ reported.any THEN reported.noted ELSE <<Tiles>>

(* Mutant: one generation too late to notice that entries were dropped. *)
DamageSinceLate(f, since) ==
  IF \/ since < f.sizeGeneration
     \/ since < f.generation /\ f.log # <<>> /\ Head(f.log).generation > since + 2
  THEN Tiles
  ELSE UNION {f.log[i].rect : i \in {j \in DOMAIN f.log : f.log[j].generation > since}}

(* damage_since: what changed after `since`, and everything where it was   *)
(* never seen at this size or the log no longer reaches back that far.     *)
(* Merging rectangles covers what they covered.                            *)
DamageSince(f, since) ==
  IF \/ since < f.sizeGeneration
     \/ /\ since < f.generation
        /\ f.log # <<>>
        /\ Head(f.log).generation > since + 1
  THEN Tiles
  ELSE UNION {f.log[i].rect : i \in {j \in DOMAIN f.log : f.log[j].generation > since}}

-----------------------------------------------------------------------------
TypeOK == fb \in FramebufferType

Init == \E s \in Sizes : fb = New(s)

(* share_output and end_beside: the desk is on another output.             *)
Resize(size) ==
  /\ fb.generation < MaxGeneration
  /\ fb' = Resized(fb, size, Server)

(* frame_ready: a frame of another size takes the framebuffer to it, in    *)
(* the name of the client whose request it answers, if any; a frame's      *)
(* damage is reported against the frame before.                            *)
Frame(size, origin, reported) ==
  /\ fb.generation + 1 < MaxGeneration
  /\ LET f == IF fb.size = size THEN fb ELSE Resized(fb, size, origin)
     IN  fb' = Applied(f, DamageFor(f, reported))

Reports ==
  {r \in [any : BOOLEAN, noted : UNION {[1 .. n -> Rect] : n \in 0 .. MaxRects}] :
     r.noted # <<>> => r.any}

-----------------------------------------------------------------------------
(* A session that asks for what changed after any generation is given      *)
(* every tile that did, however the log was trimmed, cleared or resized in *)
(* between.                                                                *)
DamageCovers ==
  fb.painted => \A since \in 1 .. fb.generation :
                  {t \in Tiles : fb.pixels[t] > since} \subseteq DamageSince(fb, since)

(* A framebuffer that says it is painted has no blank tile at its size.    *)
PaintedIsWhole ==
  fb.painted => \A t \in Tiles : fb.pixels[t] > fb.sizeGeneration

(* The log is what happened last at this size: with one rectangle to a     *)
(* frame its entries are the latest generations, one after the other, each *)
(* with the tiles it wrote, and no more of them than are kept.             *)
LogIsRecent ==
  /\ Len(fb.log) <= LogLimit
  /\ fb.generation > fb.sizeGeneration => fb.log # <<>>
  /\ \A i \in DOMAIN fb.log :
       /\ fb.log[i].generation = fb.generation - Len(fb.log) + i
       /\ fb.log[i].generation > fb.sizeGeneration
       /\ \A t \in Tiles : fb.pixels[t] = fb.log[i].generation => t \in fb.log[i].rect
=============================================================================
