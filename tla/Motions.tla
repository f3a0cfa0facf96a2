-------------------------------- MODULE Motions --------------------------------
(***************************************************************************)
(* Where a client's position lands on the layout: the absolute motion that *)
(* src/input.rs aims at its desk's output, which src/outputs.rs places.    *)
(*                                                                         *)
(* The compositor, external, spreads a motion over the box of the whole    *)
(* layout.  Places are exact here; the floating point's rounding is an     *)
(* error of one part in the numerator either way, before it is corrected.  *)
(***************************************************************************)
EXTENDS Integers

CONSTANTS
  EXTENT,     \* The parts a motion is of, on each axis of the layout.
  EDGE,       \* A motion is kept this part of a unit short of an output's far edges.
  Layouts,    \* Sets of outputs, whose boxes share no point.
  Extents     \* Sizes a framebuffer has, as <<width, height>>.

ASSUME MotionsAssumption == EXTENT \in Nat \ {0} /\ EDGE \in Nat \ {0}

NoAim == <<>>

\* A transform is whether it flips and how many quarters it turns.
AnyTransform == BOOLEAN \X (0 .. 3)

\* OutputInfo::size: the mode's, upright.
OutputSize(o) == IF o.transform[2] % 2 = 1 THEN <<o.mode[2], o.mode[1]>> ELSE o.mode

Lowest(S)  == CHOOSE x \in S : \A y \in S : x <= y
Highest(S) == CHOOSE x \in S : \A y \in S : x >= y

\* layout: the union of the boxes there are.
Layout(outputs) ==
  LET boxes == UNION {o.box : o \in outputs}
      from(axis) == Lowest({b.at[axis] : b \in boxes})
      to(axis)   == Highest({b.at[axis] + b.size[axis] : b \in boxes})
  IN  IF boxes = {} THEN {}
      ELSE {[at |-> <<from(1), from(2)>>, size |-> <<to(1) - from(1), to(2) - from(2)>>]}

\* placement_of: once xdg-output has said where the output is.
PlacementOf(o, outputs) ==
  {[logical |-> b, size |-> OutputSize(o), transform |-> o.transform, layout |-> l] :
     b \in o.box, l \in Layout(outputs)}

(* Mutant: a quarter turn is made the other way.                           *)
UprightAxesOtherWay(transform, x, y, w, h) ==
  LET right == <<w - x, w>>  left == <<x, w>>
      down  == <<h - y, h>>  up   == <<y, h>>
  IN CASE transform = <<FALSE, 0>> -> <<left, up>>
       [] transform = <<FALSE, 1>> -> <<up, right>>
       [] transform = <<FALSE, 2>> -> <<right, down>>
       [] transform = <<FALSE, 3>> -> <<down, left>>
       [] transform = <<TRUE, 0>>  -> <<right, up>>
       [] transform = <<TRUE, 1>>  -> <<up, left>>
       [] transform = <<TRUE, 2>>  -> <<left, down>>
       [] transform = <<TRUE, 3>>  -> <<down, right>>

\* aim: each upright axis as a fraction of the output, of x of w and y of h.
UprightAxes(transform, x, y, w, h) ==
  LET right == <<w - x, w>>  left == <<x, w>>
      down  == <<h - y, h>>  up   == <<y, h>>
  IN CASE transform = <<FALSE, 0>> -> <<left, up>>
       [] transform = <<FALSE, 1>> -> <<down, left>>
       [] transform = <<FALSE, 2>> -> <<right, down>>
       [] transform = <<FALSE, 3>> -> <<up, right>>
       [] transform = <<TRUE, 0>>  -> <<right, up>>
       [] transform = <<TRUE, 1>>  -> <<up, left>>
       [] transform = <<TRUE, 2>>  -> <<left, down>>
       [] transform = <<TRUE, 3>>  -> <<down, right>>

\* A fraction of a box's axis, kept within it: in parts of a unit, times `of`,
\* from where the layout starts.
PlaceOn(fraction, pixels, box, layout, axis) ==
  LET at == fraction[1]  of == fraction[2]  units == box.size[axis]
      far == units * EDGE - 1
      spread == IF pixels = 0 THEN 0 ELSE at * units * EDGE
  IN  (box.at[axis] - layout.at[axis]) * of * EDGE
        + (IF spread > far * of THEN far * of ELSE spread)

FarEdge(of, box, layout, axis) ==
  (box.at[axis] - layout.at[axis] + box.size[axis]) * of * EDGE - of

\* wlr_cursor_absolute_to_layout_coords: what n parts of the layout are, on the
\* scale of a place.
Lands(n, of, layout, axis) == layout.size[axis] * n * of * EDGE

(* Mutant: a motion rounded past its output's edge stays there.            *)
NumeratorPast(fraction, pixels, box, layout, axis, rounding) ==
  LET place == PlaceOn(fraction, pixels, box, layout, axis)
      least == -((-place * EXTENT) \div Lands(1, fraction[2], layout, axis))
      first == Highest({0, Lowest({EXTENT, least + rounding})})
  IN  Highest({first, Lowest({EXTENT, least})})

\* axis: the least numerator that is not short of the place, moved on where its
\* rounding left it short, and then back where it is past the edge.
Numerator(fraction, pixels, box, layout, axis, rounding) ==
  LET part  == Lands(1, fraction[2], layout, axis)
      place == PlaceOn(fraction, pixels, box, layout, axis)
      least == -((-place * EXTENT) \div part)
      first == Highest({0, Lowest({EXTENT, least + rounding})})
      most  == (FarEdge(fraction[2], box, layout, axis) * EXTENT) \div part
  IN  Highest({0, Lowest({most, Highest({first, Lowest({EXTENT, least})})})})

\* aim: nothing for an output or a layout of no size; a position past the extent
\* is at its far edge.
Aim(x, y, extent, p, rounding) ==
  LET w == Highest({extent[1], 1})  h == Highest({extent[2], 1})
      upright == UprightAxes(p.transform, Lowest({x, w}), Lowest({y, h}), w, h)
  IN  IF \E axis \in 1 .. 2 : p.logical.size[axis] <= 0 \/ p.layout.size[axis] <= 0
      THEN NoAim
      ELSE [axis \in 1 .. 2 |->
              Numerator(upright[axis], p.size[axis], p.logical, p.layout, axis, rounding)]

-----------------------------------------------------------------------------
\* A transform done a quarter at a time, and then flipped.
Turn(f)    == <<<<f[2][2] - f[2][1], f[2][2]>>, f[1]>>
Flip(f)    == <<<<f[1][2] - f[1][1], f[1][2]>>, f[2]>>
TurnedBy(t, f) ==
  LET turned == CASE t[2] = 0 -> f [] t[2] = 1 -> Turn(f)
                  [] t[2] = 2 -> Turn(Turn(f)) [] t[2] = 3 -> Turn(Turn(Turn(f)))
  IN  IF t[1] THEN Flip(turned) ELSE turned

\* Whether a motion lands on a box, its far edges not its own.
On(box, to, layout) ==
  \A axis \in 1 .. 2 :
    LET from == (box.at[axis] - layout.at[axis]) * EXTENT
        n    == layout.size[axis] * to[axis]
    IN  from <= n /\ n < from + box.size[axis] * EXTENT

\* Wherever an output is in the layout, however it is turned, whatever its scale
\* and whatever the framebuffer's size still is, a position lands on the output
\* and on no neighbour of it, within two parts of the layout of where it points,
\* short of it at the far edge alone and never past that edge; and one of no size
\* is not aimed at (src/input.rs:210-234).
MotionsLand ==
  \A outputs \in Layouts, extent \in Extents, transform \in AnyTransform,
     rounding \in -1 .. 1 :
    \A placed \in outputs :
      LET o      == [placed EXCEPT !.transform = transform]
          others == outputs \ {placed}
      IN  \A p \in PlacementOf(o, others \union {o}) :
            \A x \in 0 .. extent[1] + 1, y \in 0 .. extent[2] + 1 :
              LET to    == Aim(x, y, extent, p, rounding)
                  at(v, size) == LET most == Highest({size, 1}) IN <<Lowest({v, most}), most>>
                  reads == TurnedBy(transform, <<at(x, extent[1]), at(y, extent[2])>>)
              IN  IF p.logical.size[1] = 0 \/ p.logical.size[2] = 0 THEN to = NoAim
                  ELSE /\ On(p.logical, to, p.layout)
                       /\ \A other \in others : \A b \in other.box : ~On(b, to, p.layout)
                       /\ \A axis \in 1 .. 2 :
                            LET of    == reads[axis][2]
                                place == PlaceOn(reads[axis], p.size[axis], p.logical, p.layout, axis)
                                away(n) == Lands(n, of, p.layout, axis) - place * EXTENT
                                part    == Lands(1, of, p.layout, axis)
                            IN  /\ Lands(to[axis], of, p.layout, axis)
                                     <= FarEdge(of, p.logical, p.layout, axis) * EXTENT
                                /\ -part < away(to[axis]) /\ away(to[axis]) < 2 * part
                                /\ away(to[axis]) < 0 =>
                                     Lands(to[axis] + 1, of, p.layout, axis)
                                       > FarEdge(of, p.logical, p.layout, axis) * EXTENT
=============================================================================
