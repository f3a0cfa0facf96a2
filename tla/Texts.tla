--------------------------------- MODULE Texts ---------------------------------
(***************************************************************************)
(* A clipboard's text as it crosses (src/rfb/clipboard.rs): the bodies of  *)
(* the Extended Clipboard's messages, written by one end and read by the   *)
(* other, and the text's line endings, its NUL and its ceiling.            *)
(*                                                                         *)
(* A text is a sequence of characters; zlib is external, a stream is what  *)
(* it inflates to.                                                         *)
(***************************************************************************)
EXTENDS Integers, SequencesExt, FiniteSets

CONSTANTS
  MAX_TEXT,    \* The longest text sent or accepted, in bytes.
  MaxText      \* Bound: the characters of a text that is tried.

ASSUME TextsAssumption == MAX_TEXT \in Nat /\ MaxText \in Nat

\* Characters of one byte and of two, and what stands for a stray byte.
LF  == "lf"
CR  == "cr"
NUL == "nul"
Characters == {"a", "e-acute", LF, CR, NUL}
Utf8(c) ==
  CASE c = "a"       -> <<97>>
    [] c = "e-acute" -> <<195, 169>>
    [] c = "stray"   -> <<239, 191, 189>>
    [] c = LF -> <<10>>
    [] c = CR -> <<13>>
    [] c = NUL -> <<0>>

Each(s, Op(_)) == FlattenSeq([i \in 1 .. Len(s) |-> Op(i)])
BytesIn(text)  == Each(text, LAMBDA i : Utf8(text[i]))

(* Mutant: a line ending already of two characters becomes one of three.   *)
ToWireAsIs(text) ==
  BytesIn(Each(text, LAMBDA i : IF text[i] = LF THEN <<CR, LF>> ELSE <<text[i]>>)) \o <<0>>

\* to_wire: every line ending is CR LF, then the NUL.
ToWire(text) ==
  LET after(i, c) == i > 1 /\ text[i - 1] = c
  IN  BytesIn(Each(text, LAMBDA i : IF text[i] = LF /\ after(i, CR) THEN <<>>
                                    ELSE IF text[i] \in {CR, LF} THEN <<CR, LF>>
                                    ELSE <<text[i]>>)) \o <<0>>

\* from_wire: up to the NUL, a character for every stray byte, CR LF to LF.
FromWire(wire) ==
  LET zeros == {i \in 1 .. Len(wire) : wire[i] = 0}
      end   == IF zeros = {} THEN Len(wire) ELSE (CHOOSE i \in zeros : \A j \in zeros : i <= j) - 1
      is(i, b) == i \in 1 .. end /\ wire[i] = b
      char(i) == CASE wire[i] = 195 /\ is(i + 1, 169) -> <<"e-acute">>
                   [] wire[i] = 169 /\ is(i - 1, 195) -> <<>>
                   [] wire[i] = 13  /\ is(i + 1, 10)  -> <<>>
                   [] \/ wire[i] = 195 /\ ~is(i + 1, 169)
                      \/ wire[i] = 169 /\ ~is(i - 1, 195) -> <<"stray">>
                   [] OTHER -> <<CHOOSE c \in Characters : Utf8(c) = <<wire[i]>>>>
  IN  Each(SubSeq(wire, 1, end), char)

-----------------------------------------------------------------------------
(* Bodies: the flags, the sizes of a caps, the stream of a provide.        *)

Actions == {"caps", "request", "peek", "notify", "provide"}
TextFormats == {"text", "rtf"}

\* A stream inflates, or does not; to a length and bytes, or to less than those.
NoStream == [inflates |-> TRUE, lengths |-> <<>>, bytes |-> <<>>]
Body(actions, formats, sizes, stream) ==
  [flags |-> TRUE, actions |-> actions, formats |-> formats, sizes |-> sizes, stream |-> stream]
ShortBody == [Body({}, {}, <<>>, NoStream) EXCEPT !.flags = FALSE]

Error == [is |-> "error"]

\* caps, with a size or none.
CapsBody(actions, sizes) ==
  Body(actions \union {"caps"}, IF sizes = <<>> THEN {} ELSE {"text"}, sizes, NoStream)
NotifyBody(held) == Body({"notify"}, IF held THEN {"text"} ELSE {}, <<>>, NoStream)
RequestBody == Body({"request"}, {"text"}, <<>>, NoStream)

\* provide: refused over the ceiling rather than cut.
Provide(text) ==
  IF Len(BytesIn(text)) > MAX_TEXT THEN Error
  ELSE LET wire == ToWire(text)
       IN  Body({"provide"}, {"text"}, <<>>,
                [inflates |-> TRUE, lengths |-> <<Len(wire)>>, bytes |-> wire])

\* parse_caps: a size for every format named, text's first.
ParseCaps(b) ==
  IF Len(b.sizes) < Cardinality(b.formats) THEN Error
  ELSE [is |-> "caps", actions |-> b.actions, formats |-> b.formats,
        size |-> IF "text" \in b.formats THEN SubSeq(b.sizes, 1, 1) ELSE <<>>]

(* Mutant: what is claimed is held to the text's ceiling.                  *)
ParseProvideOfText(b) ==
  LET claimed == b.stream.lengths[1]
      text    == FromWire(SubSeq(b.stream.bytes, 1, claimed))
  IN  IF "text" \notin b.formats THEN [is |-> "provide", text |-> <<>>]
      ELSE IF ~b.stream.inflates \/ b.stream.lengths = <<>> THEN Error
      ELSE IF claimed > MAX_TEXT \/ Len(b.stream.bytes) < claimed THEN Error
      ELSE [is |-> "provide", text |-> <<text>>]

\* parse_provide: no more is inflated than twice the ceiling and the NUL, and the
\* text itself is measured after.
ParseProvide(b) ==
  LET claimed == b.stream.lengths[1]
      text    == FromWire(SubSeq(b.stream.bytes, 1, claimed))
  IN  IF "text" \notin b.formats THEN [is |-> "provide", text |-> <<>>]
      ELSE IF ~b.stream.inflates \/ b.stream.lengths = <<>> THEN Error
      ELSE IF claimed > 2 * MAX_TEXT + 1 \/ Len(b.stream.bytes) < claimed THEN Error
      ELSE IF Len(BytesIn(text)) > MAX_TEXT THEN Error
      ELSE [is |-> "provide", text |-> <<text>>]

\* parse: caps come with any other action, every other message is of one.
ParseBody(b) ==
  IF ~b.flags THEN Error
  ELSE CASE "caps" \in b.actions    -> ParseCaps(b)
         [] b.actions = {"request"} -> [is |-> "request", formats |-> b.formats]
         [] b.actions = {"peek"}    -> [is |-> "peek"]
         [] b.actions = {"notify"}  -> [is |-> "notify", formats |-> b.formats]
         [] b.actions = {"provide"} -> ParseProvide(b)
         [] OTHER                   -> Error

-----------------------------------------------------------------------------
\* A text as it is read aloud: a line ends at a CR, an LF or both, and the text
\* at its first NUL.
AsRead(text) ==
  FoldLeft(LAMBDA r, c :
             IF r.over \/ c = NUL THEN [r EXCEPT !.over = TRUE]
             ELSE IF c = LF /\ r.cr THEN [r EXCEPT !.cr = FALSE]
             ELSE [over |-> FALSE, cr |-> c = CR,
                   said |-> Append(r.said, IF c = CR THEN LF ELSE c)],
           [over |-> FALSE, cr |-> FALSE, said |-> <<>>], text).said

Tried == BoundedSeq(Characters, MaxText)

\* Streams of a text that is cut, one that claims more than it has or than there
\* may be, and stray bytes, which take more room read than they did sent.
Streams ==
  {[inflates |-> inflates, lengths |-> lengths, bytes |-> bytes] :
     inflates \in BOOLEAN, lengths \in {<<>>} \union {<<n>> : n \in 0 .. 2 * MAX_TEXT + 2},
     bytes \in {ToWire(<<"a", LF, "e-acute">>)} \union BoundedSeq({97, 195, 169, 13, 10}, 2)
               \union {[i \in 1 .. 2 * MAX_TEXT + 2 |-> 97], [i \in 1 .. MAX_TEXT |-> 195]}}

\* A text within the ceiling crosses whole whatever its line endings, one past it
\* is not sent, and a message is of one action; nothing a peer sends brings a
\* text past the ceiling, or one the stream did not hold in full.
TextsCross ==
  /\ \A text \in Tried :
       LET sent == Provide(text)
       IN  IF Len(BytesIn(text)) > MAX_TEXT THEN sent = Error
           ELSE ParseBody(sent) = [is |-> "provide", text |-> <<AsRead(text)>>]
  /\ \A stream \in Streams, formats \in SUBSET TextFormats :
       LET got == ParseBody(Body({"provide"}, formats, <<>>, stream))
       IN  got # Error =>
             /\ got.is = "provide" /\ (got.text # <<>> <=> "text" \in formats)
             /\ got.text # <<>> =>
                  /\ Len(BytesIn(got.text[1])) <= MAX_TEXT
                  /\ stream.inflates /\ stream.lengths[1] <= Len(stream.bytes)
  /\ \A actions \in (SUBSET Actions) \ {{}, {"provide"}}, formats \in SUBSET TextFormats,
        sizes \in BoundedSeq({0, MAX_TEXT}, 2) :
       LET got == ParseBody(Body(actions, formats, sizes, NoStream))
       IN  got # Error <=> \/ "caps" \in actions /\ Len(sizes) >= Cardinality(formats)
                           \/ "caps" \notin actions /\ Cardinality(actions) = 1
  /\ \A actions \in SUBSET Actions, sizes \in BoundedSeq({0, MAX_TEXT}, 1) :
       LET got == ParseBody(CapsBody(actions, sizes))
       IN  got.actions = actions \union {"caps"} /\ got.size = sizes
  /\ ParseBody(RequestBody) = [is |-> "request", formats |-> {"text"}]
  /\ \A held \in BOOLEAN :
       ParseBody(NotifyBody(held)) = [is |-> "notify", formats |-> IF held THEN {"text"} ELSE {}]
  /\ ParseBody(ShortBody) = Error
=============================================================================
