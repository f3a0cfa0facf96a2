-------------------------------- MODULE Inputs --------------------------------
(***************************************************************************)
(* The keys and pointers of the clients on both desks, on the one seat     *)
(* (src/input.rs, and the compositor's commands that reach it).            *)
(*                                                                         *)
(* The keymap is the two Shift keys and keys that type a character each    *)
(* way Shift may be.  Locks and layouts are left out: no key here has any. *)
(* Where a motion is aimed on the layout (Motions) is one of a few places; *)
(* the seat's cursor, which is external, is where the last motion put it.  *)
(* The wheel's notches are left out.                                       *)
(***************************************************************************)
EXTENDS Integers, Sequences, FiniteSets, SequencesExt

CONSTANTS
  Letters,   \* Keycodes that type a character.
  Shifts,    \* The keycodes of the Shift keys (shift_codes): a sequence.
  Places,    \* Places a motion is aimed at.
  Buttons    \* A pointer's buttons.

Desks == {1, 2}
ShiftCodes == Range(Shifts)
Codes == Letters \union ShiftCodes

NoPlace == 0
NoDesk  == 0

ASSUME InputsAssumption ==
  /\ Letters \cap ShiftCodes = {} /\ Letters # {} /\ Shifts \in Seq(ShiftCodes)
  /\ NoPlace \notin Places

\* A keysym is a keycode's at a level; a Shift key's is one at the first.
Keysyms == (Letters \X {0, 1}) \union (ShiftCodes \X {0})

VARIABLES
  keys,      \* Keys: down (Modifiers), held, owners, fixes.
  pointers,  \* Each desk's Pointer, or none (made), where it is aimed, and the
             \* buttons it holds.
  cursor,    \* Input::cursor.
  seat       \* The seat's cursor: where it is, and of which desk; and the
             \* buttons each desk's pointer has down.

inputsVars == <<keys, pointers, cursor, seat>>

NoPointer == [made |-> FALSE, aimed |-> NoPlace, buttons |-> {}]
NoFix == [shift |-> "none", codes |-> {}]

InputsInit ==
  /\ keys = [down |-> {}, held |-> {}, owners |-> [d \in Desks |-> {}],
             fixes |-> [c \in Codes |-> NoFix]]
  /\ pointers = [d \in Desks |-> NoPointer]
  /\ cursor = NoDesk
  /\ seat = [by |-> NoDesk, at |-> NoPlace, down |-> [d \in Desks |-> {}]]

-----------------------------------------------------------------------------
(* Keys.  Every operator here is of k, the keys.                           *)

SendKey(k, code, down) ==
  [k EXCEPT !.down = IF down THEN @ \union {code} ELSE @ \ {code}]

SendKeys(k, codes, down) ==
  [k EXCEPT !.down = IF down THEN @ \union codes ELSE @ \ codes]

\* The level a keycode types at: Shift is depressed while any Shift key is down.
Level(k) == IF k.down \cap ShiftCodes = {} THEN 0 ELSE 1

Fixed(k, code, shift, codes) ==
  [SendKeys(k, codes, shift = "pressed")
     EXCEPT !.fixes[code] = [shift |-> shift, codes |-> codes]]

\* Only a character has its case corrected; only Shift keys that a client holds
\* are let go.
FixShift(k, code, level) ==
  LET letGo == ShiftCodes \cap k.held
  IN IF code \in ShiftCodes THEN k
     ELSE CASE level = 1 /\ Level(k) = 0 /\ Shifts # <<>> -> Fixed(k, code, "pressed", {Shifts[1]})
            [] level = 0 /\ Level(k) = 1 /\ letGo # {} -> Fixed(k, code, "released", letGo)
            [] OTHER -> k

\* release: the fix of the key is undone, as far as it is still the fix's.
Release(k, code) ==
  LET kept == [c \in Codes |->
                 IF k.fixes[c].shift = "pressed" /\ code \in k.fixes[c].codes
                 THEN NoFix ELSE k.fixes[c]]
      fix  == kept[code]
      sent == [SendKey(k, code, FALSE) EXCEPT !.fixes = [kept EXCEPT ![code] = NoFix]]
  IN CASE fix.shift = "pressed"  -> SendKeys(sent, fix.codes \ k.held, FALSE)
       [] fix.shift = "released" -> SendKeys(sent, fix.codes \cap k.held, TRUE)
       [] OTHER -> sent

LetGo(k, code) ==
  IF code \in k.held THEN Release([k EXCEPT !.held = @ \ {code}], code)
                     ELSE SendKey(k, code, FALSE)

Owned(k, code) == \E d \in Desks : code \in k.owners[d]

\* Keys::key, of a press: a repeat sends nothing.
Press(k, code, level) ==
  IF code \in k.held THEN k
  ELSE SendKey(FixShift([k EXCEPT !.held = @ \union {code}], code, level), code, TRUE)

Key(d, keysym, down) ==
  LET code == keysym[1]
      k == [keys EXCEPT !.owners[d] = IF down THEN @ \union {code} ELSE @ \ {code}]
      pressed == Press(k, code, keysym[2])
  IN /\ keys' = IF down THEN pressed
                ELSE IF Owned(k, code) THEN k ELSE LetGo(k, code)
     /\ UNCHANGED <<pointers, cursor, seat>>

(* Mutant: a desk left lets go of what the other holds too.                *)
DeskLeftAll(k, d, order) ==
  LET after[i \in 0 .. Len(order)] ==
        IF i = 0 THEN [k EXCEPT !.owners[d] = {}] ELSE LetGo(after[i - 1], order[i])
  IN after[Len(order)]

UnlessOwned(k, code) == IF Owned(k, code) THEN k ELSE LetGo(k, code)

\* desk_left: the keys only this desk's client held, in the order of a hash set.
\* With nobody holding a key, what is still held goes too (ReleaseHeld).
DeskLeft(k, d, order) ==
  LET after[i \in 0 .. Len(order)] ==
        IF i = 0 THEN [k EXCEPT !.owners[d] = {}] ELSE UnlessOwned(after[i - 1], order[i])
  IN after[Len(order)]

\* Keys::release_all.
ReleaseHeld(k, order) ==
  LET after[i \in 0 .. Len(order)] ==
        IF i = 0 THEN [k EXCEPT !.held = {}] ELSE Release(after[i - 1], order[i])
  IN after[Len(order)]

-----------------------------------------------------------------------------
(* Pointers.                                                               *)

\* set_buttons: those that changed are pressed and let go of.
SetButtons(down, d, before, after) ==
  [down EXCEPT ![d] = (@ \ (before \ after)) \union (after \ before)]

(* Mutant: with nothing to aim at, buttons are pressed all the same.       *)
PointerNowhereHeld(d, buttons) ==
  /\ pointers[d].made
  /\ pointers' = [pointers EXCEPT ![d].buttons = buttons]
  /\ seat' = [seat EXCEPT !.down = SetButtons(@, d, pointers[d].buttons, buttons)]
  /\ UNCHANGED <<keys, cursor>>

\* A PointerEvent with no layout to aim at: only the buttons let go of go.
PointerNowhere(d, buttons) ==
  LET held == pointers[d].buttons
  IN /\ pointers[d].made
     /\ pointers' = [pointers EXCEPT ![d].buttons = held \cap buttons]
     /\ seat' = [seat EXCEPT !.down = SetButtons(@, d, held, held \cap buttons)]
     /\ UNCHANGED <<keys, cursor>>

PointerTo(d, at, buttons) ==
  /\ pointers[d].made
  /\ pointers' = [pointers EXCEPT ![d].aimed = at, ![d].buttons = buttons]
  /\ seat' = [by |-> d, at |-> at,
              down |-> SetButtons(seat.down, d, pointers[d].buttons, buttons)]
  /\ cursor' = d
  /\ UNCHANGED keys

\* A Scroll: the cursor is put back first, if the other desk moved it since.
Scroll(d) ==
  /\ pointers[d].made
  /\ cursor = d \/ pointers[d].aimed # NoPlace
  /\ seat' = IF cursor = d THEN seat
             ELSE [seat EXCEPT !.by = d, !.at = pointers[d].aimed]
  /\ cursor' = d
  /\ UNCHANGED <<keys, pointers>>

-----------------------------------------------------------------------------
(* A desk's client taking an output, and leaving.                          *)

\* release_all: the keys and the buttons the desk's client left held.
ReleaseAll(d) ==
  /\ \E order \in SetToSeqs(keys.owners[d]) :
       LET left == DeskLeft(keys, d, order)
       IN IF \E c \in Codes : Owned(left, c) THEN keys' = left
          ELSE \E rest \in SetToSeqs(left.held) : keys' = ReleaseHeld(left, rest)
  /\ seat' = [seat EXCEPT !.down = SetButtons(@, d, pointers[d].buttons, {})]

LeaveCursor(d) == cursor' = IF cursor = d THEN NoDesk ELSE cursor

(* Mutant: an output taken leaves the cursor as the desk's.                *)
PointStill(d) ==
  /\ ReleaseAll(d)
  /\ pointers' = [pointers EXCEPT ![d] = [NoPointer EXCEPT !.made = TRUE]]
  /\ UNCHANGED cursor

\* point: the client is on an output, at first or another.
Point(d) ==
  /\ ReleaseAll(d)
  /\ LeaveCursor(d)
  /\ pointers' = [pointers EXCEPT ![d] = [NoPointer EXCEPT !.made = TRUE]]

\* The client of the first desk lets go: its pointer stays.
LetGoOfDesk(d) ==
  /\ ReleaseAll(d)
  /\ pointers' = [pointers EXCEPT ![d].buttons = {}]
  /\ UNCHANGED cursor

\* unpoint: the second desk's pointer goes with its client.
Unpoint(d) ==
  /\ ReleaseAll(d)
  /\ LeaveCursor(d)
  /\ pointers' = [pointers EXCEPT ![d] = NoPointer]

InputsNext ==
  \E d \in Desks :
    \/ \E keysym \in Keysyms, down \in BOOLEAN : Key(d, keysym, down)
    \/ \E buttons \in SUBSET Buttons :
         PointerNowhere(d, buttons) \/ \E at \in Places : PointerTo(d, at, buttons)
    \/ Scroll(d) \/ Point(d)
    \/ d = 1 /\ LetGoOfDesk(d)
    \/ d = 2 /\ Unpoint(d)

InputsSpec == InputsInit /\ [][InputsNext]_inputsVars

-----------------------------------------------------------------------------
PressedFor == UNION {keys.fixes[c].codes : c \in {l \in Letters :
                       l \in keys.held /\ keys.fixes[l].shift = "pressed"}}

\* Whatever the two clients press, let go of, repeat and leave held, and however
\* Shift was corrected in between: a key that types is down exactly while a
\* client holds it; a Shift key is down only while a client holds it or a key it
\* was pressed for, and one that is held is up only for a key still held.
KeysAreTheClients ==
  /\ keys.down \cap Letters = (UNION {keys.owners[d] : d \in Desks}) \cap Letters
  /\ keys.held = UNION {keys.owners[d] : d \in Desks}
  /\ keys.down \cap ShiftCodes \subseteq keys.held \union PressedFor
  /\ \A s \in (ShiftCodes \cap keys.held) \ keys.down :
       \E l \in Letters \cap keys.held :
         keys.fixes[l].shift = "released" /\ s \in keys.fixes[l].codes

\* A scroll goes where the client of its desk last put the cursor on the output
\* it is on, wherever the other desk's client moved it since, and whatever output
\* either took in between: the desk taken to have put it where it is did so.  And
\* a button is down for the client that holds it, on the output it was aimed at
\* since the client took that.
ScrollsWhereAimed ==
  /\ cursor # NoDesk =>
       /\ seat.by = cursor /\ seat.at = pointers[cursor].aimed
       /\ seat.at # NoPlace
  /\ \A d \in Desks :
       /\ seat.down[d] = pointers[d].buttons
       /\ seat.down[d] # {} => pointers[d].aimed # NoPlace

\* As docs/architecture.md says, Shift is pressed or let go of around a key when
\* the keycode alone would type the other case: a press types what it means.
TypesWhatIsMeant ==
  [][ \A d \in Desks, keysym \in Letters \X {0, 1} :
        Key(d, keysym, TRUE) /\ keysym[1] \notin keys.held =>
          Level(keys') = keysym[2] ]_inputsVars
=============================================================================
