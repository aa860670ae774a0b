----------------------------- MODULE PhoneInput ------------------------------
(***************************************************************************)
(* Where the game's input comes from: gamepads, the on-screen controls and *)
(* touches of the DS's lower screen.  All of their handlers run on the     *)
(* main thread.  Gamepads share one key mask, the on-screen controls have  *)
(* another, and whichever changed last is the emulator's: pendingKeys.     *)
(* Masks are modelled as the sets of keys they say are pressed.            *)
(*                                                                         *)
(* The D-pad's handler sets one key after the other, and the emulation     *)
(* thread may read the mask in between.                                    *)
(***************************************************************************)
EXTENDS Integers, Sequences

CONSTANTS
  Right, Left,  \* the keys of the D-pad's horizontal axis, in the handler's
                \* order; the vertical axis is alike
  Buttons,      \* other keys
  Pads,         \* gamepads
  Points        \* points of the lower screen

None == "none"
Axis == {Right, Left}
Keys == Axis \cup Buttons

ASSUME KeysAssumption == Axis \cap Buttons = {} /\ Right # Left
ASSUME PointsAssumption == None \notin Points

VARIABLES
  connected,    \* gamepads
  held,         \* the keys held on each gamepad, as its callbacks told
  padMask,      \* buttonMask of ControllerManager
  calls,        \* calls of setButton its D-pad handler has yet to make
  screenMask,   \* buttonMask of OnScreenControls: keys under a finger
  touching,     \* a finger began in the view of the screens
  pendingKeys, pendingTouch

player == <<connected, held, padMask, calls, screenMask, touching>>
pending == <<pendingKeys, pendingTouch>>
inputs == <<player, pending>>

Idle == calls = <<>>

HeldOnPads == UNION {held[p] : p \in Pads}

NothingHeld == HeldOnPads = {} /\ screenMask = {} /\ ~touching

\* setButton.
SetsButton(k, pressed) ==
  /\ padMask' = IF pressed THEN padMask \cup {k} ELSE padMask \ {k}
  /\ pendingKeys' = padMask'

(***************************************************************************)
(* Gamepads.                                                               *)
(***************************************************************************)
Moves(p, keys) == held' = [held EXCEPT ![p] = keys]

PadConnects(p) ==
  /\ Idle /\ p \notin connected
  /\ connected' = connected \cup {p}
  /\ UNCHANGED <<held, padMask, calls, screenMask, touching, pending>>

\* Mutant: the mask is reset for the gamepads only.
KeysStay == pendingKeys

\* What the emulator is told when a gamepad disconnects.
KeysReset == {}

PadDisconnects(p) ==
  /\ Idle /\ p \in connected
  /\ connected' = connected \ {p}
  /\ Moves(p, {})
  /\ padMask' = {}
  /\ pendingKeys' = KeysReset
  /\ UNCHANGED <<calls, screenMask, touching, pendingTouch>>

PadButton(p, k) ==
  /\ Idle /\ p \in connected
  /\ Moves(p, IF k \in held[p] THEN held[p] \ {k} ELSE held[p] \cup {k})
  /\ SetsButton(k, k \notin held[p])
  /\ UNCHANGED <<connected, calls, screenMask, touching, pendingTouch>>

\* The D-pad's callback, with the direction it now points in.
PadDirection(p, d) ==
  /\ Idle /\ p \in connected
  /\ Moves(p, (held[p] \ Axis) \cup d)
  /\ calls' = <<[key |-> Right, pressed |-> Right \in d],
                [key |-> Left, pressed |-> Left \in d]>>
  /\ UNCHANGED <<connected, padMask, screenMask, touching, pending>>

PadSetsButton ==
  /\ ~Idle
  /\ SetsButton(Head(calls).key, Head(calls).pressed)
  /\ calls' = Tail(calls)
  /\ UNCHANGED <<connected, held, screenMask, touching, pendingTouch>>

(***************************************************************************)
(* The screen.                                                             *)
(***************************************************************************)
ScreenButton(k) ==
  /\ Idle
  /\ screenMask' = IF k \in screenMask THEN screenMask \ {k} ELSE screenMask \cup {k}
  /\ pendingKeys' = screenMask'
  /\ UNCHANGED <<connected, held, padMask, calls, touching, pendingTouch>>

\* A touch begins or moves, at a point of the lower screen or elsewhere.
Touches(at) ==
  /\ Idle
  /\ touching' = TRUE
  /\ pendingTouch' = IF at = None THEN pendingTouch ELSE at
  /\ UNCHANGED <<connected, held, padMask, calls, screenMask, pendingKeys>>

TouchEnds ==
  /\ Idle /\ touching
  /\ touching' = FALSE
  /\ pendingTouch' = None
  /\ UNCHANGED <<connected, held, padMask, calls, screenMask, pendingKeys>>

InitInput ==
  /\ connected = {} /\ held = [p \in Pads |-> {}] /\ padMask = {} /\ calls = <<>>
  /\ screenMask = {} /\ touching = FALSE
  /\ pendingKeys = {} /\ pendingTouch = None

InputTypeOK ==
  /\ connected \subseteq Pads
  /\ held \in [Pads -> SUBSET Keys]
  /\ padMask \subseteq Keys
  /\ calls \in Seq([key : Keys, pressed : BOOLEAN])
  /\ screenMask \subseteq Keys
  /\ touching \in BOOLEAN
  /\ pendingKeys \subseteq Keys
  /\ pendingTouch \in Points \cup {None}
=============================================================================
