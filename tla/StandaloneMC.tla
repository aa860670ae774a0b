---------------------------- MODULE StandaloneMC -----------------------------
(***************************************************************************)
(* Values of the constants of Standalone for TLC.                          *)
(***************************************************************************)
EXTENDS Standalone

CONSTANTS a, p, q, point

\* A game whose sound is heard, without a player.
Sound == [keys |-> {}, pads |-> {}, points |-> {}, samples |-> {0, 1},
          audible |-> TRUE]

\* One gamepad's D-pad and the on-screen controls, on a phone without sound.
Direction == [keys |-> Axis, pads |-> {p}, points |-> {}, samples |-> {0},
              audible |-> FALSE]

\* Two gamepads with one button, the on-screen controls and touches.
TwoPads == [keys |-> {a}, pads |-> {p, q}, points |-> {point},
            samples |-> {0}, audible |-> FALSE]

ThreeScenes == {Sound, Direction, TwoPads}
=============================================================================
