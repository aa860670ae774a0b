------------------------------- MODULE Lockstep -------------------------------
(***************************************************************************)
(* What a two-phone session promises, without messages: two emulators, of  *)
(* which one leads the other by a bounded number of frames and waits for   *)
(* it at every checkpoint, where their states are compared.                *)
(***************************************************************************)
EXTENDS Integers

CONSTANTS
  Window,          \* frames the leading emulator may be ahead
  Checkpoints,     \* the frames after which the states are compared
  State            \* the states of an emulator

Phone == {"controller", "display"}

VARIABLES
  led,       \* frames the controller has announced
  ran,       \* frames the controller has run
  shown,     \* frames the display has run
  compared,  \* the last checkpoint that was compared
  sound,     \* no comparison has failed
  core       \* the state of each emulator

vars == <<led, ran, shown, compared, sound, core>>

Synchronised == core["controller"] = core["display"]

Init ==
  /\ led = 0 /\ ran = 0 /\ shown = 0 /\ compared = 0
  /\ sound = TRUE
  /\ core \in [Phone -> State]

\* The display takes over the controller's state, or fails to.
Load ==
  /\ led = 0
  /\ core' \in [Phone -> State]
  /\ core'["controller"] = core["controller"]
  /\ UNCHANGED <<led, ran, shown, compared, sound>>

\* The next frame is announced: within the window, from one common state, and
\* never past a checkpoint whose comparison is outstanding or has failed.
Lead ==
  /\ sound
  /\ ran = led
  /\ led - shown < Window
  /\ led = 0 => Synchronised
  /\ led > 0 /\ led \in Checkpoints => compared = led /\ Synchronised
  /\ led' = led + 1
  /\ UNCHANGED <<ran, shown, compared, sound, core>>

\* One emulator goes on to some state, the other stays where it is.
Runs(p) ==
  /\ core' \in [Phone -> State]
  /\ \A q \in Phone \ {p} : core'[q] = core[q]

RunController ==
  /\ ran < led
  /\ ran' = ran + 1
  /\ Runs("controller")
  /\ UNCHANGED <<led, shown, compared, sound>>

RunDisplay ==
  /\ shown < led
  /\ shown' = shown + 1
  /\ Runs("display")
  /\ UNCHANGED <<led, ran, compared, sound>>

\* Both have run the checkpoint frame and nothing more.  A comparison may fail
\* for want of a digest; it never succeeds on different states.
Compare ==
  /\ led \in Checkpoints
  /\ ran = led /\ shown = led /\ compared < led
  /\ compared' = led
  /\ sound' \in {FALSE, Synchronised}
  /\ UNCHANGED <<led, ran, shown, core>>

Next == Load \/ Lead \/ RunController \/ RunDisplay \/ Compare

Spec == Init /\ [][Next]_vars
=============================================================================
