----------------------------- MODULE Standalone ------------------------------
(***************************************************************************)
(* Playing on one phone: the loop of the emulation thread, which samples   *)
(* the player's input and runs and draws frames under the emulator lock;   *)
(* the app's way to the background and back on the main thread; the sound. *)
(*                                                                         *)
(* The game is loaded, and the loop runs, when the behaviour begins.       *)
(***************************************************************************)
EXTENDS PhoneInput, AudioOutput

\* What the player has, the sound the game makes and whether the phone can play
\* it: a behaviour keeps to one of these.
CONSTANTS Scenes

Scene == [keys : SUBSET Keys, pads : SUBSET Pads, points : SUBSET Points,
          samples : SUBSET Samples, audible : BOOLEAN]

ASSUME ScenesAssumption == Scenes \subseteq Scene

VARIABLES
  scene,
  app,           \* what the main thread does about the app's state, or that state
  backgrounded,  \* EmulatorCore's flag
  paused,        \* the bridge's flag
  on,            \* the game has not switched the console off
  pc,            \* the emulation thread
  input,         \* DSInputFrame of the frame at hand
  game           \* the input in the registers of the game's last frame

emulation == <<on, pc, input, game>>
flags == <<backgrounded, paused>>
vars == <<scene, app, flags, emulation, inputs, audio>>

App == {"starting", "active", "leaving", "silencing", "background", "returning"}

Input == [keys : SUBSET Keys, touch : Points \cup {None}]
NoInput == [keys |-> {}, touch |-> None]

\* Mutant: pauseEmulation does not take the lock.
NeverLocked == FALSE

\* The emulation thread holds the emulator lock.
Locked == pc \in {"run", "ran", "off", "draw", "drawing"}

(***************************************************************************)
(* The emulation thread.                                                   *)
(***************************************************************************)
At(from, to) == pc = from /\ pc' = to

\* The guard of the loop: the two flags, one after the other.
SeesRunning ==
  /\ ~paused
  /\ At("check", "flag")
  /\ UNCHANGED <<on, input, game, audio>>

\* Mutant: the loop looks at one flag only.
NeverAway == FALSE

Away == backgrounded

SeesFlag ==
  /\ At("flag", IF Away THEN "check" ELSE "sample")
  /\ UNCHANGED <<on, input, game, audio>>

\* Mutant: a point once touched stays.
LastTouch == IF pendingTouch = None THEN game.touch ELSE pendingTouch

CurrentTouch == pendingTouch

\* currentInput.
SamplesInput ==
  /\ At("sample", "step")
  /\ input' = [keys |-> pendingKeys, touch |-> CurrentTouch]
  /\ UNCHANGED <<on, game, audio>>

\* step takes the lock and hands the input over; melonds_run_frame returns at once
\* when the emulator is paused or the console off.
StepBegins ==
  /\ IF paused \/ ~on THEN At("step", "draw") /\ UNCHANGED game
     ELSE At("step", "run") /\ game' = input
  /\ UNCHANGED <<on, input, audio>>

\* The frame mixes samples as it runs, and where the console goes off in it, at
\* most one more: the events of the slice at hand still take place.
Mixes ==
  /\ At("run", "ran") \/ At("ran", "ran") \/ At("off", "draw")
  /\ \E s \in scene.samples : Mix(s)
  /\ UNCHANGED <<on, input, game>>

\* The game may switch the console off.
PowersOff ==
  /\ At("run", "off") \/ At("ran", "off")
  /\ on' = FALSE
  /\ Clears
  /\ UNCHANGED <<input, game>>

FrameEnds ==
  /\ At("ran", "draw") \/ At("off", "draw")
  /\ UNCHANGED <<on, input, game, audio>>

SeesWhetherToDraw ==
  /\ At("draw", IF backgrounded THEN "check" ELSE "drawing")
  /\ input' = NoInput
  /\ UNCHANGED <<on, game, audio>>

Draws ==
  /\ At("drawing", "check")
  /\ UNCHANGED <<on, input, game, audio>>

Emulates ==
  /\ \/ SeesRunning \/ SeesFlag \/ SamplesInput \/ StepBegins \/ Mixes
     \/ PowersOff \/ FrameEnds \/ SeesWhetherToDraw \/ Draws
  /\ UNCHANGED <<scene, app, flags, inputs>>

(***************************************************************************)
(* The main thread.                                                        *)
(***************************************************************************)
\* The system ends all touches before it tells the app.
Leaves ==
  /\ app = "active" /\ app' = "leaving"
  /\ Idle /\ screenMask = {} /\ ~touching
  /\ backgrounded' = TRUE
  /\ UNCHANGED <<paused, audio>>

PausesEmulation ==
  /\ app = "leaving" /\ app' = "silencing"
  /\ ~Locked
  /\ paused' = TRUE
  /\ UNCHANGED <<backgrounded, audio>>

Silences ==
  /\ app = "silencing" /\ app' = "background"
  /\ StopsAudio
  /\ UNCHANGED flags

Returns ==
  /\ app = "background" /\ app' = "returning"
  /\ backgrounded' = FALSE
  /\ UNCHANGED <<paused, audio>>

\* Mutant: the emulator stays paused.
StillPaused == paused

Resumed == FALSE

ResumesEmulation ==
  /\ app = "returning" /\ app' = "starting"
  /\ ~Locked
  /\ paused' = Resumed
  /\ UNCHANGED <<backgrounded, audio>>

\* The audio is started last, after a launch and after a return.
Starts ==
  /\ app = "starting" /\ app' = "active"
  /\ StartsAudio(scene.audible)
  /\ UNCHANGED flags

ChangesApp ==
  /\ \/ Leaves \/ PausesEmulation \/ Silences
     \/ Returns \/ ResumesEmulation \/ Starts
  /\ UNCHANGED <<scene, emulation, inputs>>

Plays ==
  /\ app = "active"
  /\ \/ \E p \in scene.pads :
          \/ PadConnects(p) \/ PadDisconnects(p)
          \/ \E k \in scene.keys \ Axis : PadButton(p, k)
          \/ \E d \in {{}, {Right}, {Left}} :
               d \subseteq scene.keys /\ Axis \cap scene.keys # {} /\ PadDirection(p, d)
     \/ \E k \in scene.keys : ScreenButton(k)
     \/ \E at \in scene.points \cup {None} : Touches(at)
     \/ TouchEnds
  /\ UNCHANGED <<scene, app, flags, emulation, audio>>

\* The rest of a D-pad's handler.
Handles ==
  /\ PadSetsButton
  /\ UNCHANGED <<scene, app, flags, emulation, audio>>

\* The audio engine's thread, and what stops the engine.
Sounds ==
  /\ Renders \/ Interrupted
  /\ UNCHANGED <<scene, app, flags, emulation, inputs>>

(***************************************************************************)
(* The specification.                                                      *)
(***************************************************************************)
Init ==
  /\ scene \in Scenes
  /\ app = "starting"
  /\ backgrounded = FALSE /\ paused = FALSE
  /\ on = TRUE /\ pc = "check"
  /\ input = NoInput /\ game = NoInput
  /\ InitInput /\ InitAudio

Next == Emulates \/ ChangesApp \/ Plays \/ Handles \/ Sounds

\* Both threads run, frames end, and the app's callbacks do.  Nobody has to
\* play, nor to leave the app or return to it.
Fairness ==
  /\ WF_vars(Emulates)
  /\ WF_vars(FrameEnds /\ Emulates)
  /\ WF_vars(Handles)
  /\ WF_vars(ChangesApp /\ app \notin {"active", "background"})

Spec == Init /\ [][Next]_vars /\ Fairness

(***************************************************************************)
(* Properties.                                                             *)
(***************************************************************************)
TypeOK ==
  /\ scene \in Scenes /\ app \in App
  /\ backgrounded \in BOOLEAN /\ paused \in BOOLEAN /\ on \in BOOLEAN
  /\ pc \in {"check", "flag", "sample", "step", "run", "ran", "off", "draw",
             "drawing"}
  /\ input \in Input /\ game \in Input
  /\ InputTypeOK /\ AudioTypeOK

\* However the gamepads and the on-screen controls overwrite each other's keys,
\* no key is pressed that nobody holds, and no touch without a finger, once the
\* main thread is done with a D-pad.
NothingSticks ==
  /\ Idle => pendingKeys \subseteq HeldOnPads \cup screenMask
  /\ pendingTouch # None => touching

\* When didEnterBackground returns, no frame runs or is drawn and nothing plays,
\* wherever the emulation thread was when it began.
RestsInBackground ==
  app = "background" => pc \notin {"run", "ran", "off", "drawing"} /\ ~playing

\* Each source node that an engine which did not start leaves attached stays: two
\* nodes take turns at the ring only after such a failure.
NodesAddUp == nodes = failures + (IF isStarted THEN 1 ELSE 0)

\* A return to the app finds the audio manager's flag true to the engine, even
\* when the engine was interrupted before.
FlagIsTrueAgain == [][app = "starting" => isStarted' = playing']_<<app>>

\* The ring is a queue that drops its oldest sample: with threads that mix and
\* read as they like, no sample is lost, repeated or reordered otherwise.
Power == IF on THEN "on" ELSE IF pc = "off" THEN "last" ELSE "off"

Fifo == INSTANCE AudioFifo WITH queue <- Queue, power <- Power, Capacity <- Slots - 1
PlaysAsFifo == Fifo!Spec

\* The app's callback gets the emulator lock, which the loop takes for every
\* frame.
ReachesBackground == app = "leaving" ~> app = "background"

\* In an app that is active the game runs frame after frame.
GameRuns == app = "active" ~> (pc = "ran" \/ app # "active" \/ ~on)

\* Keys and touches that are released are released in the game.
ReleasesReachGame ==
  <>[](app = "active" /\ on /\ NothingHeld) => <>[](game = NoInput)
=============================================================================
