--------------------------- MODULE SnapshotHandoff ---------------------------
(***************************************************************************)
(* What the shared snapshot hands over from the controller's emulator to   *)
(* the display's, and what it does not: DoSavestate of melonDS leaves out  *)
(* the key register (NDS.cpp, line 705).  A key interrupt is raised when   *)
(* the keys held come to match the condition the game has set, so it       *)
(* depends on the register before the frame as well as on the frame's      *)
(* input.                                                                  *)
(*                                                                         *)
(* Many sessions follow each other; the display may be frames behind when  *)
(* one ends.  The rest of the machine is deterministic.  The game handles  *)
(* a key interrupt in its frame and remembers that it did.                 *)
(***************************************************************************)
EXTENDS Integers, Sequences

CONSTANTS
  Keys,      \* the keys that can raise an interrupt
  Settings,  \* the interrupt conditions games set in KeyCnt
  Window     \* configuration.frameWindow

Phone == {"controller", "display"}
Setting == [enabled : BOOLEAN, mask : SUBSET Keys, all : BOOLEAN]

ASSUME SettingsAssumption == Settings # {} /\ Settings \subseteq Setting
ASSUME WindowAssumption == Window \in 1 .. 8

VARIABLES
  saved,      \* of each machine, what its savestate holds
  keys,       \* the keys held according to its key register
  inSession,  \* the phones are in lockstep
  ahead,      \* frames the controller has run and the display has not
  isFirst,    \* the display has not run a frame of this session
  differs     \* first frame of the session after which the states differed

vars == <<saved, keys, inSession, ahead, isFirst, differs>>

Saved == [setting : Settings, memory : BOOLEAN]

\* A frame: its input, the condition the game sets in it, and the controller's
\* state after it.
Frame == [keys : SUBSET Keys, setting : Settings, after : Saved]

\* The keys held match the game's condition.
Match(setting, held) ==
  IF setting.all THEN setting.mask \subseteq held
  ELSE setting.mask \cap held # {}

\* CheckKeyIRQ.
Interrupts(setting, old, new) ==
  setting.enabled /\ ~Match(setting, old) /\ Match(setting, new)

\* The state after a frame with its input and the condition the game then sets.
Run(state, old, new, setting) ==
  [setting |-> setting,
   memory |-> state.memory # Interrupts(state.setting, old, new)]

\* Mutant: keys are pressed and never released.
KeysAdded(old, new) == old \cup new

\* SetKeyMask: the input is absolute.
KeysSet(old, new) == new

\* The handshake: the snapshot is loaded, and the hash of the savestate agrees.
Handshake ==
  /\ ~inSession
  /\ inSession' = TRUE
  /\ saved' = [saved EXCEPT !["display"] = saved["controller"]]
  /\ ahead' = <<>> /\ isFirst' = TRUE /\ differs' = "none"
  /\ UNCHANGED keys

\* The controller samples the keys, sends them, and runs the frame.
ControllerSteps ==
  /\ inSession
  /\ Len(ahead) < Window
  /\ \E new \in SUBSET Keys, setting \in Settings :
       LET after == Run(saved["controller"], keys["controller"],
                        KeysSet(keys["controller"], new), setting)
       IN  /\ saved' = [saved EXCEPT !["controller"] = after]
           /\ keys' = [keys EXCEPT !["controller"] = KeysSet(@, new)]
           /\ ahead' = Append(ahead,
                [keys |-> new, setting |-> setting, after |-> after])
  /\ UNCHANGED <<inSession, isFirst, differs>>

\* The display runs the oldest frame it has not run.
DisplaySteps ==
  /\ inSession
  /\ ahead # <<>>
  /\ LET f == Head(ahead)
         after == Run(saved["display"], keys["display"],
                      KeysSet(keys["display"], f.keys), f.setting)
     IN  /\ saved' = [saved EXCEPT !["display"] = after]
         /\ keys' = [keys EXCEPT !["display"] = KeysSet(@, f.keys)]
         /\ differs' = IF differs # "none" \/ after = f.after THEN differs
                       ELSE IF isFirst THEN "first" ELSE "later"
  /\ ahead' = Tail(ahead)
  /\ isFirst' = FALSE
  /\ UNCHANGED inSession

\* A session ends for any reason, with the display behind.
SessionEnds ==
  /\ inSession
  /\ inSession' = FALSE
  /\ ahead' = <<>>
  /\ UNCHANGED <<saved, keys, isFirst, differs>>

\* The app is opened again and loads its ROM into a machine that was reset.
Relaunches(p) ==
  /\ ~inSession
  /\ keys' = [keys EXCEPT ![p] = {}]
  /\ \E state \in Saved : saved' = [saved EXCEPT ![p] = state]
  /\ UNCHANGED <<inSession, ahead, isFirst, differs>>

Init ==
  /\ saved \in [Phone -> Saved]
  /\ keys = [p \in Phone |-> {}]
  /\ inSession = FALSE
  /\ ahead = <<>>
  /\ isFirst = TRUE
  /\ differs = "none"

Next ==
  \/ Handshake \/ ControllerSteps \/ DisplaySteps \/ SessionEnds
  \/ \E p \in Phone : Relaunches(p)

Spec == Init /\ [][Next]_vars

(***************************************************************************)
(* Properties.                                                             *)
(***************************************************************************)
\* Both machines begin with the same state and do the same frames: they are in
\* the same state after every frame.
SameFrames == differs = "none"

\* Every input sets all keys, so that whatever the snapshot left out is made
\* good by the first frame: if the states do not differ after that one, they do
\* not after any later one.
OnlyFirstFrame == differs # "later"
=============================================================================
