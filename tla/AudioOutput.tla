----------------------------- MODULE AudioOutput -----------------------------
(***************************************************************************)
(* The sound of the game: the SPU's output buffer, a ring the emulation    *)
(* thread mixes into and the audio thread reads from, each call under      *)
(* AudioLock; and AudioManager, which the main thread starts and stops.    *)
(*                                                                         *)
(* A slot holds a left and a right sample; the code's positions count both *)
(* and are twice these.                                                    *)
(***************************************************************************)
EXTENDS Integers, Sequences

CONSTANTS
  Samples,      \* values of a sample
  Silence,      \* the value of a cleared buffer
  Slots,        \* OutputBufferSize
  Chunk,        \* most samples the audio engine asks for at once
  MaxFailures   \* bound: failures of the audio engine to start

ASSUME SilenceAssumption == Silence \in Samples
ASSUME SlotsAssumption == Slots \in Nat /\ Slots >= 2
ASSUME ChunkAssumption == Chunk \in Nat
ASSUME FailuresAssumption == MaxFailures \in Nat

VARIABLES
  buffer, readPos, writePos,  \* OutputBuffer and its positions
  heard,                      \* the samples the last callback of the engine got
  isStarted,                  \* the manager's flag
  playing,                    \* the engine runs, and calls the source node
  nodes,                      \* source nodes that are attached to the engine
  failures                    \* times the engine did not start

ring == <<buffer, readPos, writePos>>
engine == <<isStarted, playing, nodes, failures>>
audio == <<ring, heard, engine>>

Slot == 0 .. Slots - 1

\* Mutant: positions run on past the end.
Unmasked(r, i) == r + i

\* The position i slots after position r; the code masks with Slots - 1.
After(r, i) == IF r + i >= Slots THEN r + i - Slots ELSE r + i

\* GetOutputSize.
Size ==
  IF writePos >= readPos THEN writePos - readPos ELSE Slots - readPos + writePos

\* The samples in the ring, the oldest first.
Queue == [i \in 1 .. Size |-> buffer[After(readPos, i - 1)]]

(***************************************************************************)
(* The ring.                                                               *)
(***************************************************************************)
\* Mutant: the ring that is full counts as empty.
ReadPosKept(w) == readPos

\* Where reading goes on once writing is at w: the oldest sample goes when it has
\* caught up.
ReadPosFor(w) == IF w = readPos THEN After(readPos, 1) ELSE readPos

\* The end of SPU::Mix.
Mix(s) ==
  /\ buffer' = [buffer EXCEPT ![writePos] = s]
  /\ writePos' = After(writePos, 1)
  /\ readPos' = ReadPosFor(After(writePos, 1))
  /\ UNCHANGED <<heard, engine>>

\* Mutant: a read of an empty ring goes once around.
TakenUnchecked(n) == n

\* The samples ReadOutput finds when it is asked for n.
Taken(n) == IF n <= Size THEN n ELSE Size

\* The source node's callback; it fills what is missing with silence.
Renders ==
  /\ playing /\ nodes > 0
  /\ \E n \in 1 .. Chunk :
       /\ heard' = [i \in 1 .. Taken(n) |-> buffer[After(readPos, i - 1)]]
       /\ readPos' = After(readPos, Taken(n))
  /\ UNCHANGED <<buffer, writePos, engine>>

\* SPU::Stop, SPU::InitOutput: the buffer is cleared too.
Clears ==
  /\ buffer' = [i \in Slot |-> Silence]
  /\ readPos' = 0 /\ writePos' = 0
  /\ UNCHANGED <<heard, engine>>

(***************************************************************************)
(* The manager.                                                            *)
(***************************************************************************)
\* start: no audio session, no engine, or sound.
SessionFails == UNCHANGED engine

EngineFails ==
  /\ failures < MaxFailures
  /\ nodes' = nodes + 1
  /\ failures' = failures + 1
  /\ UNCHANGED <<isStarted, playing>>

EngineStarts ==
  /\ nodes' = nodes + 1
  /\ isStarted' = TRUE
  /\ playing' = TRUE
  /\ UNCHANGED failures

StartsAudio(works) ==
  /\ IF isStarted THEN UNCHANGED engine
     ELSE SessionFails \/ (works /\ (EngineFails \/ EngineStarts))
  /\ UNCHANGED <<ring, heard>>

\* Mutant: the guard of stop asks the engine.
NothingPlays == ~playing

\* Mutant: the node stays with the engine.
NodesKept == nodes

NothingToStop == ~isStarted

NodesLeft == nodes - 1

StopsAudio ==
  /\ IF NothingToStop THEN UNCHANGED engine
     ELSE /\ playing' = FALSE
          /\ nodes' = NodesLeft
          /\ isStarted' = FALSE
          /\ UNCHANGED failures
  /\ UNCHANGED <<ring, heard>>

\* An interruption or a change of the audio route stops the engine; nothing in
\* the program observes it.
Interrupted ==
  /\ playing
  /\ playing' = FALSE
  /\ UNCHANGED <<ring, heard, isStarted, nodes, failures>>

InitAudio ==
  /\ buffer = [i \in Slot |-> Silence]
  /\ readPos = 0 /\ writePos = 0 /\ heard = <<>>
  /\ isStarted = FALSE /\ playing = FALSE
  /\ nodes = 0 /\ failures = 0

AudioTypeOK ==
  /\ buffer \in [Slot -> Samples]
  /\ readPos \in Slot /\ writePos \in Slot
  /\ heard \in Seq(Samples)
  /\ isStarted \in BOOLEAN /\ playing \in BOOLEAN
  /\ nodes \in Nat /\ failures \in 0 .. MaxFailures
=============================================================================
