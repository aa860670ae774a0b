# Verification of the two-phone DS emulator

This directory holds TLA+ specifications of the code under `src/DSEmu`, TLC
configurations that check them on small instances, and TLAPS proofs of their
most important properties for every value of the constants.

The program runs one Nintendo DS game on two phones. Each phone runs its own
copy of melonDS. The *controller* reads buttons and touches and shows the lower
screen; the *display* shows the upper one. The phones start from one shared
savestate and stay together by *lockstep*: the controller sends the input of
every frame, both emulators run the frame with it, and the display acknowledges
it. At every checkpoint frame both compute a digest, which the controller
compares. In ordinary play the phones find each other with Bonjour and start a
new session whenever one has failed or a phone has left and come back; under
launch arguments they run one session of a fixed number of frames and report
whether it passed.

Paths below are relative to `src/DSEmu` unless they name another directory.

## 1. The system

| component | source | state | operations | modelled in |
|---|---|---|---|---|
| Two-phone session | `TwoPhone/TwoPhoneSession.swift` | role, frame counter, pending frames, checkpoints, last digest; `isCancelled`, `activeTransport` under a lock | `run` (handshake, lockstep loop, finish), `cancel` | `LockstepSession` |
| Acknowledgement inbox | the same file, lines 5-99 | queue, terminal error, stopped flag under a condition; a reader thread | `start`, `next`, `stop`, `readLoop` | `LockstepSession` |
| Emulator core | `Emulator/EmulatorCore.swift`, `Bridge/melonds_bridge.cpp` | melonDS, its paused flag, pending input, emulator and input locks | `step`, `makeSnapshot`, `loadSnapshot`, `pauseEmulation`, `resumeEmulation`, `render` | `LockstepSession` (what a session uses), `Reconnect` (drawing, pause), `SnapshotHandoff` (savestate, keys), `Standalone` (the loop of one phone) |
| Lifecycle and reconnect loop | `Emulator/EmulatorCore.swift` | `backgrounded`; loop: `isForeground`, `isStopped` under a condition; `activeTwoPhoneSession` under a lock | `appDidEnterBackground`, `appWillEnterForeground`, `run`, `waitUntilForeground`, `waitBeforeRetry`, attempts | `Reconnect`, `Standalone` (without a session) |
| Transports | `TwoPhone/TCPSocketTransport.swift`, `BonjourTransport.swift` | a socket or `NWConnection`; one-shot results of searches, sends and receives | `acceptOne`, `connect`, `send`, `receive`, `close` | `Rendezvous` (Bonjour's `acceptOne`, `connect`), `LockstepSession` (send, receive, close), `Reconnect` (life of a connection) |
| Wire format | `TwoPhone/TwoPhoneProtocol.swift` | none | encode, decode | messages as records of `LockstepSession` |
| Configuration | `TwoPhone/TwoPhoneConfiguration.swift`, `TwoPhonePreferences.swift` | launch arguments, saved choice | parse, clamp, save, load | `Configuration` (defaults and clamps) |
| Input sources | `Input/ControllerManager.swift`, `Views/OnScreenControls.swift`, `ViewControllers/BottomScreenViewController.swift` | one key mask each; the touch in progress | button, D-pad and touch events, connection of a gamepad | `PhoneInput` |
| Audio output | `Audio/AudioManager.swift`, `src/melonDS/src/SPU.cpp` | `isStarted`, the engine's nodes; a ring of samples | `start`, `stop`, the source node's callback; mixing, `ReadOutput` | `AudioOutput` |
| Save memory | `src/melonDS/src/NDSCart.cpp`, `Bridge/platform_ios.cpp` | SPI registers of the slot, the chip's registers and cells, `save.sav` | `WriteSPICnt`, `WriteSPIData`, `SPIWrite`, `DoSavestate`, `WriteNDSSave` | `SaveMemory` |
| Recent games, save-state slots | `Emulator/RecentROMs.swift`, `SaveStateManager.swift` | files, defaults | add, list; slots are unreachable: `SettingsViewController` is presented nowhere | not modelled |
| Screens, rendering, report | `ViewControllers`, `Rendering`, ... | views | layout, drawing, one file write | not modelled |
| melonDS | `src/melonDS` | the console | vendored | the parts named above; else abstracted to the sequence of its frames' effects |

### How the parts interact

Each phone has these threads:

* the **emulation thread** (`emulationLoop`): runs the reconnect loop, and in
  it one session after the other; it steps the emulator under `emulatorLock`;
* on the controller, for the length of a session, the **reader thread** of the
  inbox: receives acknowledgements, so that the display can always send;
* the **main thread**: the application's notifications. Leaving the app sets
  flags, pauses the emulator, and closes the session's transport from outside
  (`cancel`); returning wakes the reconnect loop. Gamepads, on-screen controls
  and touches write the pending input, which the emulation thread samples;
* the **audio thread** of AVAudioEngine, in stand-alone play only: it empties the
  SPU's ring of samples, which the emulation thread fills;
* Bonjour's dispatch queue: callbacks that resolve the one-shot results the
  emulation and reader threads wait for.

Between the phones there is one connection at a time, a byte stream in each
direction. A process plays one game (`loadROM` requires that no emulation thread
exists); all games of a phone share the file `save.sav`.

### What is hard

* two phones, each ahead of what it knows of the other: inputs, frames and
  acknowledgements in two directions, two queues and three threads;
* a session may be ended at any point from the main thread, by the network, by
  a time-out or by the peer, while either side blocks in a send, in a receive or
  on the inbox's condition;
* pausing and cancelling are two steps, which frames of the session come
  between; registration and cancellation of a session race;
* a time-out does not undo what it gave up: a message may still arrive, a
  connection may still come up;
* each phone decides from its own configuration which frames are checkpoints;
* suspension: iOS stops a process without any of its code running;
* several writers of one key mask, each with a mask of its own, and a D-pad whose
  handler writes it in steps while a frame may sample it;
* the main thread waits for a lock that the emulation thread takes for every
  frame;
* the save file is emptied and rewritten in place, whenever the game ends a write
  command, and a process may end at any point of it.

### What makes each part correct

* session: bounded lead; messages in the order and with the numbers the other
  side expects; no frame before the states are verified equal; checkpoints are
  barriers; the reported verdict is true on both phones; the session completes
  when nothing fails; when one end is over the other one ends, on a network that
  tells of its failures;
* lifecycle: nothing drawn in the background; no emulator left paused in play;
  a cancel is never lost; the phones come together again; a phone is not held by
  a peer that is gone; the connection of a phone that leaves is closed;
* transports: an attempt uses one connection and leaves open only what a time-out
  left; a late answer reaches no later attempt; the phones meet whatever was left;
* input: no key stays pressed that nobody holds, and a release reaches the game;
* stand-alone play: in the background nothing runs, is drawn or plays; leaving is
  not starved by the loop; on return the game goes on;
* audio: the ring is a queue that loses only its oldest samples; the manager's
  flag is true again after a return, whatever interrupted the engine;
* save memory: a command reaches the cell it addresses; when the process ends, only
  bytes of an unfinished or cut-off command, of a save whose file did not open, and
  past the end of a save cut short can be missing; a launch finds all others, unless
  another game has saved since;
* configuration: no argument makes the window unusable or the interval zero.

## 2. The modules

| module | what it is |
|---|---|
| `Lockstep` | abstract specification: two emulators, a bounded lead, comparisons at checkpoints; no messages or threads |
| `LockstepSession` | one session, both roles, inbox, connection and main threads |
| `LockstepSessionMC` | values of its constants for TLC |
| `LockstepSession_proofs` | types, inductive invariant, bounded lead, barriers |
| `LockstepProgress` | what a session's threads wait for, the work they have left, sessions in which nothing goes wrong |
| `LockstepProgress_proofs` | somebody goes on, work runs out, no false alarm, frames acknowledged in the foreground |
| `Reconnect` | two phones over many sessions: reconnect loop, registration, background and foreground |
| `Reconnect_proofs` | inductive invariant, drawing, frozen play, cancellation, what a suspension may catch |
| `SnapshotHandoff` | what the savestate hands over at a handshake, and the key register it leaves out |
| `SnapshotHandoffMC` | keys and interrupt conditions for TLC |
| `SnapshotHandoff_proofs` | only the first frame of a session can make the machines differ, and what makes it the same |
| `LockstepVerdict_proofs` | message order, verified start, true verdict, what it rests on, which frames were run, refinement of `Lockstep`, constants from `Configuration` |
| `Configuration` | launch arguments to session constants |
| `Rendezvous` | how Bonjour's searches on two phones come to share a connection, attempt after attempt |
| `Rendezvous_proofs` | types, what time-outs leave behind, late answers |
| `SaveMemory` | slot, save chip and `save.sav` through launches, crashes and loaded snapshots |
| `SaveMemoryMC` | two cartridges and two snapshots of a peer for TLC |
| `SaveMemory_proofs` | types, what may be lost, what a launch finds, which cell a command reaches |
| `AudioFifo` | abstract specification of the audio output: a queue that drops its oldest sample |
| `AudioOutput`, `PhoneInput` | the ring and the audio manager; the sources of input |
| `Standalone` | play on one phone; composes the two with the emulation loop and the app's life |
| `StandaloneMC` | three scenes for TLC |
| `Standalone_proofs` | types, stuck keys, rest in the background, nodes, flag, the ring implements `AudioFifo` |

`LockstepSession` is the detail of one session and `Reconnect` the life of many:
`Reconnect` abstracts a session to searching, handshake and play, and takes over
what `LockstepSession` shows of it, that a session ends when its peer's
has ended (`EndsTogether`). `Rendezvous` is the detail of `Meet`, one step of
`Reconnect`. `SnapshotHandoff` looks into what `LockstepSession` takes for
granted, that the emulator's state is wholly in the snapshot. `Standalone` is the
program without a second phone; it shares with `Reconnect` the flags of the app's
life, and its input sources are those of a controller too. `SaveMemory` is below
all of them: the game's part of one phone, through many launches.

### LockstepSession and the code

* `pc[p]` is where the emulation thread of phone `p` is between two steps of
  `run()`. `sendX` and `recvX` are the calls of `transport.send` and `receive`
  in their order; `lockstep` is the loop head of `runController`, `drain` its
  inner loop at a checkpoint, `step` the call of `stepFrame`. `over` is the
  return, with `outcome[p]` telling how.
* A step is atomic up to the next point where another thread or phone can see
  or change something: one message sent or received, one critical section, one
  frame. `Leave` is the end of `run()` with its `defer`s (stop the inbox,
  withdraw the transport, close it).
* `frame`, `pending`, `checkpoints`, `lastDigest`, `framesCompleted` are the
  local variables of the same names. `detail` is the result of the last
  comparison, from which `success` and the outcome's text follow.
* `ControllerTakesAcknowledgement` and `ControllerVerifies` are
  `receiveControllerAcknowledgement` for a frame without and with a digest, in
  the loop that waits for room in the window and in the drain alike.
* `wire[p]` holds the messages on the way to `p`, at most `Capacity` of them: a
  send blocks while it is full. `closed` and `broken` are a closed end and a
  failed network; `SendFails` and `ReceiveFails` say when a call may throw:
  after a close the peer reads what was sent, then the end of the stream, and
  loses the rest where the connection is reset. `GivesUp` adds Bonjour's
  time-outs, under which a message given up may still be delivered.
* A network that fails is assumed to tell: sends and receives on it throw. Over
  Bonjour a time-out would end the wait anyway. `TCPSocketTransport.readExactly`
  (lines 156-172) has neither a time-out nor keepalive, so that on a TCP connection
  that dies without a word a receive waits for ever; `NeverStuck`, `EndsTogether`
  and `OneEndBringsTheOther` do not speak of that case.
* An emulator's state is the sequence of what its frames did. A frame of a phone
  in `Faulty` may do something else than its input, which is how divergence
  enters; a paused emulator's frame does nothing (`melonds_run_frame`, line 112).
  Hashes are taken to be injective. Key levels, which the savestate does not
  hold, are the subject of `SnapshotHandoff`.
* `AppLeaves` and `CancelSession` are the two steps of `appDidEnterBackground`
  that a session notices.

* `LockstepProgress` says of the same session which of its calls block (`Waits`,
  `ReaderWaits`) and ranks its places: `ControllerRank`, `DisplayRank` and `Work`
  are bounds on the steps that may follow if no other frame is begun, found by
  going through `run()` backwards. `FrameCost` is what one frame may cost: seven
  steps of the two emulation threads and the reader.

Bounds: `Capacity`, the frame limit and the interval are small numbers in the
configurations. The frame counter needs no cap: every checked configuration has
a limit on the controller.

### Reconnect and the code

* `pc[p]` follows one attempt: `loop` (in `waitUntilForeground`), `begin` (in
  the attempt, its session not yet registered), `prepare` (registered),
  `searching` (in `acceptOne` or `connect`), `activate`, `handshake`, `playing`,
  `running` and `drawing` (in `step`, under `emulatorLock`), `ending`,
  `deregister`, `retry` (in `waitBeforeRetry`).
* `app[p]` follows the main thread through `appDidEnterBackground` (`marked`,
  `pausing`, `cancelling`, `away`) and `appWillEnterForeground` (`returning`).
* `registered` and `isCancelled` are `activeTwoPhoneSession # nil` and the flag
  of that session; `up[p]` is the phone's end of the connection; `suspended[p]`
  is iOS having stopped the process.
* `Meet` is a successful search on both phones at once. A search in which only
  one phone comes by a connection is in `Rendezvous`.
* `settled` marks a moment after which network and sessions no longer fail; the
  liveness property speaks about what follows.

### SnapshotHandoff and the code

* `saved[p]` is what `DoSavestate` of melonDS stores, abstracted to the
  condition for key interrupts in `KeyCnt` and one bit of the game's memory;
  `keys[p]` is `KeyInput`, which `DoSavestate` does not store.
* `Interrupts` is `CheckKeyIRQ` for one of the two processors, `KeysSet` the
  absolute `SetKeyMask` with which `step` begins every frame. What the game does
  in a frame, other than handling the interrupt, is the same on both phones: it
  is chosen with the frame.
* `ahead` holds the frames the controller has run and the display has not, with
  the controller's state after each; `DisplaySteps` compares its own to it.
* A session may end at any point (`SessionEnds`); the registers stay as they
  are. `Relaunches` is the app opened again, with a reset machine.

### Rendezvous and the code

* `phase[p]` is one attempt after the other: `idle` between attempts, `waiting`
  in `SynchronousResult.wait`, `session`. `result[p]` is what that attempt's
  result holds; `chosen[p]` is `hasAcceptedConnection` on the controller and
  `isConnecting` on the display, the guards of the two callbacks.
* `end[l][p]` is the state of phone `p`'s end of connection `l`, `owner[l][p]`
  who is told of it or holds it. `timedOut` is an attempt that left without a
  result: `NWConnection` and its `stateUpdateHandler` hold each other, so that
  connection lives on, and its result keeps the transport. `failed` is an attempt
  whose result was a failure, in which a transport that comes late is dropped and
  closes in its `deinit`.
* `Finds` commits to the first service, which may be a stale advertisement until
  the network settles; `Reaches` delivers a connection to whoever listens then,
  possibly a later attempt than the one it was meant for.
* `TimesOut` is the end of the two minutes. Once the network has settled it comes
  only when nothing is on its way: two minutes are long next to the second between
  attempts. `GetsNoAnswer` is the time-out of a receive in the handshake.
* A connection that nobody holds or is told of, and that carries nothing, gives
  its place in the model to a new one (`Dead`).

### SaveMemory and the code

* The game is the environment: it writes the two registers as it likes.
  `WriteSPICnt` and `Transfers` are the slot's functions of `NDSCart.cpp`, the
  rest of `SendsOpcode` and `SendsByte` is `CartRetail::SPIWrite` with its
  handlers for the tiny EEPROM, EEPROM and flash.
* Opcodes are named by what they do. A byte has `Base` values, and the addresses
  of one, two or three bytes, the pages and the sectors scale with it; every
  address is taken modulo the memory's length, as in the code.
* `OpensFile` and `WritesFile` are the two halves of `WriteNDSSave`: opening
  empties the file, and how many bytes then arrive is not looked at. `Ends` may
  come between them.
* `CannotOpen` is the same function where `fopen` fails: the file keeps its bytes,
  whoever's they are, while the chip has changed and clears its write-enable.
  `Launches` may likewise find a file it cannot read, and takes a new chip.
* `LoadsState` is a session's snapshot loaded on the display, which saves at once.
* `sent`, `touched`, `lost` and `left` are history, for the properties: what the
  game sent, which cells the command at hand has changed, which cells a save that
  failed has left out, and which bytes the last run of each game is owed by the
  next. No step depends on them, except that `MaxBytes` bounds `sent.count`, as it
  bounds the commands TLC explores.

### Standalone, PhoneInput, AudioOutput and the code

* `pc` is the emulation thread between `check` and `flag`, the two flags of the
  loop's guard, `sample`, `step`, and from `run` to `drawing` under the emulator
  lock (`Locked`); in `off` the game has switched the console off, and the slice of
  `RunFrame` at hand may still mix one sample. `app` follows the main thread through `appDidEnterBackground`
  (`leaving`, `silencing`) and `appWillEnterForeground` (`returning`, `starting`).
* The loop is not a critical section: the flags may change between its looks at
  them, and the input between sampling and running.
* A mask is the set of the keys it says are pressed. `PadDirection` is the D-pad's
  callback: it queues the `calls` of `setButton` which `PadSetsButton` makes one by
  one, with the emulation thread in between. The main thread does nothing else
  meanwhile (`Idle`).
* `held`, `screenMask` and `touching` are the player's hands as the callbacks told
  them. A gamepad that disconnects is let go.
* Positions in the ring count pairs of samples. `Mix` and `Renders` each run under
  the SPU's `AudioLock`. `Power` tells `AudioFifo` whether the queue still takes
  samples: all, one more after it was cleared, or none.
* A behaviour keeps to one `scene`: who plays with what, and whether the phone has
  sound. Input and sound share no variable, so a scene that mixed them would show
  nothing that two scenes do not.

External assumptions: UIKit ends all touches before `didEnterBackground`; a
gamepad's events happen when they are delivered; an interruption stops the audio
engine; a suspended process takes no step.

### Configuration and the code

`frameWindow`, `checkpointInterval` and `testFrameLimit` are the three numbers of
`TwoPhoneConfiguration` from an argument that is absent, no number, or a number.
`LockstepSessionMC` assumes of them what they are on the arguments near every
bound, which TLC evaluates; `SessionConstants` proves it for all.

## 3. What TLC checks

| run | instance | shows |
|---|---|---|
| `lockstep_clean` | 4 frames, interval 3, window 2, one message buffered, 2 inputs; 615 states | `Completes`: in every schedule both phones report *passed*; `NoFalseAlarm`: neither ever reports anything else; no deadlock |
| `lockstep_faults` | the same sizes, two messages buffered, two games, both emulators may diverge, network fails, time-outs, the display leaves; 345 thousand states | `TypeOK`, `LeadBounded`, `InSequence`, `StartsVerified`, `VerdictIsTrue`, `CheckpointBarrier`, `WorkRunsOut`, and `Implements`: the session implements `Lockstep` |
| `lockstep_ends` | 3 frames, both phones may leave, network fails, no time-outs; 122 thousand states | `NeverStuck`: while a session lasts, some thread goes on; `EndsTogether` |
| `lockstep_unequal` | only the controller has a frame limit; 599 states | `DisagreementIsReported`: both phones report *failed* |
| `lockstep_pause` | the display leaves; stops at the violation | `AcknowledgedFramesRan` does not hold (finding 1) |
| `reconnect_play` | both phones leave and return without limit, network and sessions fail, receives time out; 200 thousand states | `NoDrawingAway`, `NoFrozenPlay`, `CancelTakesHold`, `Reunites`, `Releases` |
| `reconnect_suspend` | the display leaves; stops at the violation | `ClosedBeforeSuspension` does not hold (finding 2) |
| `handoff_frames` | two keys, three interrupt conditions, window 2, any number of sessions; 8 thousand states (up to renaming keys) | `OnlyFirstFrame` |
| `handoff_first` | the same; stops at the violation | `SameFrames` does not hold (finding 3) |
| `rendezvous` | three connections, any number of attempts, failures and time-outs; 771 thousand states | `TypeOK`, `OnlyTimeoutsOrphan`, `LateAnswersAreIgnored`, `Reunites` |
| `save_games` | a tiny EEPROM of 4 bytes and a flash of 1, bytes of two values, saves cut after one byte, files that do not open, commands of up to 3 and 5 bytes; 2.3 million states | `TypeOK`, `SafeToEnd`, `ReadsAsAddressed`, `LaunchFindsSave`, `WritesAsAddressed` |
| `standalone_play` | three scenes (below), a ring of 4 slots read by up to 2 samples, one failure of the engine; 392 thousand states | `TypeOK`, `NothingSticks`, `RestsInBackground`, `NodesAddUp`, `FlagIsTrueAgain`, `PlaysAsFifo`, `ReachesBackground`, `GameRuns`, `ReleasesReachGame` |

Why these bounds are enough to be interesting: with window 2 and interval 3 the
window fills between checkpoints, the checkpoint at frame 3 drains two pending
frames, frame 4 follows a checkpoint and, being the last, is itself one: two
consecutive checkpoints. A connection of one message makes both phones block on
each other; one of two lets an acknowledgement be in the connection while the
next is in the inbox. Two games suffice for a refused hello. `Reconnect` and
`SnapshotHandoff` have no counters: their state spaces are finite as they stand.
Two keys and conditions on any and on both of them give edges in both directions;
the two keys are interchangeable in the three conditions, hence the symmetry.

Three connections in `Rendezvous` let two that were left behind meet a third.
Deadlock is not checked there: two phones that play together over a settled
network have nothing left to do. In `save_games` the tiny EEPROM has two halves of
two bytes, so that the second half's commands, a wrap at the end and a wrap from
one half into the other all happen; the flash has commands of erasing, programming
and fast reading, with three address bytes and data after them, on a memory of one
cell (that its addresses do not matter beyond that rests on the theorems, which are
for every length); two games make one game's launch read the other's save, longer or
shorter than its own memory, and a cut at one byte leaves a file shorter than the
EEPROM. In `standalone_play` the scene
`Sound` has a game heard and nobody playing; `Direction` the D-pad of one gamepad
against the on-screen controls, with directions sampled in the middle; `TwoPads`
two gamepads with a button, the on-screen controls and touches. A ring of 4 slots
is empty, full and wrapped within a few frames.

Every property of a passing run has a mutant in `PROJECT.json`: a definition of
the model changed as a plausible mistake in the code would change it (an extra
frame in the window, acknowledgements taken newest first, a transport left open,
a state hash not compared), under which TLC finds the property violated. The
operators marked `Mutant` in the modules serve only that.

### Fairness

* The emulation threads, the reader thread and a main thread that has begun to
  leave are scheduled (`WF`). Nothing is assumed to make an app leave or return,
  the network fail, or a buffer drain other than by its receiver.
* In `Reconnect`, the emulation thread is fair in the strong sense: a suspension
  disables it for a while, not for good, if the app returns again and again. iOS
  suspends an app that stays in the background (`WF` of `Suspends`); without it
  a backgrounded phone could go on serving its peer. `SF` of `Meet` says that
  Bonjour works: two phones that search at the same time again and again find
  each other. A search is taken to fail only while the network is unsettled or
  the peer is away, because its two minutes are long against the one second
  between attempts.
* In `Rendezvous` both phones' threads and the dispatch queue run (`WF`), a wait
  and a receive end some time (`WF` of `TimesOut`, `GetsNoAnswer`: both have
  time-outs in the code), an advertised service is found, and the network settles
  at last.
* In `Standalone` the emulation thread runs, a frame ends, the D-pad's handler and
  the app's callbacks run, all in the weak sense. Nobody has to leave, return or
  play. Weak fairness is enough for the lock: once the flags of the loop are set,
  its thread stays away from the lock, which is why the callbacks get it.

## 4. What is proved

For every window of 1 to 8 frames, every interval, limit, set of inputs, buffer
size and set of faults (the module's assumptions):

* `TypeCorrect`: `Spec => []TypeOK`.
* `LeadIsBounded`: `Spec => []LeadBounded`.
* `CheckpointsAreBarriers`: `Spec => CheckpointBarrier`, an action property.

`LeadBounded` relates the two phones' counters and is not inductive: whether the
display may run another frame depends on the inputs in the connection, and
whether the controller may send one depends on acknowledgements in the
connection, in the inbox and taken. `IInv`, the inductive invariant, has
besides the types three parts:

* `Lead`: no input on the way is numbered above `frame`; every acknowledgement,
  in the connection or in the inbox, is of a frame the display has run; the
  pending frames are numbered consecutively from the last acknowledged one, up
  to the frame being run (`Numbered`); and that one is not ahead of the display.
  With the loop's guard on the window this bounds the lead. The controller's end
  drops `Numbered`, which no step after it needs.
* `Draining`: a frame with a digest is the last of the pending ones, and the
  controller stays in the drain until it is taken.
* `Barrier`: an acknowledgement that carries a digest of the display's last
  frame carries its present state, so that a matching comparison at the end of a
  drain means that the two states are equal, with nothing pending.

`InvStep` proves it preserved action by action; lemmas on queues
(`SentQueues`, `AnnouncedQueues`) say that sending, receiving and losing the end
of a queue keep a property of all its messages. `CheckpointBarrier` then follows
from `Barrier` at the one action that begins a frame.

`LockstepVerdict_proofs` goes on from `IInv`, under the same assumptions:

* `MessagesInSequence`, `StartsAreVerified`, `VerdictsAreTrue`: `Spec => []InSequence`,
  `[]StartsVerified`, `[]VerdictIsTrue`. A proof that passed says that both phones
  counted every frame and ended in one state, and, where one of them was never put
  in the background, that both ran every frame. Where both were, their paused
  emulators may have skipped the same frames (finding 1), and the comparison cannot
  tell.
* `ImplementsLockstep`: `Spec => Implements`, the refinement of `Lockstep`: every
  step of the session is one of the abstract lockstep's or changes nothing of it.
* `SessionConstants`: the assumptions on window, interval and limit hold of what
  `Configuration` makes of any launch argument.

What a phone receives next is the peer's past, and the three invariants say
nothing of it. `JInv`, the invariant of this module, numbers each phone's messages
from the start of the session:

* `Arriving`, `Returning`: the messages in a connection, and in the inbox behind
  it, are those after the ones taken (`Forth` and `Back` say what message *n* is),
  and as long as nothing failed, all of them. So nothing arrives out of turn.
* `Verified`: `Begun`, which is true from the display's *ready* on, wherever that
  message is, implies `Agreed`: the same game and, until the first frame, the same
  state.
* `Ended`: how each end came about; a proof that passed is `Settled`, and stays so
  since nothing runs any more.
* `Counted`: every comparison was of a checkpoint the display counted too.
* `Places`: where each role may be.

* `PassesOnFinalDigest`: whenever a phone reports *passed*, both hold a digest of the
  last frame, each of its own final state. The invariant (`DInv`) says what the
  digests kept are of (`Kept`) and that every good end of the controller, and
  through its *finish* the display's, follows a comparison of the last frame
  (`Concluded`).
* `RanInvariance`: a phone whose app has not left has run the frames it counts, and
  its last digest is of a state with as many frames (`Ran`). With the digests of
  the last frame being equal, this is what makes the other phone's frames run too
  (`PassedFramesRan`).
* `DisagreementNeverPasses` follows from the digests: if the display's arguments make no digest for
  the controller's last frame, no schedule makes either phone report *passed*.

`NextEffects` says once what each kind of step may change; each part of the
invariant then has a lemma of its own (`QueuesKept`, `VerifiedKept`, `EndedKept`,
`CountedKept`, `PlacesKept`), and `SessionStep` puts them together.

`LockstepProgress_proofs` is about the session's getting on, under the same
assumptions:

* `SomebodyGoesOn` (`NeverStuck`). That two running phones do not wait for each
  other follows from the numbering in `JInv`: of two receivers with nothing on the
  way, one would have received a message the other never sent; and a full
  connection is read, since the reader thread empties the controller's end
  whatever its emulation thread does. That nobody waits for a phone, or for a
  reader thread, that has ended needs in addition that every end leaves a trace
  (`Signalled`): the transport closed, the inbox's error set or the inbox stopped.
* `WorkAlwaysRunsOut` (`WorkRunsOut`) needs no more than the types and `Places`.
  `WorkStep` adds up what a step does to ranks, queues and one-time events;
  `StepsAreBounded` starts from what `Init` is worth: the work left is a natural
  number, and at most 46 and 7 more for every frame begun.
* `OneEndBringsTheOther`: from the moment one phone's session is over, every step
  of any thread lowers the natural number `LeftToDo`, the work and the cost of the
  frames for which the controller still has room in its window. A controller
  whose display has ended runs no frame beyond that, with or without a limit.
* `NothingFalselyFails` (`NoFalseAlarm`). Where nothing fails, the invariant
  (`FaultlessInv`) is that no end comes early and no thread sees an error (`Calm`),
  that acknowledgements carry the digests they should (`Answered`), and that the
  two emulators ran the same inputs, those on the way included (`Same`); then
  no message is rejected and no comparison fails.
* `AcknowledgedFramesAreRun`: what finding 1 refutes, where the display's app stays
  in the foreground (from `Ran`).

For every set of phones that leave, with and without time-outs:

* `NothingIsDrawnAway`, `PlayIsNotFrozen`, `CancelsTakeHold` (`NoDrawingAway`,
  `NoFrozenPlay`, `CancelTakesHold`). The inductive invariant adds that an app
  on its way out is marked as such (`Marked`), that a session is registered from
  before its search until after its close, so that `cancel` finds it
  (`Findable`), and that a phone in play over an open connection is paused only
  between `pauseEmulation` and `cancel` (`Running`).
* `OnlyUnregisteredOutlive`: `ClosedBeforeSuspension`, which finding 2 refutes, holds
  of every behaviour in which no `cancel` comes between an attempt's beginning and
  its registration (`NeverTooEarly`). The invariant adds that an attempt that goes
  on while its phone is away was cancelled (`Cut`).

For every set of keys and interrupt conditions and every window:

* `DivergesAtFirstFrameOnly` (`OnlyFirstFrame`). The inductive invariant
  follows the frames ahead of the display as a chain in which each starts from
  the state and the keys the one before left (`Chain`), up to the controller's
  own (`Front`); only the link into a session's first frame may be missing.
* `EqualKeysSuffice`, `OtherGamesRunAlike`: `SameFrames`, which finding 3 refutes,
  holds if both phones hold the same keys at every handshake, and of a game that
  sets no condition for key interrupts. In both cases the missing link is there
  (`FirstLink`).

For every number of connections and any number of attempts:

* `NothingElseIsLeft` (`OnlyTimeoutsOrphan`), `LateAnswersDoNothing`
  (`LateAnswersAreIgnored`), `TypeCorrect`. The inductive invariant says between
  which phases an attempt's variables are reset (`Phases`), whose an end may be in
  each phase (`Owners`) and that an end that can become ready has an owner, who is
  told of it (`Opened`).

For all games, chips, memory lengths, values of a byte and cuts:

* `EndsSafely` (`SafeToEnd`), `LaunchesFindSave` (`LaunchFindsSave`),
  `TypeCorrect`. `SafeToEnd` is nearly inductive: a step that changes a cell has to
  be one of a command that saves in the end (`Touching`), and the file holds what
  each game's last run is owed (`Kept`), until a save is begun. That every address
  stays in the memory is part of the types.
* `ReadsReach` (`ReadsAsAddressed`), `WritesReach` (`WritesAsAddressed`). The
  invariant is that the registers follow the command (`Tracks`): the address
  register holds, modulo the memory's length, the address bytes taken so far and
  the bytes of data since. The chip reduces it at every byte and the game's own
  count does not; `Rest` and `RestPlus` say that this makes no difference. A
  snapshot is assumed to have registers that follow its command too
  (`Follows`, in `SnapshotsAssumption`), since the peer's chip is the same.

For every size of the ring, any number of gamepads, keys, points and failures:

* `NoKeySticks` (`NothingSticks`): what the gamepads' mask has beyond the keys held
  is about to be released by the handler that runs (`Called`), and the emulator's
  keys are one of the two masks (`LastWins`).
* `Resting` (`RestsInBackground`): from `Rests`, that a thread which passed the
  guards before the app left holds the lock or finds the flags.
* `NodesAreAccountedFor` (`NodesAddUp`), `FlagsAgree` (`FlagIsTrueAgain`): from
  `Stopped`, that a start always follows a stop.
* `RingIsFifo` (`PlaysAsFifo`), the refinement of `AudioFifo`: lemmas about the
  content of a ring say what adding a sample, dropping the oldest and taking some
  of them do to the queue it stands for.
* `TypeCorrect`.

Only model-checked: all liveness (`Completes`, `EndsTogether`,
`DisagreementIsReported`, the two `Reunites`, `Releases`, `ReachesBackground`,
`GameRuns`, `ReleasesReachGame`), since TLAPS cannot reason about fairness and
ENABLED. Every invariant and every action property of a passing run is proved.

Of a session's liveness the proofs hold all but the last step, and hold it for every
value of the constants. If some thread can go on (`SomebodyGoesOn`), only a
bounded number of steps is taken with a frame limit (`StepsAreBounded`) or after
one end (`OneEndBringsTheOther`), and no end but a passed one is possible where
nothing fails (`NothingFalselyFails`) and none is a passed one where the phones
disagree (`DisagreementNeverPasses`), then `Completes`, `EndsTogether` and
`DisagreementIsReported` follow if the scheduler lets a thread that can go on do so.
That a thread which does not wait is one whose action is enabled is what the TLC
runs add, with their deadlock check and these properties.

## 5. Findings

1. `src/README.md:24` says that both instances apply every input before running
   its frame. `appDidEnterBackground` pauses the emulator before it cancels the
   session (`EmulatorCore.swift:154-156`); a frame that the session steps in
   between is silently not run, yet counted and acknowledged
   (run `lockstep_pause`). Nothing else has this effect: while the display's app
   stays in the foreground, whatever else fails, every acknowledged frame was
   run (`AcknowledgedFramesAreRun`).
2. `src/README.md:103-104` says that the connection is closed before iOS
   suspends a phone that leaves. A session that is registered
   (`EmulatorCore.swift:366-368`) after the main thread found none to cancel
   connects all the same (run `reconnect_suspend`). `Releases` shows what
   contains the damage: the peer's receive times out, over Bonjour. That gap is the
   only cause (`OnlyUnregisteredOutlive`).
3. `src/README.md:17-19` says that both emulators begin from one state. The
   savestate leaves out the key register (`src/melonDS/src/NDS.cpp:705`), against
   which key interrupts are judged: a key held across a new handshake may
   interrupt the game on the display only (run `handoff_first`). A game that does
   not use key interrupts is not affected (`OtherGamesRunAlike`), nor is a session
   that begins with the same keys on both phones (`EqualKeysSuffice`), and
   `OnlyFirstFrame` shows that one frame with an absolute input makes the
   registers equal again.

## 6. What is not modelled

* melonDS, but for the parts `SaveMemory`, `AudioOutput` and `SnapshotHandoff`
  translate. It is vendored and most of the repository's lines; processors, GPU,
  sound synthesis, DSi, NAND, JIT and its desktop front end keep no state that the
  app's own logic depends on, and the app builds it with the software renderer,
  without threads and JIT. Its determinism is an assumption that `Faulty` suspends.
  Multiplayer, camera and network of the platform layer are stubs; its file, thread
  and semaphore functions pass on to the system.
* `TCPSocketTransport`: its blocking `connect` and `accept`, and what a descriptor
  closed twice may hit. `close()` is called by two threads without a lock; the
  descriptor number it closes the second time may be anything the process has
  opened since, which is outside the program's state. The session's own view of a
  close is modelled. A connection that dies without telling either end is not.
* The bytes of messages: encoding and decoding are pure functions of one message,
  which the repository's tests cover, and framing by length is a loop over them.
* `stop()`, `shutdown()`, `pause()`, `resume()`, reset, `SaveStateManager` and
  `SettingsViewController`: nothing reaches them. `RecentROMs` keeps a list on the
  main thread only. `TwoPhoneTestReport` is one file write.
* The automated run's single attempt in `Reconnect`: one session, which is
  `LockstepSession`. `TwoPhoneInputScript` is a function of the frame number.
* Infrared and homebrew cartridges and cartridge NAND in `SaveMemory`; the status
  register but for the bit that lets a command write.
* Frame pacing, statistics, status texts, layout, the geometry of touches, what is
  drawn, how sound channels are mixed into a sample.

## Checking

Each run of section 3 is a configuration of the module it names:

    tlc -config LockstepSession_clean.cfg LockstepSessionMC.tla
    tlc -config LockstepSession_faults.cfg LockstepSessionMC.tla
    tlc -config LockstepSession_ends.cfg LockstepSessionMC.tla
    tlc -config LockstepSession_unequal.cfg LockstepSessionMC.tla
    tlc -config LockstepSession_pause.cfg LockstepSessionMC.tla
    tlc -config Reconnect_play.cfg Reconnect.tla
    tlc -config Reconnect_suspend.cfg Reconnect.tla
    tlc -config Rendezvous.cfg Rendezvous.tla
    tlc -config SaveMemory_games.cfg SaveMemoryMC.tla
    tlc -config SnapshotHandoff_frames.cfg SnapshotHandoffMC.tla
    tlc -config SnapshotHandoff_first.cfg SnapshotHandoffMC.tla
    tlc -config Standalone_play.cfg StandaloneMC.tla

    tlapm LockstepSession_proofs.tla
    tlapm LockstepVerdict_proofs.tla
    tlapm LockstepProgress_proofs.tla
    tlapm Reconnect_proofs.tla
    tlapm Rendezvous_proofs.tla
    tlapm SaveMemory_proofs.tla
    tlapm SnapshotHandoff_proofs.tla
    tlapm Standalone_proofs.tla
