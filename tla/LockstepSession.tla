--------------------------- MODULE LockstepSession ---------------------------
(***************************************************************************)
(* One two-phone session over one connection: TwoPhoneSession.swift on the *)
(* controller and on the display, the controller's acknowledgement inbox,  *)
(* the emulator behind the closures of EmulatorCore.swift, and the main    *)
(* thread of each phone, which may take the app to the background.         *)
(*                                                                         *)
(* Four kinds of threads interleave: the emulation thread of each phone,   *)
(* which runs the session; the controller's reader thread, which moves     *)
(* acknowledgements from the connection to the inbox; and the main threads.*)
(*                                                                         *)
(* The emulator is abstracted to the sequence of what its frames did since *)
(* the shared snapshot.  A frame does its input, or, on a phone named in   *)
(* Faulty, something only that phone does.  A digest is that sequence:   *)
(* hashes of the savestate and the framebuffers are taken to be injective. *)
(***************************************************************************)
EXTENDS Integers, Sequences

CONSTANTS
  Window,       \* configuration.frameWindow
  Interval,     \* configuration.checkpointInterval of each phone
  Limit,        \* configuration.testFrameLimit of each phone, or NoLimit
  Games,        \* what a hello identifies: protocol version and ROM hash
  Inputs,       \* the input frames the controller may sample
  Capacity,     \* messages the connection buffers in one direction
  Faulty,       \* phones whose emulator may fail or come to differ
  Leavers,      \* phones whose app may leave the foreground
  LinkMayFail,  \* whether the network may fail
  GivesUp       \* whether sends and receives time out, as in BonjourTransport

Phone == {"controller", "display"}
NoLimit == -1

ASSUME WindowAssumption   == Window \in 1 .. 8
ASSUME IntervalAssumption == Interval \in [Phone -> Nat \ {0}]
ASSUME LimitAssumption    == Limit \in [Phone -> Nat \cup {NoLimit}]
ASSUME InputsAssumption   == Inputs # {}
ASSUME CapacityAssumption == Capacity \in Nat \ {0}
ASSUME SwitchAssumption   == /\ Faulty \subseteq Phone
                             /\ Leavers \subseteq Phone
                             /\ {LinkMayFail, GivesUp} \subseteq BOOLEAN

VARIABLES
  game,            \* protocol version and loaded ROM of each phone
  pc,              \* where the emulation thread of each phone is
  outcome,         \* how run() ended on each phone, "none" before
  frame,           \* controller: number of the last input sent
  pending,         \* controller: frames run and not yet acknowledged
  detail,          \* controller: result of the last digest comparison
  framesCompleted, \* display: number of the last frame run
  current,         \* the input a phone is about to run
  checkpoints,     \* checkpoints compared (controller) or created (display)
  lastDigest,      \* digest of the last of them, <<>> before the first
  core,            \* what each emulator has done
  paused,          \* the bridge's paused flag of each phone
  wire,            \* messages on their way to each phone
  closed,          \* the phone has closed its end of the connection
  broken,          \* the network has failed
  messages,        \* inbox: acknowledgements received and not yet taken
  terminalError,   \* inbox: the reader met a receive error
  isStopped,       \* inbox: stopped, by stop() or by the last message
  reading,         \* the reader thread is running
  isCancelled,     \* the main thread has cancelled the session
  active,          \* the session has published its transport to cancel()
  app              \* the main thread: "here", "pausing" or "away"

progress == <<frame, pending, detail, framesCompleted, current, checkpoints,
              lastDigest>>
machine  == <<core, paused>>
inbox    == <<messages, terminalError, isStopped, reading>>
control  == <<game, isCancelled, active, app>>
vars     == <<pc, outcome, progress, machine, wire, closed, broken, inbox,
              control>>

Peer(p) == IF p = "controller" THEN "display" ELSE "controller"

(***************************************************************************)
(* Messages.  The optional digest of an acknowledgement is a sequence of   *)
(* length 0 or 1.                                                          *)
(***************************************************************************)
Effects == Inputs \cup Phone
State   == Seq(Effects)
Digest  == {d \in Seq([frame : Nat, state : State]) : Len(d) <= 1}

Signal(t)          == [type |-> t]
Hello(p)           == [type |-> "hello", identity |-> game[p]]
Snapshot(s)        == [type |-> "snapshot", state |-> s, stateHash |-> s]
Input(k, i)        == [type |-> "input", frame |-> k, input |-> i]
AcknowledgeBare(k, d) ==  \* mutant: the digest is not encoded
  [type |-> "acknowledgement", frame |-> k]
Acknowledge(k, d)  == [type |-> "acknowledgement", frame |-> k, digest |-> d]
Finish(k, success) == [type |-> "finish", frame |-> k, success |-> success]

Message ==
  [type : {"ready", "start", "failure", "finishAcknowledgement"}]
    \cup [type : {"hello"}, identity : Games]
    \cup [type : {"snapshot"}, state : State, stateHash : State]
    \cup [type : {"input"}, frame : Nat, input : Inputs]
    \cup [type : {"acknowledgement"}, frame : Nat, digest : Digest]
    \cup [type : {"finish"}, frame : Nat, success : BOOLEAN]

Pending == [frame : Nat, needsDigest : BOOLEAN, digest : Digest]

(***************************************************************************)
(* Configuration.                                                          *)
(***************************************************************************)
\* shouldCreateDigest: each phone asks its own configuration.
NeedsDigest(p, k) == k % Interval[p] = 0 \/ k = Limit[p]

\* The digest a phone makes after running frame k into state s.
DigestOf(p, k, s) ==
  IF NeedsDigest(p, k) THEN <<[frame |-> k, state |-> s]>> ELSE <<>>

\* The loop condition of runController.
MoreFrames == Limit["controller"] = NoLimit \/ frame < Limit["controller"]

\* Mutant: one frame too many in the window.
WindowFullLate == Len(pending) > Window

\* The controller may not run ahead any further.
WindowFull == Len(pending) >= Window

(***************************************************************************)
(* The connection: TCP under both transports.  A closed end neither sends  *)
(* nor receives.  The peer of a closed end still receives what was sent to *)
(* it, then the end of the stream; but where the closing side has left or  *)
(* is sent something it does not read, the connection is reset, and what   *)
(* was on its way may be lost.  BonjourTransport gives up on a send after   *)
(* 30 seconds and on a receive after 120, TCPSocketTransport never does.    *)
(*                                                                         *)
(* A network that fails is taken to tell: a receive on it ends with an     *)
(* error.  readExactly of TCPSocketTransport has neither a time-out nor    *)
(* keepalive, and waits for ever on one that dies without a word.          *)
(***************************************************************************)
SendFails(p) == closed[p] \/ closed[Peer(p)] \/ broken \/ GivesUp

ReceiveFails(p) ==
  \/ closed[p] \/ broken \/ GivesUp
  \/ closed[Peer(p)] /\ (wire[p] = <<>> \/ wire[Peer(p)] # <<>>)

\* transport.send: blocks while the buffers are full; what is sent after the
\* network has failed goes nowhere.
Send(p, m) ==
  /\ ~closed[p]
  /\ IF broken THEN wire' = wire
     ELSE /\ Len(wire[Peer(p)]) < Capacity
          /\ wire' = [wire EXCEPT ![Peer(p)] = Append(@, m)]

\* From the first frame on the controller receives from its inbox, not from the
\* connection.
UsesInbox(p) == pc[p] \in {"lockstep", "drain", "recvFinishAck"}

\* What the next receive of a phone may return, oldest first.
Offered(p) ==
  IF UsesInbox(p) THEN messages
  ELSE IF closed[p] THEN <<>> ELSE wire[p]

\* The messages the code goes on with where a phone now is; it throws on every
\* other one.
Accepts(p, m) ==
  \/ pc[p] = "recvHello" /\ m.type = "hello" /\ m.identity = game[p]
  \/ pc[p] = "recvSnapshot" /\ m.type = "snapshot"
  \/ pc[p] = "recvReady" /\ m.type = "ready"
  \/ pc[p] = "recvStart" /\ m.type = "start"
  \/ /\ pc[p] = "recvFrame"
     /\ \/ m.type = "input" /\ m.frame = framesCompleted + 1
        \/ m.type = "finish" /\ m.frame = framesCompleted
  \/ /\ pc[p] \in {"lockstep", "drain"}
     /\ m.type = "acknowledgement"
     /\ pending # <<>> /\ m.frame = Head(pending).frame
  \/ pc[p] = "recvFinishAck" /\ m.type = "finishAcknowledgement"

Receiving(p) ==
  \/ pc[p] \in {"recvHello", "recvSnapshot", "recvReady", "recvStart",
                "recvFrame", "drain", "recvFinishAck"}
  \/ pc[p] = "lockstep" /\ MoreFrames /\ WindowFull

Sending(p) ==
  \/ pc[p] \in {"sendHello", "sendSnapshot", "sendReady", "sendFailure",
                "sendStart", "sendAck", "sendFinish", "sendPassed",
                "sendFailed"}
  \/ pc[p] = "lockstep" /\ MoreFrames /\ ~WindowFull

Accepted(p) == Offered(p) # <<>> /\ Accepts(p, Head(Offered(p)))

\* Take the oldest message off the connection, or out of the inbox.
TakeFromWire(p) == wire' = [wire EXCEPT ![p] = Tail(@)]
TakeFromInbox   == messages' = Tail(messages)

Goto(p, label) == pc' = [pc EXCEPT ![p] = label]

\* Mutant: run() ends without closing the transport.
LeaveOpen(p, result) ==
  /\ Goto(p, "over")
  /\ outcome' = [outcome EXCEPT ![p] = result]
  /\ active' = [active EXCEPT ![p] = FALSE]
  /\ isStopped' = (isStopped \/ p = "controller")
  /\ UNCHANGED <<progress, closed, broken, terminalError, reading, game,
                 isCancelled, app>>

\* The end of run(), with the defers of runController and runDisplay: the
\* inbox is stopped, the transport withdrawn from cancel() and closed.
Leave(p, result) ==
  /\ Goto(p, "over")
  /\ outcome' = [outcome EXCEPT ![p] = result]
  /\ closed' = [closed EXCEPT ![p] = TRUE]
  /\ active' = [active EXCEPT ![p] = FALSE]
  /\ isStopped' = (isStopped \/ p = "controller")
  /\ UNCHANGED <<progress, broken, terminalError, reading, game,
                 isCancelled, app>>

(***************************************************************************)
(* The handshake, common to both phones.                                   *)
(***************************************************************************)
\* activate: a session cancelled before it has a transport ends here.
Activate(p) ==
  /\ pc[p] = "activate"
  /\ \/ isCancelled[p] /\ Leave(p, "cancelled")
     \/ /\ ~isCancelled[p]
        /\ active' = [active EXCEPT ![p] = TRUE]
        /\ Goto(p, IF p = "controller" THEN "recvHello" ELSE "sendHello")
        /\ UNCHANGED <<outcome, progress, closed, broken, inbox, game,
                       isCancelled, app>>
  /\ UNCHANGED <<machine, wire, messages>>

\* A receive that only moves the phone on.
Receives(p, label, next) ==
  /\ pc[p] = label
  /\ Accepted(p)
  /\ TakeFromWire(p)
  /\ Goto(p, next)
  /\ UNCHANGED <<outcome, progress, machine, closed, broken, inbox, control>>

\* A send that only moves the phone on.
Sends(p, label, m, next) ==
  /\ pc[p] = label
  /\ Send(p, m)
  /\ Goto(p, next)
  /\ UNCHANGED <<outcome, progress, machine, closed, broken, inbox, control>>

\* A message the code does not go on with: a peer of another protocol version
\* or ROM, or the display's report that the snapshot did not load.
Reject(p) ==
  /\ Receiving(p)
  /\ Offered(p) # <<>>
  /\ ~Accepts(p, Head(Offered(p)))
  /\ Leave(p, "malformed")
  /\ UNCHANGED <<machine, wire, messages>>

\* A send or receive throws.  The inbox hands over the reader's error after the
\* messages that came before it.  A send that was given up may have gone out all
\* the same: the phone then fails where it would go on after the send.
TransportError(p) ==
  /\ \/ Sending(p) /\ SendFails(p)
     \/ p = "controller" /\ pc[p] = "step" /\ GivesUp
     \/ Receiving(p) /\ ~UsesInbox(p) /\ ReceiveFails(p)
     \/ Receiving(p) /\ UsesInbox(p) /\ messages = <<>>
          /\ (terminalError \/ isStopped)
  /\ Leave(p, "transport")
  /\ UNCHANGED <<machine, wire, messages>>

\* melonDS cannot save or load the snapshot.
SnapshotFails(p) ==
  /\ p \in Faulty
  /\ \/ pc[p] = "sendSnapshot"
     \/ pc[p] = "recvSnapshot" /\ Accepted(p)
  /\ Leave(p, "snapshot")
  /\ UNCHANGED <<machine, wire, messages>>

\* stepFrame: the input is applied and the frame runs, unless the emulator is
\* paused: then melonds_run_frame returns without a word.
RunFrame(p) ==
  \E effect \in {current[p]} \cup (Faulty \cap {p}) :
    core' = IF paused[p] THEN core
            ELSE [core EXCEPT ![p] = Append(@, effect)]

(***************************************************************************)
(* The controller's emulation thread.                                      *)
(***************************************************************************)
\* The snapshot and its hash are taken from the paused emulator.
ControllerHandshake ==
  \/ Receives("controller", "recvHello", "sendHello")
  \/ Sends("controller", "sendHello", Hello("controller"), "sendSnapshot")
  \/ Sends("controller", "sendSnapshot", Snapshot(core["controller"]),
           "recvReady")
  \/ Receives("controller", "recvReady", "sendStart")

\* After start is sent the emulator is resumed and the reader thread started.
ControllerStarts ==
  /\ pc["controller"] = "sendStart"
  /\ Send("controller", Signal("start"))
  /\ paused' = [paused EXCEPT !["controller"] = FALSE]
  /\ reading' = TRUE
  /\ Goto("controller", "lockstep")
  /\ UNCHANGED <<outcome, progress, core, closed, broken, messages,
                 terminalError, isStopped, control>>

\* The next frame begins: its input is sampled and sent.
ControllerSendsInput ==
  /\ pc["controller"] = "lockstep"
  /\ MoreFrames
  /\ ~WindowFull
  /\ frame' = frame + 1
  /\ \E i \in Inputs :
       /\ Send("controller", Input(frame + 1, i))
       /\ current' = [current EXCEPT !["controller"] = i]
  /\ Goto("controller", "step")
  /\ UNCHANGED <<outcome, pending, detail, framesCompleted, checkpoints,
                 lastDigest, machine, closed, broken, inbox, control>>

\* The controller runs the frame and notes that it is not yet acknowledged; a
\* checkpoint is followed by a drain of the window.
ControllerSteps ==
  /\ pc["controller"] = "step"
  /\ RunFrame("controller")
  /\ LET needed == NeedsDigest("controller", frame)
     IN  /\ pending' = Append(pending,
              [frame |-> frame, needsDigest |-> needed,
               digest |-> DigestOf("controller", frame, core'["controller"])])
         /\ Goto("controller", IF needed THEN "drain" ELSE "lockstep")
  /\ UNCHANGED <<outcome, frame, detail, framesCompleted, current, checkpoints,
                 lastDigest, paused, wire, closed, broken, inbox, control>>

\* Mutants: the drain ends with the first acknowledgement, or never.
AfterFirstAcknowledgement == "lockstep"
AfterNoAcknowledgement == pc["controller"]

\* Where the controller goes on after an acknowledgement: out of the drain
\* once nothing is pending.
AfterAcknowledgement ==
  IF pc["controller"] = "drain" /\ Tail(pending) = <<>> THEN "lockstep"
  ELSE pc["controller"]

\* receiveControllerAcknowledgement, for a frame without digest.
ControllerTakesAcknowledgement ==
  /\ Receiving("controller") /\ pc["controller"] \in {"lockstep", "drain"}
  /\ Accepted("controller")
  /\ ~Head(pending).needsDigest
  /\ TakeFromInbox
  /\ pending' = Tail(pending)
  /\ Goto("controller", AfterAcknowledgement)
  /\ UNCHANGED <<outcome, frame, detail, framesCompleted, current, checkpoints,
                 lastDigest, machine, wire, closed, broken, terminalError,
                 isStopped, reading, control>>

\* Mutants: the states are not compared; a missing digest is overlooked.
NoComparison(local, remote) ==
  IF local = <<>> \/ remote = <<>> THEN "missing" ELSE "matched"
LenientComparison(local, remote) ==
  IF local = <<>> \/ remote = <<>> \/ local = remote THEN "matched"
  ELSE "mismatch"

\* What the comparison of the two digests of a checkpoint says.
Comparison(local, remote) ==
  IF local = <<>> \/ remote = <<>> THEN "missing"
  ELSE IF local = remote THEN "matched" ELSE "mismatch"

\* receiveControllerAcknowledgement, for a checkpoint: a failed comparison
\* ends the session.
ControllerVerifies ==
  /\ Receiving("controller") /\ pc["controller"] \in {"lockstep", "drain"}
  /\ Accepted("controller")
  /\ Head(pending).needsDigest
  /\ TakeFromInbox
  /\ pending' = Tail(pending)
  /\ checkpoints' = [checkpoints EXCEPT !["controller"] = @ + 1]
  /\ lastDigest' = [lastDigest EXCEPT !["controller"] = Head(pending).digest]
  /\ detail' = Comparison(Head(pending).digest, Head(messages).digest)
  /\ Goto("controller", IF detail' = "matched" THEN AfterAcknowledgement
                        ELSE "sendFinish")
  /\ UNCHANGED <<outcome, frame, framesCompleted, current, machine, wire,
                 closed, broken, terminalError, isStopped, reading, control>>

\* The frame limit is reached.
ControllerCompletes ==
  /\ pc["controller"] = "lockstep"
  /\ ~MoreFrames
  /\ Goto("controller", "sendFinish")
  /\ UNCHANGED <<outcome, progress, machine, wire, closed, broken, inbox,
                 control>>

Success == detail \in {"none", "matched"}

ControllerSendsFinish ==
  Sends("controller", "sendFinish", Finish(frame, Success), "recvFinishAck")

\* finishController returns the outcome once the display has confirmed it.
ControllerReturns ==
  /\ pc["controller"] = "recvFinishAck"
  /\ Accepted("controller")
  /\ TakeFromInbox
  /\ Leave("controller", IF Success THEN "passed" ELSE "failed")
  /\ UNCHANGED <<machine, wire>>

ControllerThread ==
  \/ ControllerHandshake
  \/ ControllerStarts
  \/ ControllerSendsInput
  \/ ControllerSteps
  \/ ControllerTakesAcknowledgement
  \/ ControllerVerifies
  \/ ControllerCompletes
  \/ ControllerSendsFinish
  \/ ControllerReturns

(***************************************************************************)
(* The controller's reader thread, started after the handshake.            *)
(***************************************************************************)
\* Mutant: the newest message first.
EnqueuedFirst(m) == <<m>> \o messages

\* Mutant: one message handled as two.
EnqueuedTwice(m) == messages \o <<m, m>>

Enqueued(m) == Append(messages, m)

\* A message goes to the inbox; the last one also stops it.
ReaderReceives ==
  /\ reading /\ ~isStopped
  /\ wire["controller"] # <<>> /\ ~closed["controller"]
  /\ TakeFromWire("controller")
  /\ LET m == Head(wire["controller"])
         last == m.type = "finishAcknowledgement"
     IN  /\ messages' = Enqueued(m)
         /\ isStopped' = last
         /\ reading' = ~last
  /\ UNCHANGED <<pc, outcome, progress, machine, closed, broken, terminalError,
                 control>>

\* receive throws, or the thread finds the inbox stopped.
ReaderEnds ==
  /\ reading
  /\ isStopped \/ ReceiveFails("controller")
  /\ reading' = FALSE
  /\ terminalError' = (terminalError \/ ~isStopped)
  /\ UNCHANGED <<pc, outcome, progress, machine, wire, closed, broken,
                 messages, isStopped, control>>

Reader == ReaderReceives \/ ReaderEnds

(***************************************************************************)
(* The display's emulation thread.                                         *)
(***************************************************************************)
DisplayHandshake ==
  \/ Sends("display", "sendHello", Hello("display"), "recvHello")
  \/ Receives("display", "recvHello", "recvSnapshot")
  \/ Sends("display", "sendReady", Signal("ready"), "recvStart")

\* Mutant: the state hash is not compared.
AfterAnyLoading(loaded, stateHash) == "sendReady"

AfterLoading(loaded, stateHash) ==
  IF loaded = stateHash THEN "sendReady" ELSE "sendFailure"

\* The snapshot is loaded and its state hash compared with the controller's.
DisplayLoadsSnapshot ==
  /\ pc["display"] = "recvSnapshot"
  /\ Accepted("display")
  /\ TakeFromWire("display")
  /\ LET snapshot == Head(wire["display"])
     IN  \E loaded \in {snapshot.state}
           \cup {Append(snapshot.state, p) : p \in Faulty \cap {"display"}} :
           /\ core' = [core EXCEPT !["display"] = loaded]
           /\ Goto("display", AfterLoading(loaded, snapshot.stateHash))
  /\ UNCHANGED <<outcome, progress, paused, closed, broken, inbox, control>>

\* The display reports the mismatch and throws.
DisplayReportsFailure ==
  /\ pc["display"] = "sendFailure"
  /\ Send("display", Signal("failure"))
  /\ Leave("display", "malformed")
  /\ UNCHANGED <<machine, messages>>

\* Only after start is the display's emulator resumed.
DisplayStarts ==
  /\ pc["display"] = "recvStart"
  /\ Accepted("display")
  /\ TakeFromWire("display")
  /\ paused' = [paused EXCEPT !["display"] = FALSE]
  /\ Goto("display", "recvFrame")
  /\ UNCHANGED <<outcome, progress, core, closed, broken, inbox, control>>

DisplayReceivesInput ==
  /\ pc["display"] = "recvFrame"
  /\ Accepted("display")
  /\ Head(wire["display"]).type = "input"
  /\ TakeFromWire("display")
  /\ current' = [current EXCEPT !["display"] = Head(wire["display"]).input]
  /\ Goto("display", "step")
  /\ UNCHANGED <<outcome, frame, pending, detail, framesCompleted, checkpoints,
                 lastDigest, machine, closed, broken, inbox, control>>

DisplaySteps ==
  /\ pc["display"] = "step"
  /\ RunFrame("display")
  /\ framesCompleted' = framesCompleted + 1
  /\ IF NeedsDigest("display", framesCompleted + 1)
     THEN /\ checkpoints' = [checkpoints EXCEPT !["display"] = @ + 1]
          /\ lastDigest' = [lastDigest EXCEPT !["display"] =
               DigestOf("display", framesCompleted + 1, core'["display"])]
     ELSE UNCHANGED <<checkpoints, lastDigest>>
  /\ Goto("display", "sendAck")
  /\ UNCHANGED <<outcome, frame, pending, detail, current, paused, wire,
                 closed, broken, inbox, control>>

\* The acknowledgement carries the digest when the display made one.
DisplayAcknowledges ==
  Sends("display", "sendAck",
        Acknowledge(framesCompleted,
                    IF NeedsDigest("display", framesCompleted)
                    THEN lastDigest["display"] ELSE <<>>),
        "recvFrame")

DisplayReceivesFinish ==
  /\ pc["display"] = "recvFrame"
  /\ Accepted("display")
  /\ Head(wire["display"]).type = "finish"
  /\ TakeFromWire("display")
  /\ Goto("display", IF Head(wire["display"]).success THEN "sendPassed"
                     ELSE "sendFailed")
  /\ UNCHANGED <<outcome, progress, machine, closed, broken, inbox, control>>

\* The display confirms the end and returns, whether or not the confirmation
\* reaches the controller; where sending it is given up, it may reach it still.
DisplayReturns ==
  /\ pc["display"] \in {"sendPassed", "sendFailed"}
  /\ Send("display", Signal("finishAcknowledgement"))
  /\ \/ Leave("display", IF pc["display"] = "sendPassed" THEN "passed"
                         ELSE "failed")
     \/ GivesUp /\ Leave("display", "transport")
  /\ UNCHANGED <<machine, messages>>

DisplayThread ==
  \/ DisplayHandshake
  \/ DisplayLoadsSnapshot
  \/ DisplayReportsFailure
  \/ DisplayStarts
  \/ DisplayReceivesInput
  \/ DisplaySteps
  \/ DisplayAcknowledges
  \/ DisplayReceivesFinish
  \/ DisplayReturns

(***************************************************************************)
(* The main threads and the network.                                       *)
(***************************************************************************)
\* appDidEnterBackground first pauses the emulator ...
AppLeaves(p) ==
  /\ p \in Leavers
  /\ app[p] = "here"
  /\ pc[p] # "over"
  /\ app' = [app EXCEPT ![p] = "pausing"]
  /\ paused' = [paused EXCEPT ![p] = TRUE]
  /\ UNCHANGED <<pc, outcome, progress, core, wire, closed, broken, inbox,
                 game, isCancelled, active>>

\* ... and then cancels the session, closing the transport if it has one.
CancelSession(p) ==
  /\ app[p] = "pausing"
  /\ app' = [app EXCEPT ![p] = "away"]
  /\ isCancelled' = [isCancelled EXCEPT ![p] = TRUE]
  /\ closed' = [closed EXCEPT ![p] = @ \/ active[p]]
  /\ UNCHANGED <<pc, outcome, progress, machine, wire, broken, inbox, game,
                 active>>

\* The network fails; of what is in transit some prefix still arrives.
LinkFails ==
  /\ LinkMayFail
  /\ ~broken
  /\ broken' = TRUE
  /\ \E kept \in {n \in [Phone -> 0 .. Capacity] :
                    \A p \in Phone : n[p] <= Len(wire[p])} :
       wire' = [p \in Phone |-> SubSeq(wire[p], 1, kept[p])]
  /\ UNCHANGED <<pc, outcome, progress, machine, closed, inbox, control>>

(***************************************************************************)
(* The specification.                                                      *)
(***************************************************************************)
Init ==
  /\ game \in [Phone -> Games]
  /\ pc = [p \in Phone |-> "activate"]
  /\ outcome = [p \in Phone |-> "none"]
  /\ frame = 0 /\ pending = <<>> /\ detail = "none"
  /\ framesCompleted = 0
  /\ current = [p \in Phone |-> CHOOSE i \in Inputs : TRUE]
  /\ checkpoints = [p \in Phone |-> 0]
  /\ lastDigest = [p \in Phone |-> <<>>]
  /\ core = [p \in Phone |-> IF p = "display" THEN <<p>> ELSE <<>>]
  /\ paused = [p \in Phone |-> TRUE]
  /\ wire = [p \in Phone |-> <<>>]
  /\ closed = [p \in Phone |-> FALSE] /\ broken = FALSE
  /\ messages = <<>> /\ terminalError = FALSE /\ isStopped = FALSE
  /\ reading = FALSE
  /\ isCancelled = [p \in Phone |-> FALSE]
  /\ active = [p \in Phone |-> FALSE]
  /\ app = [p \in Phone |-> "here"]

\* What either emulation thread may do.
EmulationThread(p) ==
  \/ Activate(p) \/ Reject(p) \/ TransportError(p) \/ SnapshotFails(p)
  \/ p = "controller" /\ ControllerThread
  \/ p = "display" /\ DisplayThread

MainThread(p) == AppLeaves(p) \/ CancelSession(p)

\* Both runs have returned and no thread of the session is left.
Over ==
  /\ \A p \in Phone : pc[p] = "over" /\ app[p] # "pausing"
  /\ ~reading
  /\ UNCHANGED vars

Next ==
  \/ \E p \in Phone : EmulationThread(p) \/ MainThread(p)
  \/ Reader
  \/ LinkFails
  \/ Over

\* The threads are scheduled, and a main thread that has begun to leave goes
\* on; nothing forces the app to leave or the network to fail.
Fairness ==
  /\ \A p \in Phone : WF_vars(EmulationThread(p)) /\ WF_vars(CancelSession(p))
  /\ WF_vars(Reader)

Spec == Init /\ [][Next]_vars /\ Fairness

(***************************************************************************)
(* Properties.                                                             *)
(***************************************************************************)
Labels ==
  {"activate", "sendHello", "recvHello", "sendSnapshot", "recvSnapshot",
   "recvReady", "sendReady", "sendFailure", "sendStart", "recvStart",
   "lockstep", "step", "drain", "sendFinish", "recvFinishAck", "recvFrame",
   "sendAck", "sendPassed", "sendFailed", "over"}

\* Every variable keeps its type (the state of runController, runDisplay and
\* the inbox).
TypeOK ==
  /\ game \in [Phone -> Games]
  /\ pc \in [Phone -> Labels]
  /\ outcome \in [Phone -> {"none", "passed", "failed", "malformed",
                            "transport", "snapshot", "cancelled"}]
  /\ frame \in Nat /\ framesCompleted \in Nat
  /\ pending \in Seq(Pending)
  /\ detail \in {"none", "matched", "missing", "mismatch"}
  /\ current \in [Phone -> Inputs]
  /\ checkpoints \in [Phone -> Nat]
  /\ lastDigest \in [Phone -> Digest]
  /\ core \in [Phone -> State]
  /\ paused \in [Phone -> BOOLEAN]
  /\ wire \in [Phone -> Seq(Message)]
  /\ closed \in [Phone -> BOOLEAN] /\ broken \in BOOLEAN
  /\ messages \in Seq(Message)
  /\ terminalError \in BOOLEAN /\ isStopped \in BOOLEAN /\ reading \in BOOLEAN
  /\ isCancelled \in [Phone -> BOOLEAN] /\ active \in [Phone -> BOOLEAN]
  /\ app \in [Phone -> {"here", "pausing", "away"}]

\* The controller never leads the display by more than the window, whatever is
\* in the connection and in the inbox; the display never runs ahead.
LeadBounded ==
  /\ framesCompleted <= frame
  /\ frame - framesCompleted <= Window

\* Once the first input is sent, neither phone receives a message it throws
\* on: inputs, acknowledgements and the end arrive in the order and with the
\* frame numbers the other side expects, until the connection goes.
InSequence ==
  \A p \in Phone : outcome[p] = "malformed" => frame = 0

\* Neither emulator is resumed, and no frame begins, before both phones hold
\* the same game in the same state.
StartsVerified ==
  /\ \A p \in Phone :
       ~paused[p] /\ frame = 0 => core["controller"] = core["display"]
  /\ frame > 0 => game["controller"] = game["display"]

\* No input is sent past a checkpoint before the display has run the
\* checkpoint frame and the two emulators are in the same state.
CheckpointBarrier ==
  [][frame' # frame /\ frame > 0 /\ NeedsDigest("controller", frame)
       => /\ framesCompleted = frame
          /\ core["controller"] = core["display"]]_vars

\* The verdict is true of both emulators and both phones: a passed proof means
\* that both have counted all frames and are in one state, a mismatch that they
\* differ, and the controller reports nothing the display does not, unless the
\* display gave up on the confirmation that reached the controller.  The frames
\* passed on were also run, where one of the phones stayed in the foreground;
\* where both are paused, melonds_run_frame may have skipped the same frames on
\* both, and nothing in the comparison tells.
VerdictIsTrue ==
  /\ outcome["controller"] \in {"passed", "failed"}
       => \/ outcome["display"] = outcome["controller"]
          \/ GivesUp /\ outcome["display"] = "transport"
  /\ (\E p \in Phone : outcome[p] = "passed")
       => /\ framesCompleted = frame /\ frame = Limit["controller"]
          /\ core["controller"] = core["display"]
          /\ checkpoints["controller"] <= checkpoints["display"]
          /\ (\E p \in Phone : app[p] = "here")
               => \A q \in Phone : Len(core[q]) = frame
  /\ (\E p \in Phone : outcome[p] = "failed") /\ detail = "mismatch"
       => core["controller"] # core["display"]

\* A frame the display has acknowledged, or is about to, was run by its
\* emulator.
AcknowledgedFramesRan ==
  pc["display"] \in {"recvFrame", "sendAck"}
    => Len(core["display"]) = framesCompleted

\* With configurations that disagree on the checkpoints, both phones report a
\* failed proof: the controller misses a digest.
DisagreementIsReported == <>(\A p \in Phone : outcome[p] = "failed")

\* With equal configurations, a network that holds and nobody leaving, both
\* phones report that the proof passed, however small the buffers are.
Completes == <>(\A p \in Phone : outcome[p] = "passed")

\* When the app of one phone leaves, or its session ends for any reason, the
\* session of the other phone ends too, where a network that fails tells the
\* receives on it: TCPSocketTransport has no time-out for one that does not.
EndsTogether ==
  \A p \in Phone :
    (app[p] # "here" \/ outcome[p] # "none")
      ~> (\A q \in Phone : outcome[q] # "none")

\* The session implements the lockstep of two emulators.
Abstract ==
  INSTANCE Lockstep WITH
    Checkpoints <- {k \in Nat : NeedsDigest("controller", k)},
    led <- frame,
    ran <- IF pc["controller"] = "step" THEN frame - 1 ELSE frame,
    shown <- framesCompleted,
    compared <- IF lastDigest["controller"] = <<>> THEN 0
                ELSE lastDigest["controller"][1].frame,
    sound <- Success
Implements == Abstract!Spec
=============================================================================
