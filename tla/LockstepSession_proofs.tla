------------------------ MODULE LockstepSession_proofs ------------------------
(***************************************************************************)
(* Proofs about LockstepSession, for every window, checkpoint interval,    *)
(* frame limit, buffer size and set of faults.                             *)
(***************************************************************************)
EXTENDS LockstepSession, SequenceTheorems, TLAPS

(***************************************************************************)
(* Messages and the connection.                                            *)
(***************************************************************************)
\* Every constructor builds a message.
LEMMA MessageTypes ==
  ASSUME TypeOK
  PROVE  /\ \A p \in Phone : Hello(p) \in Message
         /\ \A s \in State : Snapshot(s) \in Message
         /\ \A k \in Nat, i \in Inputs : Input(k, i) \in Message
         /\ \A k \in Nat, d \in Digest : Acknowledge(k, d) \in Message
         /\ \A k \in Nat, b \in BOOLEAN : Finish(k, b) \in Message
         /\ \A t \in {"ready", "start", "failure", "finishAcknowledgement"} :
              Signal(t) \in Message
  BY DEF TypeOK, Hello, Snapshot, Input, Acknowledge, Finish, Signal, Message

\* A message's fields have the types of its kind.
LEMMA MessageFields ==
  ASSUME NEW m \in Message
  PROVE  /\ m.type = "snapshot" => m.state \in State
         /\ m.type = "input" => m.frame \in Nat /\ m.input \in Inputs
         /\ m.type = "acknowledgement" => m.frame \in Nat /\ m.digest \in Digest
         /\ m.type = "finish" => m.frame \in Nat /\ m.success \in BOOLEAN
  BY DEF Message

\* What is sent joins the messages on their way to the peer.
LEMMA SendType ==
  ASSUME wire \in [Phone -> Seq(Message)], NEW p \in Phone,
         NEW m \in Message, Send(p, m)
  PROVE  wire' \in [Phone -> Seq(Message)]
<1>1. Peer(p) \in Phone
  BY DEF Peer, Phone
<1>2. Append(wire[Peer(p)], m) \in Seq(Message)
  BY <1>1, AppendProperties
<1>3. QED
  BY <1>1, <1>2 DEF Send

\* What is received is a message, and messages are left behind it.
LEMMA TakeType ==
  ASSUME wire \in [Phone -> Seq(Message)], NEW p \in Phone,
         wire[p] # <<>>, TakeFromWire(p)
  PROVE  /\ wire' \in [Phone -> Seq(Message)]
         /\ Head(wire[p]) \in Message
<1>1. wire[p] \in Seq(Message)
  OBVIOUS
<1>2. Tail(wire[p]) \in Seq(Message) /\ Head(wire[p]) \in Message
  BY <1>1, HeadTailProperties
<1>3. QED
  BY <1>2 DEF TakeFromWire

\* A digest made by a phone is an optional digest.
LEMMA DigestType ==
  ASSUME NEW p, NEW k \in Nat, NEW s \in State
  PROVE  DigestOf(p, k, s) \in Digest
<1>1. [frame |-> k, state |-> s] \in [frame : Nat, state : State]
  OBVIOUS
<1>2. <<[frame |-> k, state |-> s]>> \in Digest
  BY <1>1 DEF Digest
<1>3. <<>> \in Digest
  BY DEF Digest
<1>4. QED
  BY <1>2, <1>3 DEF DigestOf

\* A frame leaves every emulator in some state.
LEMMA RunFrameType ==
  ASSUME core \in [Phone -> State], current \in [Phone -> Inputs],
         NEW p \in Phone, RunFrame(p)
  PROVE  core' \in [Phone -> State]
<1>1. PICK effect \in {current[p]} \cup (Faulty \cap {p}) :
        core' = IF paused[p] THEN core
                ELSE [core EXCEPT ![p] = Append(@, effect)]
  BY DEF RunFrame
<1>2. effect \in Effects
  BY <1>1 DEF Effects
<1>3. Append(core[p], effect) \in State
  BY <1>2 DEF State
<1>4. QED
  BY <1>1, <1>3

\* The queue a phone receives from holds messages, and so does its head.
LEMMA OfferedType ==
  ASSUME TypeOK, NEW p \in Phone, Offered(p) # <<>>
  PROVE  /\ Offered(p) \in Seq(Message)
         /\ Head(Offered(p)) \in Message
         /\ Tail(Offered(p)) \in Seq(Message)
<1>1. Offered(p) \in Seq(Message)
  BY DEF TypeOK, Offered
<1>2. QED
  BY <1>1, HeadTailProperties

(***************************************************************************)
(* Types.                                                                  *)
(***************************************************************************)
\* The end of run() keeps the types of what it changes.
LEMMA LeaveType ==
  ASSUME TypeOK, NEW p \in Phone,
         NEW result \in {"passed", "failed", "malformed", "transport",
                         "snapshot", "cancelled"},
         Leave(p, result),
         core' \in [Phone -> State], paused' = paused,
         wire' \in [Phone -> Seq(Message)], messages' \in Seq(Message)
  PROVE  TypeOK'
  BY DEF TypeOK, Leave, Goto, Labels, progress

\* The initial values have their types.
LEMMA TypeInit == Init => TypeOK
<1> SUFFICES ASSUME Init PROVE TypeOK
  OBVIOUS
<1>1. (CHOOSE i \in Inputs : TRUE) \in Inputs
  BY InputsAssumption
<1>2. <<>> \in Digest /\ <<>> \in Seq(Message) /\ <<>> \in Seq(Pending)
  BY DEF Digest
<1>3. core \in [Phone -> State]
  <2>1. \A p \in Phone : <<p>> \in State /\ <<>> \in State
    BY DEF State, Effects
  <2>2. QED
    BY <2>1 DEF Init
<1>4. QED
  BY <1>1, <1>2, <1>3 DEF Init, TypeOK, Labels

\* A receive or a send that only moves a phone on keeps the types.
LEMMA TypeHandshake ==
  ASSUME TypeOK, NEW p \in Phone, NEW label \in Labels, NEW next \in Labels,
         NEW m
  PROVE  /\ Receives(p, label, next) /\ ~UsesInbox(p) => TypeOK'
         /\ m \in Message /\ Sends(p, label, m, next) => TypeOK'
<1>1. ASSUME Receives(p, label, next), ~UsesInbox(p) PROVE TypeOK'
  <2>1. wire[p] # <<>>
    BY <1>1 DEF Receives, Accepted, Offered
  <2>2. wire' \in [Phone -> Seq(Message)]
    BY <1>1, <2>1, TakeType DEF TypeOK, Receives
  <2>3. QED
    BY <1>1, <2>2 DEF TypeOK, Receives, Goto, progress, machine, inbox, control
<1>2. ASSUME m \in Message, Sends(p, label, m, next) PROVE TypeOK'
  <2>1. wire' \in [Phone -> Seq(Message)]
    BY <1>2, SendType DEF TypeOK, Sends
  <2>2. QED
    BY <1>2, <2>1 DEF TypeOK, Sends, Goto, progress, machine, inbox, control
<1>3. QED
  BY <1>1, <1>2

\* So do the steps both phones have in common, and their main threads.
LEMMA TypeBothPhones ==
  ASSUME TypeOK, NEW p \in Phone,
         \/ Activate(p) \/ Reject(p) \/ TransportError(p) \/ SnapshotFails(p)
         \/ AppLeaves(p) \/ CancelSession(p)
  PROVE  TypeOK'
<1>1. CASE Activate(p)
  <2>1. CASE Leave(p, "cancelled")
    BY <1>1, <2>1, LeaveType DEF Activate, TypeOK, machine
  <2>2. CASE ~Leave(p, "cancelled")
    BY <1>1, <2>2 DEF Activate, TypeOK, machine, Goto, Labels, progress, inbox
  <2>3. QED
    BY <2>1, <2>2
<1>2. CASE Reject(p)
  BY <1>2, LeaveType DEF Reject, TypeOK, machine
<1>3. CASE TransportError(p)
  BY <1>3, LeaveType DEF TransportError, TypeOK, machine
<1>4. CASE SnapshotFails(p)
  BY <1>4, LeaveType DEF SnapshotFails, TypeOK, machine
<1>5. CASE AppLeaves(p)
  BY <1>5 DEF AppLeaves, TypeOK, progress, inbox
<1>6. CASE CancelSession(p)
  BY <1>6 DEF CancelSession, TypeOK, progress, inbox, machine
<1>7. QED
  BY <1>1, <1>2, <1>3, <1>4, <1>5, <1>6

\* So do the steps of the controller's emulation thread, from the handshake to
\* finishController.
LEMMA TypeController ==
  ASSUME TypeOK, ControllerThread
  PROVE  TypeOK'
<1> DEFINE C == "controller"
<1>a. C \in Phone
  BY DEF Phone
<1>1. CASE ControllerHandshake
  <2>1. Hello(C) \in Message /\ Snapshot(core[C]) \in Message
    BY <1>a, MessageTypes DEF TypeOK
  <2>2. CASE Receives(C, "recvHello", "sendHello")
    <3>1. ~UsesInbox(C)
      BY <2>2 DEF Receives, UsesInbox
    <3>2. QED
      BY <1>a, <2>2, <3>1, TypeHandshake DEF Labels
  <2>3. CASE Sends(C, "sendHello", Hello(C), "sendSnapshot")
    BY <1>a, <2>1, <2>3, TypeHandshake DEF Labels
  <2>4. CASE Sends(C, "sendSnapshot", Snapshot(core[C]), "recvReady")
    BY <1>a, <2>1, <2>4, TypeHandshake DEF Labels
  <2>5. CASE Receives(C, "recvReady", "sendStart")
    <3>1. ~UsesInbox(C)
      BY <2>5 DEF Receives, UsesInbox
    <3>2. QED
      BY <1>a, <2>5, <3>1, TypeHandshake DEF Labels
  <2>6. QED
    BY <1>1, <2>2, <2>3, <2>4, <2>5 DEF ControllerHandshake
<1>2. CASE ControllerStarts
  <2>1. wire' \in [Phone -> Seq(Message)]
    BY <1>a, <1>2, MessageTypes, SendType DEF ControllerStarts, TypeOK
  <2>2. QED
    BY <1>a, <1>2, <2>1
    DEF ControllerStarts, TypeOK, Goto, Labels, progress, control
<1>3. CASE ControllerSendsInput
  <2>1. PICK i \in Inputs : /\ Send(C, Input(frame + 1, i))
                            /\ current' = [current EXCEPT ![C] = i]
    BY <1>3 DEF ControllerSendsInput
  <2>2. frame + 1 \in Nat
    BY DEF TypeOK
  <2>3. wire' \in [Phone -> Seq(Message)]
    BY <1>a, <2>1, <2>2, MessageTypes, SendType DEF TypeOK
  <2>4. current' \in [Phone -> Inputs]
    BY <2>1 DEF TypeOK
  <2>5. QED
    BY <1>a, <1>3, <2>2, <2>3, <2>4
    DEF ControllerSendsInput, TypeOK, Goto, Labels, machine, inbox, control
<1>4. CASE ControllerSteps
  <2>1. core' \in [Phone -> State]
    BY <1>a, <1>4, RunFrameType DEF ControllerSteps, TypeOK
  <2>2. DigestOf(C, frame, core'[C]) \in Digest
    BY <1>a, <2>1, DigestType DEF TypeOK
  <2>3. NeedsDigest(C, frame) \in BOOLEAN
    BY DEF NeedsDigest
  <2>4. pending' \in Seq(Pending)
    BY <1>4, <2>2, <2>3 DEF ControllerSteps, TypeOK, Pending
  <2>5. QED
    BY <1>a, <1>4, <2>1, <2>4
    DEF ControllerSteps, TypeOK, Goto, Labels, inbox, control
<1>5. CASE ControllerTakesAcknowledgement \/ ControllerVerifies
  <2>1. /\ UsesInbox(C) /\ messages # <<>>
        /\ Head(messages).type = "acknowledgement" /\ pending # <<>>
    BY <1>5 DEF ControllerTakesAcknowledgement, ControllerVerifies, UsesInbox,
                Accepted, Accepts, Offered
  <2>2. Head(messages) \in Message /\ Tail(messages) \in Seq(Message)
    BY <2>1, HeadTailProperties DEF TypeOK
  <2>3. Head(pending) \in Pending /\ Tail(pending) \in Seq(Pending)
    BY <2>1, HeadTailProperties DEF TypeOK
  <2>4. Head(messages).digest \in Digest /\ Head(pending).digest \in Digest
    BY <2>1, <2>2, <2>3, MessageFields DEF Pending
  <2>5. AfterAcknowledgement \in Labels
    BY <1>a DEF AfterAcknowledgement, TypeOK, Labels
  <2>6. CASE ControllerTakesAcknowledgement
    BY <1>a, <2>2, <2>3, <2>5, <2>6
    DEF ControllerTakesAcknowledgement, TypeOK, TakeFromInbox, Goto, machine,
        control
  <2>7. CASE ControllerVerifies
    <3>1. detail' \in {"missing", "matched", "mismatch"}
      BY <2>7 DEF ControllerVerifies, Comparison
    <3>2. pc' \in [Phone -> Labels]
      BY <1>a, <2>5, <2>7 DEF ControllerVerifies, Goto, TypeOK, Labels
    <3>3. /\ checkpoints' \in [Phone -> Nat]
          /\ lastDigest' \in [Phone -> Digest]
      BY <1>a, <2>4, <2>7 DEF ControllerVerifies, TypeOK
    <3>4. QED
      BY <2>2, <2>3, <2>7, <3>1, <3>2, <3>3
      DEF ControllerVerifies, TypeOK, TakeFromInbox, machine, control
  <2>8. QED
    BY <1>5, <2>6, <2>7
<1>6. CASE ControllerCompletes
  BY <1>a, <1>6
  DEF ControllerCompletes, TypeOK, Goto, Labels, progress, machine, inbox,
      control
<1>7. CASE ControllerSendsFinish
  <2>1. Success \in BOOLEAN /\ frame \in Nat
    BY DEF TypeOK, Success
  <2>2. Finish(frame, Success) \in Message
    BY <2>1, MessageTypes
  <2>3. QED
    BY <1>a, <1>7, <2>2, TypeHandshake DEF ControllerSendsFinish, Labels
<1>8. CASE ControllerReturns
  <2>1. messages # <<>>
    BY <1>8 DEF ControllerReturns, Accepted, Offered, UsesInbox
  <2>2. messages' \in Seq(Message)
    BY <1>8, <2>1, HeadTailProperties
    DEF ControllerReturns, TakeFromInbox, TypeOK
  <2>3. QED
    BY <1>a, <1>8, <2>2, LeaveType DEF ControllerReturns, TypeOK, machine
<1>9. QED
  BY <1>1, <1>2, <1>3, <1>4, <1>5, <1>6, <1>7, <1>8 DEF ControllerThread

\* So does the inbox's reader thread.
LEMMA TypeReader ==
  ASSUME TypeOK, Reader
  PROVE  TypeOK'
<1>1. CASE ReaderReceives
  <2>1. /\ wire' \in [Phone -> Seq(Message)]
        /\ Head(wire["controller"]) \in Message
    BY <1>1, TakeType DEF ReaderReceives, TypeOK, Phone
  <2>2. messages' \in Seq(Message)
    BY <1>1, <2>1 DEF ReaderReceives, Enqueued, TypeOK
  <2>3. QED
    BY <1>1, <2>1, <2>2
    DEF ReaderReceives, TypeOK, progress, machine, control
<1>2. CASE ReaderEnds
  BY <1>2 DEF ReaderEnds, TypeOK, progress, machine, control
<1>3. QED
  BY <1>1, <1>2 DEF Reader

\* So do the steps of the display's emulation thread.
LEMMA TypeDisplay ==
  ASSUME TypeOK, DisplayThread
  PROVE  TypeOK'
<1> DEFINE D == "display"
<1>a. D \in Phone
  BY DEF Phone
<1>b. ASSUME pc[D] \in {"recvHello", "recvSnapshot", "recvStart", "recvFrame"},
             Accepted(D)
      PROVE  ~UsesInbox(D) /\ wire[D] # <<>> /\ Head(wire[D]) \in Message
             /\ Accepts(D, Head(wire[D]))
  <2>1. ~UsesInbox(D) /\ wire[D] # <<>> /\ Accepts(D, Head(wire[D]))
    BY <1>b DEF UsesInbox, Accepted, Offered
  <2>2. QED
    BY <1>a, <2>1, HeadTailProperties DEF TypeOK
<1>c. ASSUME pc[D] \in {"recvHello", "recvSnapshot", "recvStart", "recvFrame"},
             Accepted(D), TakeFromWire(D)
      PROVE  wire' \in [Phone -> Seq(Message)]
  BY <1>a, <1>b, <1>c, TakeType DEF TypeOK
<1>1. CASE DisplayHandshake
  <2>1. Hello(D) \in Message /\ Signal("ready") \in Message
    BY <1>a, MessageTypes
  <2>2. CASE Receives(D, "recvHello", "recvSnapshot")
    BY <1>a, <1>b, <2>2, TypeHandshake DEF Labels, Receives
  <2>3. CASE Sends(D, "sendHello", Hello(D), "recvHello")
    BY <1>a, <2>1, <2>3, TypeHandshake DEF Labels
  <2>4. CASE Sends(D, "sendReady", Signal("ready"), "recvStart")
    BY <1>a, <2>1, <2>4, TypeHandshake DEF Labels
  <2>5. QED
    BY <1>1, <2>2, <2>3, <2>4 DEF DisplayHandshake
<1>2. CASE DisplayLoadsSnapshot
  <2>1. /\ wire' \in [Phone -> Seq(Message)]
        /\ Head(wire[D]).state \in State
    BY <1>b, <1>c, <1>2, MessageFields DEF DisplayLoadsSnapshot, Accepts
  <2>2. PICK loaded \in {Head(wire[D]).state}
           \cup {Append(Head(wire[D]).state, p) : p \in Faulty \cap {"display"}} :
           /\ core' = [core EXCEPT ![D] = loaded]
           /\ Goto(D, AfterLoading(loaded, Head(wire[D]).stateHash))
    BY <1>2 DEF DisplayLoadsSnapshot
  <2>3. loaded \in State
    <3>1. \A p \in Faulty \cap {"display"} : p \in Effects
      BY DEF Effects, Phone
    <3>2. \A p \in Effects : Append(Head(wire[D]).state, p) \in State
      BY <2>1 DEF State
    <3>3. QED
      BY <2>1, <2>2, <3>1, <3>2
  <2>4. core' \in [Phone -> State] /\ pc' \in [Phone -> Labels]
    BY <2>2, <2>3 DEF TypeOK, Goto, AfterLoading, Labels
  <2>5. QED
    BY <1>2, <2>1, <2>4
    DEF DisplayLoadsSnapshot, TypeOK, progress, inbox, control
<1>3. CASE DisplayReportsFailure
  <2>1. wire' \in [Phone -> Seq(Message)]
    BY <1>a, <1>3, MessageTypes, SendType DEF DisplayReportsFailure, TypeOK
  <2>2. QED
    BY <1>a, <1>3, <2>1, LeaveType DEF DisplayReportsFailure, TypeOK, machine
<1>4. CASE DisplayStarts
  BY <1>c, <1>4
  DEF DisplayStarts, TypeOK, Goto, Labels, progress, inbox, control
<1>5. CASE DisplayReceivesInput
  <2>1. /\ wire' \in [Phone -> Seq(Message)]
        /\ Head(wire[D]).input \in Inputs
    BY <1>b, <1>c, <1>5, MessageFields DEF DisplayReceivesInput
  <2>2. QED
    BY <1>5, <2>1
    DEF DisplayReceivesInput, TypeOK, Goto, Labels, machine, inbox, control
<1>6. CASE DisplaySteps
  <2>1. core' \in [Phone -> State]
    BY <1>a, <1>6, RunFrameType DEF DisplaySteps, TypeOK
  <2>2. framesCompleted + 1 \in Nat
    BY DEF TypeOK
  <2>3. DigestOf(D, framesCompleted + 1, core'[D]) \in Digest
    BY <1>a, <2>1, <2>2, DigestType
  <2>4. /\ lastDigest' \in [Phone -> Digest]
        /\ checkpoints' \in [Phone -> Nat]
    <3>1. CASE NeedsDigest(D, framesCompleted + 1)
      <4>1. /\ checkpoints' = [checkpoints EXCEPT ![D] = @ + 1]
            /\ lastDigest' = [lastDigest EXCEPT ![D] =
                 DigestOf(D, framesCompleted + 1, core'[D])]
        BY <1>6, <3>1 DEF DisplaySteps
      <4>2. QED
        BY <1>a, <2>3, <4>1 DEF TypeOK
    <3>2. CASE ~NeedsDigest(D, framesCompleted + 1)
      <4>1. UNCHANGED <<checkpoints, lastDigest>>
        BY <1>6, <3>2 DEF DisplaySteps
      <4>2. QED
        BY <4>1 DEF TypeOK
    <3>3. QED
      BY <3>1, <3>2
  <2>5. QED
    BY <1>6, <2>1, <2>2, <2>4
    DEF DisplaySteps, TypeOK, Goto, Labels, inbox, control
<1>7. CASE DisplayAcknowledges
  <2>1. (IF NeedsDigest(D, framesCompleted) THEN lastDigest[D] ELSE <<>>)
           \in Digest
    <3>1. <<>> \in Digest
      BY DEF Digest
    <3>2. QED
      BY <1>a, <3>1 DEF TypeOK
  <2>2. QED
    BY <1>a, <1>7, <2>1, MessageTypes, TypeHandshake
    DEF DisplayAcknowledges, TypeOK, Labels
<1>8. CASE DisplayReceivesFinish
  BY <1>c, <1>8
  DEF DisplayReceivesFinish, TypeOK, Goto, Labels, progress, machine, inbox,
      control
<1>9. CASE DisplayReturns
  <2>1. wire' \in [Phone -> Seq(Message)]
    BY <1>a, <1>9, MessageTypes, SendType DEF DisplayReturns, TypeOK
  <2>2. QED
    BY <1>a, <1>9, <2>1, LeaveType DEF DisplayReturns, TypeOK, machine
<1>10. QED
  BY <1>1, <1>2, <1>3, <1>4, <1>5, <1>6, <1>7, <1>8, <1>9 DEF DisplayThread

\* So does a failure of the network, which cuts what is in transit.
LEMMA TypeLink ==
  ASSUME TypeOK, LinkFails
  PROVE  TypeOK'
<1>1. PICK kept \in [Phone -> 0 .. Capacity] :
        /\ \A p \in Phone : kept[p] <= Len(wire[p])
        /\ wire' = [p \in Phone |-> SubSeq(wire[p], 1, kept[p])]
  BY DEF LinkFails
<1>2. ASSUME NEW p \in Phone PROVE SubSeq(wire[p], 1, kept[p]) \in Seq(Message)
  <2>1. kept[p] \in Nat /\ kept[p] <= Len(wire[p]) /\ wire[p] \in Seq(Message)
    BY <1>1, CapacityAssumption DEF TypeOK
  <2>2. QED
    BY <2>1, SubSeqProperties
<1>3. wire' \in [Phone -> Seq(Message)]
  BY <1>1, <1>2
<1>4. QED
  BY <1>3 DEF LinkFails, TypeOK, progress, machine, inbox, control

\* Every step keeps the types.
LEMMA TypeStep == TypeOK /\ [Next]_vars => TypeOK'
<1> SUFFICES ASSUME TypeOK, [Next]_vars PROVE TypeOK'
  OBVIOUS
<1>1. CASE UNCHANGED vars
  BY <1>1 DEF vars, TypeOK, progress, machine, inbox, control
<1>2. CASE Over
  BY <1>2 DEF Over, vars, TypeOK, progress, machine, inbox, control
<1>3. CASE LinkFails
  BY <1>3, TypeLink
<1>4. CASE Reader
  BY <1>4, TypeReader
<1>5. ASSUME NEW p \in Phone, EmulationThread(p) \/ MainThread(p)
      PROVE  TypeOK'
  BY <1>5, TypeBothPhones, TypeController, TypeDisplay
  DEF EmulationThread, MainThread
<1>6. QED
  BY <1>1, <1>2, <1>3, <1>4, <1>5 DEF Next

\* Every variable of the session keeps its type.
THEOREM TypeCorrect == Spec => []TypeOK
  BY TypeInit, TypeStep, PTL DEF Spec

(***************************************************************************)
(* The inductive invariant.                                                *)
(*                                                                         *)
(* LeadBounded is not inductive: how far the display is depends on which   *)
(* inputs may still reach it and which of its acknowledgements may still   *)
(* reach the controller.  Lead numbers them.  The barrier needs in         *)
(* addition what a checkpoint's acknowledgement says about the display's   *)
(* state: Barrier.                                                         *)
(***************************************************************************)
\* 1 while the controller has sent a frame's input and not yet run the frame.
Announced == IF pc["controller"] = "step" THEN 1 ELSE 0

\* The number of the last frame whose acknowledgement the controller took.
Acknowledged == frame - Announced - Len(pending)

\* An acknowledgement the display may have sent: of a frame it has run, and
\* with the digest of its present state if the frame is its last.
Sent(m) ==
  m.type = "acknowledgement" =>
    /\ 1 <= m.frame /\ m.frame <= framesCompleted
    /\ m.frame = framesCompleted /\ m.digest # <<>>
         => m.digest = <<[frame |-> m.frame, state |-> core["display"]]>>

AllSent(s) == \A i \in 1 .. Len(s) : Sent(s[i])

\* No input is ahead of the controller.
AllAnnounced(s) ==
  \A i \in 1 .. Len(s) : s[i].type = "input" => s[i].frame <= frame

\* The pending frames follow the acknowledged ones and fit in the window.
Numbered ==
  /\ \A i \in 1 .. Len(pending) : pending[i].frame = Acknowledged + i
  /\ Acknowledged <= framesCompleted
  /\ Len(pending) + Announced <= Window

\* What may be on the way to the display, on the way back, and pending.
Lead ==
  /\ AllAnnounced(wire["display"])
  /\ AllSent(wire["controller"]) /\ AllSent(messages)
  /\ framesCompleted <= frame
  /\ pc["display"] = "step" => framesCompleted + 1 <= frame
  /\ frame <= framesCompleted + Window
  /\ pc["controller"] # "over" => Numbered

BeforeStart ==
  {"activate", "sendHello", "recvHello", "sendSnapshot", "recvSnapshot",
   "recvReady", "sendReady", "sendFailure", "sendStart", "recvStart"}

\* Only the frame just run may need a digest, and then the controller drains.
Draining ==
  /\ \A i \in 1 .. Len(pending) : pending[i].needsDigest =>
       /\ i = Len(pending)
       /\ pc["controller"] \in {"drain", "over"}
       /\ pending[i].digest = <<[frame |-> frame, state |-> core["controller"]]>>
  /\ pc["controller"] = "drain" =>
       pending # <<>> /\ pending[Len(pending)].needsDigest

\* Out of the drain the controller comes with two equal states.
Barrier ==
  /\ pc["display"] \in BeforeStart => framesCompleted = 0
  /\ pc["controller"] \in BeforeStart => frame = 0
  /\ pc["display"] = "sendAck" => 1 <= framesCompleted
  /\ pc["display"] = "sendAck" /\ NeedsDigest("display", framesCompleted) =>
       lastDigest["display"] =
         <<[frame |-> framesCompleted, state |-> core["display"]]>>
  /\ pc["controller"] = "lockstep" /\ frame > 0 /\ NeedsDigest("controller", frame)
       => /\ pending = <<>>
          /\ framesCompleted = frame
          /\ core["controller"] = core["display"]

IInv == TypeOK /\ Lead /\ Draining /\ Barrier

(***************************************************************************)
(* Queues that grow at the end, lose their head, or lose their end.        *)
(***************************************************************************)
LEMMA SentQueues ==
  ASSUME NEW s \in Seq(Message), AllSent(s)
  PROVE  /\ \A m \in Message : Sent(m) => AllSent(Append(s, m))
         /\ s # <<>> => AllSent(Tail(s)) /\ Sent(Head(s))
         /\ \A k \in 0 .. Len(s) : AllSent(SubSeq(s, 1, k))
<1>1. ASSUME NEW m \in Message, Sent(m) PROVE AllSent(Append(s, m))
  BY <1>1, AppendProperties DEF AllSent
<1>2. ASSUME s # <<>> PROVE AllSent(Tail(s)) /\ Sent(Head(s))
  BY <1>2, HeadTailProperties DEF AllSent
<1>3. ASSUME NEW k \in 0 .. Len(s) PROVE AllSent(SubSeq(s, 1, k))
  BY <1>3, SubSeqProperties DEF AllSent
<1>4. QED
  BY <1>1, <1>2, <1>3

\* In a queue of announced inputs, sending, receiving and cutting keep every
\* input announced.
LEMMA AnnouncedQueues ==
  ASSUME NEW s \in Seq(Message), AllAnnounced(s)
  PROVE  /\ \A m \in Message : (m.type = "input" => m.frame <= frame)
                                 => AllAnnounced(Append(s, m))
         /\ s # <<>> => /\ AllAnnounced(Tail(s))
                        /\ Head(s).type = "input" => Head(s).frame <= frame
         /\ \A k \in 0 .. Len(s) : AllAnnounced(SubSeq(s, 1, k))
<1>1. ASSUME NEW m \in Message, m.type = "input" => m.frame <= frame
      PROVE  AllAnnounced(Append(s, m))
  BY <1>1, AppendProperties DEF AllAnnounced
<1>2. ASSUME s # <<>>
      PROVE  /\ AllAnnounced(Tail(s))
             /\ Head(s).type = "input" => Head(s).frame <= frame
  BY <1>2, HeadTailProperties DEF AllAnnounced
<1>3. ASSUME NEW k \in 0 .. Len(s) PROVE AllAnnounced(SubSeq(s, 1, k))
  BY <1>3, SubSeqProperties DEF AllAnnounced
<1>4. QED
  BY <1>1, <1>2, <1>3

(***************************************************************************)
(* Steps that leave every frame, acknowledgement and emulator where it is. *)
(***************************************************************************)
\* A step in which queues only get messages that keep the bounds, and program
\* counters move between places the invariant does not tell apart.
Unmoved ==
  /\ UNCHANGED <<frame, framesCompleted, pending, core, lastDigest>>
  /\ AllAnnounced(wire'["display"])
  /\ AllSent(wire'["controller"])
  /\ AllSent(messages')
  /\ pc'["display"] \in BeforeStart => pc["display"] \in BeforeStart
  /\ pc'["display"] \in {"step", "sendAck"} => pc'["display"] = pc["display"]
  /\ pc'["controller"] # pc["controller"] =>
       /\ pc["controller"] # "over"
       /\ pc["controller"] \in {"step", "drain"} => pc'["controller"] = "over"
       /\ pc'["controller"] \notin {"step", "drain"}
       /\ pc'["controller"] \in BeforeStart \cup {"lockstep"} =>
            pc["controller"] \in BeforeStart

\* A step that moves no frame, queue or comparison keeps the invariant.
LEMMA UnmovedKeeps ==
  ASSUME IInv, Unmoved
  PROVE  Lead' /\ Draining' /\ Barrier'
<1>1. /\ AllAnnounced(wire["display"])'
      /\ AllSent(wire["controller"])' /\ AllSent(messages)'
  BY DEF Unmoved, AllAnnounced, AllSent, Sent
<1>2. pc'["controller"] # "over" =>
        Announced' = Announced /\ Acknowledged' = Acknowledged
  BY DEF Unmoved, Announced, Acknowledged
<1>3. Lead'
  BY <1>1, <1>2 DEF IInv, Lead, Numbered, Unmoved
<1>4. Draining'
  BY DEF IInv, Draining, Unmoved
<1>5. Barrier'
  <2>1. NeedsDigest("controller", frame)' = NeedsDigest("controller", frame)
    BY DEF Unmoved, NeedsDigest
  <2>2. NeedsDigest("display", framesCompleted)'
          = NeedsDigest("display", framesCompleted)
    BY DEF Unmoved, NeedsDigest
  <2>3. QED
    BY <2>1, <2>2 DEF IInv, Barrier, Unmoved, BeforeStart
<1>6. QED
  BY <1>3, <1>4, <1>5

\* The end of run() moves nothing but the program counter.
LEMMA LeaveUnmoved ==
  ASSUME IInv, NEW p \in Phone, NEW result, Leave(p, result), core' = core,
         AllAnnounced(wire'["display"]), AllSent(wire'["controller"]),
         AllSent(messages'), p = "display" => pc[p] # "step"
  PROVE  Lead' /\ Draining' /\ Barrier'
<1>1. Unmoved
  BY DEF Unmoved, Leave, Goto, progress, IInv, TypeOK, Phone, BeforeStart
<1>2. QED
  BY <1>1, UnmovedKeeps

\* Steps common to both phones end a session or set a flag: neither adds a
\* frame or an acknowledgement.
LEMMA BothPhonesKeep ==
  ASSUME IInv, NEW p \in Phone,
         \/ Activate(p) \/ Reject(p) \/ TransportError(p) \/ SnapshotFails(p)
         \/ AppLeaves(p) \/ CancelSession(p)
  PROVE  Lead' /\ Draining' /\ Barrier'
<1>a. /\ AllAnnounced(wire["display"])
      /\ AllSent(wire["controller"]) /\ AllSent(messages)
  BY DEF IInv, Lead
<1>1. CASE Activate(p)
  <2>1. CASE Leave(p, "cancelled")
    BY <1>a, <1>1, <2>1, LeaveUnmoved DEF Activate, machine
  <2>2. CASE ~Leave(p, "cancelled")
    <3>1. Unmoved
      BY <1>a, <1>1, <2>2
      DEF Activate, Unmoved, Goto, progress, inbox, machine, IInv, TypeOK,
          Phone, BeforeStart
    <3>2. QED
      BY <3>1, UnmovedKeeps
  <2>3. QED
    BY <2>1, <2>2
<1>2. CASE Reject(p)
  BY <1>a, <1>2, LeaveUnmoved DEF Reject, Receiving, machine
<1>3. CASE TransportError(p)
  BY <1>a, <1>3, LeaveUnmoved DEF TransportError, Sending, Receiving, machine
<1>4. CASE SnapshotFails(p)
  BY <1>a, <1>4, LeaveUnmoved DEF SnapshotFails, machine
<1>5. CASE AppLeaves(p) \/ CancelSession(p)
  <2>1. Unmoved
    BY <1>a, <1>5
    DEF AppLeaves, CancelSession, Unmoved, progress, inbox, machine
  <2>2. QED
    BY <2>1, UnmovedKeeps
<1>6. QED
  BY <1>1, <1>2, <1>3, <1>4, <1>5

\* A send of anything but an input or an acknowledgement.
LEMMA SendKeeps ==
  ASSUME IInv, NEW p \in Phone, NEW m \in Message, Send(p, m),
         m.type \notin {"input", "acknowledgement"}
  PROVE  AllAnnounced(wire'["display"]) /\ AllSent(wire'["controller"])
<1>1. CASE broken
  BY <1>1 DEF Send, IInv, Lead
<1>2. CASE ~broken
  <2>1. Sent(m)
    BY DEF Sent
  <2>2. /\ AllAnnounced(Append(wire["display"], m))
        /\ AllSent(Append(wire["controller"], m))
    BY <2>1, SentQueues, AnnouncedQueues DEF IInv, TypeOK, Lead, Phone
  <2>3. \A q \in Phone : wire'[q] \in {wire[q], Append(wire[q], m)}
    BY <1>2 DEF Send, IInv, TypeOK
  <2>4. QED
    BY <2>2, <2>3 DEF IInv, Lead, Phone
<1>3. QED
  BY <1>1, <1>2

\* Taking a message off the connection.
LEMMA TakeKeeps ==
  ASSUME IInv, NEW p \in Phone, TakeFromWire(p), wire[p] # <<>>
  PROVE  /\ AllAnnounced(wire'["display"]) /\ AllSent(wire'["controller"])
         /\ p = "display" /\ Head(wire[p]).type = "input" =>
              Head(wire[p]).frame <= frame
         /\ p = "controller" => Sent(Head(wire[p]))
<1>1. /\ wire["display"] # <<>> =>
           /\ AllAnnounced(Tail(wire["display"]))
           /\ Head(wire["display"]).type = "input" =>
                Head(wire["display"]).frame <= frame
      /\ wire["controller"] # <<>> =>
           AllSent(Tail(wire["controller"])) /\ Sent(Head(wire["controller"]))
  BY SentQueues, AnnouncedQueues DEF IInv, TypeOK, Lead, Phone
<1>2. wire' = [wire EXCEPT ![p] = Tail(wire[p])]
  BY DEF TakeFromWire
<1>3. QED
  BY <1>1, <1>2 DEF IInv, TypeOK, Lead, Phone

\* A step of the handshake, or another send or receive that only moves on.
LEMMA MovesOnKeeps ==
  ASSUME IInv, NEW p \in Phone, NEW label, NEW next, NEW m,
         label \notin {"over", "step", "drain", "sendAck"},
         next \notin {"over", "step", "drain", "sendAck"},
         next \in BeforeStart \cup {"lockstep"} => label \in BeforeStart,
         \/ Receives(p, label, next) /\ label \in BeforeStart
         \/ /\ Sends(p, label, m, next) /\ m \in Message
            /\ m.type \notin {"input", "acknowledgement"}
  PROVE  Lead' /\ Draining' /\ Barrier'
<1>1. /\ AllAnnounced(wire'["display"]) /\ AllSent(wire'["controller"])
      /\ AllSent(messages')
  <2>1. CASE Receives(p, label, next) /\ label \in BeforeStart
    <3>1. wire[p] # <<>>
      BY <2>1 DEF Receives, Accepted, Offered, UsesInbox, BeforeStart
    <3>2. QED
      BY <2>1, <3>1, TakeKeeps DEF Receives, inbox, IInv, Lead
  <2>2. CASE Sends(p, label, m, next) /\ m \in Message
              /\ m.type \notin {"input", "acknowledgement"}
    BY <2>2, SendKeeps DEF Sends, inbox, IInv, Lead
  <2>3. QED
    BY <2>1, <2>2
<1>2. /\ pc[p] = label /\ pc' = [pc EXCEPT ![p] = next]
      /\ UNCHANGED <<progress, machine>>
  BY DEF Receives, Sends, Goto
<1>3. Unmoved
  BY <1>1, <1>2 DEF Unmoved, progress, machine, IInv, TypeOK, Phone, BeforeStart
<1>4. QED
  BY <1>3, UnmovedKeeps

\* A failing network only shortens the queues.
LEMMA LinkKeeps ==
  ASSUME IInv, LinkFails
  PROVE  Lead' /\ Draining' /\ Barrier'
<1>1. PICK kept \in [Phone -> 0 .. Capacity] :
        /\ \A p \in Phone : kept[p] <= Len(wire[p])
        /\ wire' = [p \in Phone |-> SubSeq(wire[p], 1, kept[p])]
  BY DEF LinkFails
<1>2. \A p \in Phone : kept[p] \in 0 .. Len(wire[p])
  BY <1>1, CapacityAssumption DEF IInv, TypeOK
<1>3. AllAnnounced(wire'["display"]) /\ AllSent(wire'["controller"])
  BY <1>1, <1>2, SentQueues, AnnouncedQueues DEF IInv, TypeOK, Lead, Phone
<1>4. Unmoved
  BY <1>3 DEF LinkFails, Unmoved, progress, machine, inbox, IInv, Lead
<1>5. QED
  BY <1>4, UnmovedKeeps

\* The reader moves an acknowledgement from one queue to the other, or drops it.
LEMMA ReaderKeeps ==
  ASSUME IInv, Reader
  PROVE  Lead' /\ Draining' /\ Barrier'
<1>1. CASE ReaderReceives
  <2>1. /\ AllAnnounced(wire'["display"]) /\ AllSent(wire'["controller"])
        /\ Sent(Head(wire["controller"]))
    BY <1>1, TakeKeeps DEF ReaderReceives, Phone
  <2>2. Head(wire["controller"]) \in Message
    BY <1>1, HeadTailProperties DEF ReaderReceives, IInv, TypeOK, Phone
  <2>3. AllSent(messages')
    BY <1>1, <2>1, <2>2, SentQueues
    DEF ReaderReceives, Enqueued, IInv, TypeOK, Lead
  <2>4. Unmoved
    BY <1>1, <2>1, <2>3 DEF ReaderReceives, Unmoved, progress, machine
  <2>5. QED
    BY <2>4, UnmovedKeeps
<1>2. CASE ReaderEnds
  <2>1. Unmoved
    BY <1>2 DEF ReaderEnds, Unmoved, progress, machine, IInv, Lead
  <2>2. QED
    BY <2>1, UnmovedKeeps
<1>3. QED
  BY <1>1, <1>2 DEF Reader

(***************************************************************************)
(* The controller.                                                         *)
(***************************************************************************)
LEMMA ControllerMovesOn ==
  ASSUME IInv,
         \/ ControllerHandshake \/ ControllerStarts \/ ControllerCompletes
         \/ ControllerSendsFinish \/ ControllerReturns
  PROVE  Lead' /\ Draining' /\ Barrier'
<1> DEFINE C == "controller"
<1>a. C \in Phone /\ TypeOK
  BY DEF Phone, IInv
<1>1. CASE ControllerHandshake
  <2>1. /\ Hello(C) \in Message /\ Hello(C).type = "hello"
        /\ Snapshot(core[C]) \in Message /\ Snapshot(core[C]).type = "snapshot"
    BY <1>a, MessageTypes DEF TypeOK, Hello, Snapshot
  <2>2. QED
    BY <1>a, <1>1, <2>1, MovesOnKeeps DEF ControllerHandshake, BeforeStart
<1>2. CASE ControllerStarts
  <2>1. Signal("start") \in Message /\ Signal("start").type = "start"
    BY <1>a, MessageTypes DEF Signal
  <2>2. AllAnnounced(wire'["display"]) /\ AllSent(wire'["controller"])
    BY <1>a, <1>2, <2>1, SendKeeps DEF ControllerStarts
  <2>3. Unmoved
    BY <1>2, <2>2
    DEF ControllerStarts, Goto, Unmoved, progress, IInv, TypeOK, Lead, Phone,
        BeforeStart
  <2>4. QED
    BY <2>3, UnmovedKeeps
<1>3. CASE ControllerCompletes
  <2>1. Unmoved
    BY <1>3
    DEF ControllerCompletes, Goto, Unmoved, progress, machine, inbox, IInv,
        TypeOK, Lead, Phone, BeforeStart
  <2>2. QED
    BY <2>1, UnmovedKeeps
<1>4. CASE ControllerSendsFinish
  <2>1. Success \in BOOLEAN /\ frame \in Nat
    BY <1>a DEF TypeOK, Success
  <2>2. /\ Finish(frame, Success) \in Message
        /\ Finish(frame, Success).type = "finish"
    BY <1>a, <2>1, MessageTypes DEF Finish
  <2>3. QED
    BY <1>a, <1>4, <2>2, MovesOnKeeps DEF ControllerSendsFinish, BeforeStart
<1>5. CASE ControllerReturns
  <2>1. messages # <<>> /\ pc[C] = "recvFinishAck"
    BY <1>5 DEF ControllerReturns, Accepted, Offered, UsesInbox
  <2>2. AllSent(messages')
    BY <1>5, <2>1, SentQueues
    DEF ControllerReturns, TakeFromInbox, IInv, TypeOK, Lead
  <2>3. QED
    BY <1>a, <1>5, <2>1, <2>2, LeaveUnmoved
    DEF ControllerReturns, machine, IInv, Lead
<1>6. QED
  BY <1>1, <1>2, <1>3, <1>4, <1>5

\* The next input keeps the lead in the window: one slot was free.
LEMMA ControllerSendsInputKeeps ==
  ASSUME IInv, ControllerSendsInput
  PROVE  Lead' /\ Draining' /\ Barrier'
<1> DEFINE C == "controller"
<1>a. /\ TypeOK /\ C \in Phone /\ frame \in Nat /\ frame + 1 \in Nat
      /\ Len(pending) \in Nat
  BY DEF Phone, IInv, TypeOK
<1>b. /\ pc[C] = "lockstep" /\ pc' = [pc EXCEPT ![C] = "step"]
      /\ frame' = frame + 1 /\ Len(pending) < Window
      /\ UNCHANGED <<pending, framesCompleted, core, lastDigest, messages>>
  BY <1>a, WindowAssumption
  DEF ControllerSendsInput, Goto, WindowFull, machine, inbox
<1>1. PICK i \in Inputs : Send(C, Input(frame + 1, i))
  BY DEF ControllerSendsInput
<1>2. Input(frame + 1, i) \in Message
  BY <1>a, MessageTypes
<1>3. wire' = wire \/ wire' = [wire EXCEPT !["display"] =
                                 Append(@, Input(frame + 1, i))]
  BY <1>1 DEF Send, Peer
<1>4. AllAnnounced(wire["display"])'
  <2>1. \A j \in 1 .. Len(wire["display"]) :
          wire["display"][j].type = "input" =>
            wire["display"][j].frame <= frame + 1
    <3>1. ASSUME NEW j \in 1 .. Len(wire["display"]),
                 wire["display"][j].type = "input"
          PROVE  wire["display"][j].frame <= frame + 1
      <4>1. wire["display"][j] \in Message
        BY <1>a, <3>1, ElementOfSeq DEF TypeOK, Phone
      <4>2. wire["display"][j].frame \in Nat
        BY <3>1, <4>1, MessageFields
      <4>3. wire["display"][j].frame <= frame
        BY <3>1 DEF IInv, Lead, AllAnnounced
      <4>4. QED
        BY <1>a, <4>2, <4>3
    <3>2. QED
      BY <3>1
  <2>2. CASE wire' = wire
    BY <1>b, <2>1, <2>2 DEF AllAnnounced
  <2>3. CASE wire' = [wire EXCEPT !["display"] =
                        Append(@, Input(frame + 1, i))]
    <3>1. wire'["display"] = Append(wire["display"], Input(frame + 1, i))
      BY <1>a, <2>3 DEF TypeOK, Phone
    <3>2. Input(frame + 1, i).frame = frame + 1
      BY DEF Input
    <3>3. wire["display"] \in Seq(Message)
      BY <1>a DEF TypeOK, Phone
    <3>4. QED
      BY <1>a, <1>b, <1>2, <2>1, <3>1, <3>2, <3>3, AppendProperties
      DEF AllAnnounced
  <2>4. QED
    BY <1>3, <2>2, <2>3
<1>5. AllSent(wire["controller"])' /\ AllSent(messages)'
  BY <1>a, <1>b, <1>3 DEF IInv, TypeOK, Lead, AllSent, Sent, Phone
<1>6. Announced = 0 /\ Announced' = 1 /\ Acknowledged' = Acknowledged
  BY <1>a, <1>b DEF Announced, Acknowledged, TypeOK
<1>7. Lead'
  <2>1. Numbered
    BY <1>b DEF IInv, Lead
  <2>2. Acknowledged = frame - Len(pending)
    BY <1>a, <1>6 DEF Acknowledged
  <2>3. framesCompleted \in Nat /\ framesCompleted' \in Nat /\ Window \in Nat
        /\ Len(pending) \in Nat /\ frame' \in Nat
    BY <1>a, <1>b, WindowAssumption DEF TypeOK
  <2>4. Numbered'
    BY <1>b, <1>6, <2>1, <2>3 DEF Numbered
  <2>5. framesCompleted' <= frame' /\ frame' <= framesCompleted' + Window
    BY <1>a, <1>b, <2>1, <2>2, <2>3 DEF IInv, Lead, Numbered
  <2>6. pc'["display"] = "step" => framesCompleted' + 1 <= frame'
    BY <1>a, <1>b, <2>3 DEF IInv, Lead, TypeOK
  <2>7. QED
    BY <1>4, <1>5, <2>4, <2>5, <2>6 DEF Lead
<1>8. Draining'
  BY <1>a, <1>b DEF IInv, TypeOK, Draining
<1>9. Barrier'
  <2>1. NeedsDigest("display", framesCompleted)'
          = NeedsDigest("display", framesCompleted)
    BY <1>b DEF NeedsDigest
  <2>2. QED
    BY <1>a, <1>b, <2>1 DEF IInv, TypeOK, Barrier, BeforeStart
<1>10. QED
  BY <1>7, <1>8, <1>9

\* The frame just run becomes the last pending one.
LEMMA ControllerStepsKeeps ==
  ASSUME IInv, ControllerSteps
  PROVE  Lead' /\ Draining' /\ Barrier'
<1> DEFINE C == "controller"
           needed == NeedsDigest(C, frame)
           entry == [frame |-> frame, needsDigest |-> needed,
                     digest |-> DigestOf(C, frame, core'[C])]
<1>a. TypeOK /\ C \in Phone /\ frame \in Nat /\ Len(pending) \in Nat
  BY DEF Phone, IInv, TypeOK
<1>b. /\ pc[C] = "step"
      /\ pc' = [pc EXCEPT ![C] = IF needed THEN "drain" ELSE "lockstep"]
      /\ pending' = Append(pending, entry)
      /\ UNCHANGED <<frame, framesCompleted, lastDigest, wire, messages>>
  BY DEF ControllerSteps, Goto, inbox
<1>1. core' \in [Phone -> State] /\ core'["display"] = core["display"]
  <2>1. core' \in [Phone -> State]
    BY <1>a, RunFrameType DEF ControllerSteps, TypeOK
  <2>2. QED
    BY <1>a, <2>1 DEF ControllerSteps, RunFrame, TypeOK, Phone
<1>2. entry \in Pending
  <2>1. DigestOf(C, frame, core'[C]) \in Digest
    BY <1>a, <1>1, DigestType
  <2>2. needed \in BOOLEAN
    BY DEF NeedsDigest
  <2>3. QED
    BY <1>a, <2>1, <2>2 DEF Pending
<1>3. /\ Len(pending') = Len(pending) + 1
      /\ \A i \in 1 .. Len(pending) : pending'[i] = pending[i]
      /\ pending'[Len(pending) + 1] = entry
      /\ pending' # <<>>
  BY <1>a, <1>b, <1>2, AppendProperties DEF TypeOK
<1>4. Announced = 1 /\ Announced' = 0 /\ Acknowledged' = Acknowledged
  BY <1>a, <1>b, <1>3 DEF Announced, Acknowledged, TypeOK
<1>5. Lead'
  <2>1. /\ AllAnnounced(wire["display"])'
        /\ AllSent(wire["controller"])' /\ AllSent(messages)'
    BY <1>b, <1>1 DEF IInv, Lead, AllAnnounced, AllSent, Sent
  <2>0. Numbered
    BY <1>b DEF IInv, Lead
  <2>2. \A i \in 1 .. Len(pending') : pending'[i].frame = Acknowledged' + i
    BY <1>a, <1>3, <1>4, <2>0 DEF Numbered, Acknowledged
  <2>3. QED
    BY <1>a, <1>b, <1>3, <1>4, <2>0, <2>1, <2>2, WindowAssumption
    DEF IInv, TypeOK, Lead, Numbered
<1>6. Draining'
  <2>1. \A i \in 1 .. Len(pending) : ~pending[i].needsDigest
    BY <1>b DEF IInv, Draining
  <2>2. needed => entry.digest = <<[frame |-> frame, state |-> core'[C]]>>
    BY DEF DigestOf
  <2>3. pc'[C] = IF needed THEN "drain" ELSE "lockstep"
    BY <1>a, <1>b DEF TypeOK
  <2>4. QED
    BY <1>a, <1>b, <1>3, <2>1, <2>2, <2>3 DEF Draining
<1>7. Barrier'
  <2>1. NeedsDigest(C, frame)' = needed /\
        NeedsDigest("display", framesCompleted)'
          = NeedsDigest("display", framesCompleted)
    BY <1>b DEF NeedsDigest
  <2>2. QED
    BY <1>a, <1>b, <1>1, <2>1 DEF IInv, TypeOK, Barrier, BeforeStart
<1>8. QED
  BY <1>5, <1>6, <1>7

\* What the controller knows of the acknowledgement it takes: it is for the
\* oldest pending frame, which the display has run.
LEMMA TakenAcknowledgement ==
  ASSUME IInv, ControllerTakesAcknowledgement \/ ControllerVerifies
  PROVE  /\ pc["controller"] \in {"lockstep", "drain"}
         /\ pc["controller"] = "lockstep" => WindowFull
         /\ pending # <<>> /\ Head(pending) = pending[1]
         /\ Len(pending) \in Nat /\ Len(pending) >= 1
         /\ Len(Tail(pending)) = Len(pending) - 1
         /\ Tail(pending) = <<>> <=> Len(pending) = 1
         /\ \A i \in 1 .. Len(pending) - 1 : Tail(pending)[i] = pending[i + 1]
         /\ Head(messages) \in Message
         /\ Head(messages).type = "acknowledgement"
         /\ Head(messages).frame = pending[1].frame
         /\ Sent(Head(messages)) /\ AllSent(Tail(messages))
<1>1. /\ pc["controller"] \in {"lockstep", "drain"}
      /\ pc["controller"] = "lockstep" => WindowFull
      /\ messages # <<>> /\ pending # <<>>
      /\ Head(messages).type = "acknowledgement"
      /\ Head(messages).frame = Head(pending).frame
  BY DEF ControllerTakesAcknowledgement, ControllerVerifies, Receiving,
         Accepted, Accepts, Offered, UsesInbox
<1>2. /\ Head(pending) = pending[1] /\ Len(pending) \in Nat /\ Len(pending) >= 1
      /\ Len(Tail(pending)) = Len(pending) - 1
      /\ \A i \in 1 .. Len(pending) - 1 : Tail(pending)[i] = pending[i + 1]
  <2>1. pending \in Seq(Pending)
    BY DEF IInv, TypeOK
  <2>2. QED
    BY <1>1, <2>1, HeadTailProperties
<1>4. Tail(pending) = <<>> <=> Len(pending) = 1
  <2>1. pending \in Seq(Pending) /\ Tail(pending) \in Seq(Pending)
    BY <1>1, HeadTailProperties DEF IInv, TypeOK
  <2>2. Tail(pending) = <<>> <=> Len(Tail(pending)) = 0
    BY <2>1, EmptySeq
  <2>3. QED
    BY <1>2, <2>2
<1>3. Head(messages) \in Message /\ Sent(Head(messages))
      /\ AllSent(Tail(messages))
  BY <1>1, SentQueues, HeadTailProperties DEF IInv, TypeOK, Lead
<1>5. QED
  BY <1>1, <1>2, <1>3, <1>4

\* Taking an acknowledgement shortens the pending frames from the front.
LEMMA TakingKeepsLead ==
  ASSUME IInv, ControllerTakesAcknowledgement \/ ControllerVerifies
  PROVE  /\ Lead'
         /\ pending' = Tail(pending)
         /\ UNCHANGED <<frame, framesCompleted, core>>
         /\ pc'["display"] = pc["display"]
         /\ lastDigest'["display"] = lastDigest["display"]
<1>1. /\ pending' = Tail(pending) /\ messages' = Tail(messages)
      /\ UNCHANGED <<frame, framesCompleted, core, wire>>
      /\ pc'["display"] = pc["display"]
      /\ lastDigest'["display"] = lastDigest["display"]
  BY DEF ControllerTakesAcknowledgement, ControllerVerifies, TakeFromInbox,
         machine, Goto, IInv, TypeOK, Phone
<1>2. pc'["controller"] \in {"lockstep", "drain", "sendFinish"}
  BY TakenAcknowledgement
  DEF ControllerTakesAcknowledgement, ControllerVerifies, Goto,
      AfterAcknowledgement, IInv, TypeOK, Phone
<1>3. /\ Announced = 0 /\ Announced' = 0
      /\ Acknowledged = frame - Len(pending)
      /\ Acknowledged' = frame - (Len(pending) - 1)
  <2>1. Announced = 0 /\ Announced' = 0
    BY <1>2, TakenAcknowledgement DEF Announced
  <2>2. frame \in Nat /\ frame' = frame /\ Len(pending') = Len(pending) - 1
    BY <1>1, TakenAcknowledgement DEF IInv, TypeOK
  <2>3. QED
    BY <2>1, <2>2, TakenAcknowledgement DEF Acknowledged
<1>4. Acknowledged + 1 <= framesCompleted
  BY TakenAcknowledgement DEF IInv, Lead, Numbered, Sent
<1>5. /\ AllAnnounced(wire["display"])' /\ AllSent(wire["controller"])'
      /\ AllSent(messages)'
  BY <1>1, TakenAcknowledgement DEF IInv, Lead, AllAnnounced, AllSent, Sent
<1>6. \A i \in 1 .. Len(pending') : pending'[i].frame = Acknowledged' + i
  <2>1. ASSUME NEW i \in 1 .. Len(pending) - 1
        PROVE  Tail(pending)[i].frame = Acknowledged' + i
    <3>1. i + 1 \in 1 .. Len(pending)
      BY TakenAcknowledgement
    <3>2. pending[i + 1].frame = Acknowledged + (i + 1)
      BY <3>1, TakenAcknowledgement DEF IInv, Lead, Numbered
    <3>3. QED
      BY <1>3, <3>2, TakenAcknowledgement DEF IInv, TypeOK
  <2>2. QED
    BY <1>1, <2>1, TakenAcknowledgement
<1>7. /\ Acknowledged' <= framesCompleted'
      /\ Len(pending') + Announced' <= Window
  <2>1. frame \in Nat /\ framesCompleted \in Nat /\ Window \in Nat
    BY WindowAssumption DEF IInv, TypeOK
  <2>2. Len(pending) <= Window
    BY <1>3, TakenAcknowledgement DEF IInv, Lead, Numbered
  <2>3. QED
    BY <1>1, <1>3, <1>4, <2>1, <2>2, TakenAcknowledgement
<1>8. Lead'
  BY <1>1, <1>5, <1>6, <1>7 DEF IInv, Lead, Numbered
<1>9. QED
  BY <1>1, <1>8

\* An acknowledgement without a comparison frees a place in the window; a drain
\* ends only when no frame is pending.
LEMMA ControllerTakesKeeps ==
  ASSUME IInv, ControllerTakesAcknowledgement
  PROVE  Lead' /\ Draining' /\ Barrier'
<1> DEFINE C == "controller"
<1>1. /\ Lead' /\ pending' = Tail(pending)
      /\ UNCHANGED <<frame, framesCompleted, core, lastDigest>>
      /\ pc'["display"] = pc["display"]
      /\ pc'[C] = AfterAcknowledgement
      /\ ~pending[1].needsDigest
  BY TakingKeepsLead, TakenAcknowledgement
  DEF ControllerTakesAcknowledgement, Goto, IInv, TypeOK, Phone
<1>2. CASE pc[C] = "drain"
  <2>1. pending[Len(pending)].needsDigest /\ Len(pending) > 1
    BY <1>1, <1>2, TakenAcknowledgement DEF IInv, Draining
  <2>2. Tail(pending) # <<>> /\ pc'[C] = "drain"
    BY <1>1, <1>2, <2>1, TakenAcknowledgement DEF AfterAcknowledgement
  <2>3. \A i \in 1 .. Len(pending') : pending'[i].needsDigest =>
          /\ i = Len(pending')
          /\ pending'[i].digest = <<[frame |-> frame, state |-> core[C]]>>
    <3>1. ASSUME NEW i \in 1 .. Len(pending) - 1, pending[i + 1].needsDigest
          PROVE  /\ i = Len(pending) - 1
                 /\ pending[i + 1].digest
                      = <<[frame |-> frame, state |-> core[C]]>>
      <4>1. i + 1 \in 1 .. Len(pending)
        BY TakenAcknowledgement
      <4>2. QED
        BY <3>1, <4>1, TakenAcknowledgement DEF IInv, Draining
    <3>2. QED
      BY <1>1, <3>1, TakenAcknowledgement
  <2>4. pending'[Len(pending')] = pending[Len(pending)]
    BY <1>1, <2>1, TakenAcknowledgement
  <2>5. Draining'
    BY <1>1, <2>1, <2>2, <2>3, <2>4 DEF Draining
  <2>6. Barrier'
    BY <1>1, <2>2 DEF IInv, Barrier, BeforeStart, NeedsDigest
  <2>7. QED
    BY <1>1, <2>5, <2>6
<1>3. CASE pc[C] = "lockstep"
  <2>1. pc'[C] = "lockstep"
    BY <1>1, <1>3 DEF AfterAcknowledgement
  <2>2. \A i \in 1 .. Len(pending) : ~pending[i].needsDigest
    BY <1>3 DEF IInv, Draining
  <2>3. Draining'
    BY <1>1, <2>1, <2>2, TakenAcknowledgement DEF Draining
  <2>4. ~(frame > 0 /\ NeedsDigest(C, frame))
    BY <1>3, TakenAcknowledgement DEF IInv, Barrier
  <2>5. NeedsDigest(C, frame)' = NeedsDigest(C, frame)
    BY <1>1 DEF NeedsDigest
  <2>6. NeedsDigest("display", framesCompleted)'
          = NeedsDigest("display", framesCompleted)
    BY <1>1 DEF NeedsDigest
  <2>7. Barrier'
    BY <1>1, <2>1, <2>4, <2>5, <2>6 DEF IInv, Barrier, BeforeStart
  <2>8. QED
    BY <1>1, <2>3, <2>7
<1>4. QED
  BY <1>2, <1>3, TakenAcknowledgement

\* A comparison that succeeds shows the two emulators in the same state.
LEMMA ControllerVerifiesKeeps ==
  ASSUME IInv, ControllerVerifies
  PROVE  Lead' /\ Draining' /\ Barrier'
<1> DEFINE C == "controller"
<1>1. /\ Lead' /\ pending' = Tail(pending)
      /\ UNCHANGED <<frame, framesCompleted, core>>
      /\ pc'["display"] = pc["display"]
      /\ lastDigest'["display"] = lastDigest["display"]
      /\ pc'[C] = IF detail' = "matched" THEN AfterAcknowledgement
                  ELSE "sendFinish"
      /\ detail' = Comparison(pending[1].digest, Head(messages).digest)
      /\ pending[1].needsDigest
  BY TakingKeepsLead, TakenAcknowledgement
  DEF ControllerVerifies, Goto, IInv, TypeOK, Phone
<1>2. /\ Len(pending) = 1 /\ pc[C] = "drain"
      /\ pending[1].digest = <<[frame |-> frame, state |-> core[C]]>>
  <2>1. 1 \in 1 .. Len(pending)
    BY TakenAcknowledgement
  <2>2. QED
    BY <1>1, <2>1, TakenAcknowledgement DEF IInv, Draining
<1>3. pending' = <<>> /\ pc'[C] \in {"lockstep", "sendFinish"}
  <2>1. Tail(pending) = <<>>
    BY <1>2, TakenAcknowledgement
  <2>2. QED
    BY <1>1, <1>2, <2>1 DEF AfterAcknowledgement
<1>4. framesCompleted = frame /\ pending[1].frame = frame
  <2>1. Acknowledged = frame - 1 /\ 1 \in 1 .. Len(pending)
    BY <1>2 DEF Acknowledged, Announced, IInv, TypeOK
  <2>2. pending[1].frame = frame
    BY <1>2, <2>1 DEF IInv, Lead, Numbered, TypeOK
  <2>3. QED
    BY <2>2, TakenAcknowledgement DEF IInv, Lead, Sent, TypeOK
<1>5. detail' = "matched" => core[C] = core["display"]
  <2>1. ASSUME detail' = "matched" PROVE core[C] = core["display"]
    <3>1. /\ Head(messages).digest # <<>>
          /\ Head(messages).digest = <<[frame |-> frame, state |-> core[C]]>>
      BY <1>1, <1>2, <2>1 DEF Comparison
    <3>2. Head(messages).frame = framesCompleted
      BY <1>4, TakenAcknowledgement
    <3>3. Head(messages).digest
            = <<[frame |-> framesCompleted, state |-> core["display"]]>>
      BY <3>1, <3>2, TakenAcknowledgement DEF Sent
    <3>4. QED
      BY <3>1, <3>3
  <2>2. QED
    BY <2>1
<1>6. Draining'
  BY <1>3 DEF Draining
<1>7. Barrier'
  <2>1. NeedsDigest("display", framesCompleted)'
          = NeedsDigest("display", framesCompleted)
    BY <1>1 DEF NeedsDigest
  <2>2. QED
    BY <1>1, <1>3, <1>4, <1>5, <2>1 DEF IInv, Barrier, BeforeStart
<1>8. QED
  BY <1>1, <1>6, <1>7

\* Every step of the controller's emulation thread keeps the invariant.
LEMMA ControllerKeeps ==
  ASSUME IInv, ControllerThread
  PROVE  Lead' /\ Draining' /\ Barrier'
  BY ControllerMovesOn, ControllerSendsInputKeeps, ControllerStepsKeeps,
     ControllerTakesKeeps, ControllerVerifiesKeeps
  DEF ControllerThread

(***************************************************************************)
(* The display.                                                            *)
(***************************************************************************)
LEMMA DisplayMovesOn ==
  ASSUME IInv,
         \/ DisplayHandshake \/ DisplayReportsFailure \/ DisplayStarts
         \/ DisplayReceivesFinish \/ DisplayReturns
  PROVE  Lead' /\ Draining' /\ Barrier'
<1> DEFINE D == "display"
<1>a. D \in Phone /\ TypeOK
  BY DEF Phone, IInv
<1>b. /\ AllSent(messages) /\ AllSent(wire["controller"])
      /\ AllAnnounced(wire[D])
  BY DEF IInv, Lead
<1>c. Signal("ready") \in Message /\ Signal("failure") \in Message
      /\ Signal("finishAcknowledgement") \in Message
      /\ \A t : Signal(t).type = t
  BY <1>a, MessageTypes DEF Signal
<1>1. CASE DisplayHandshake
  <2>1. Hello(D) \in Message /\ Hello(D).type = "hello"
    BY <1>a, MessageTypes DEF Hello
  <2>2. QED
    BY <1>a, <1>c, <1>1, <2>1, MovesOnKeeps DEF DisplayHandshake, BeforeStart
<1>2. CASE DisplayReportsFailure
  <2>1. AllAnnounced(wire'[D]) /\ AllSent(wire'["controller"])
    BY <1>a, <1>c, <1>2, SendKeeps DEF DisplayReportsFailure
  <2>2. QED
    BY <1>a, <1>b, <1>2, <2>1, LeaveUnmoved DEF DisplayReportsFailure, machine
<1>3. CASE DisplayStarts \/ DisplayReceivesFinish
  <2>1. wire[D] # <<>> /\ TakeFromWire(D)
    BY <1>3 DEF DisplayStarts, DisplayReceivesFinish, Accepted, Offered, UsesInbox
  <2>2. AllAnnounced(wire'[D]) /\ AllSent(wire'["controller"])
    BY <1>a, <2>1, TakeKeeps
  <2>3. Unmoved
    BY <1>a, <1>b, <1>3, <2>2
    DEF DisplayStarts, DisplayReceivesFinish, Goto, Unmoved, progress, machine,
        inbox, TypeOK, Phone, BeforeStart
  <2>4. QED
    BY <2>3, UnmovedKeeps
<1>4. CASE DisplayReturns
  <2>1. AllAnnounced(wire'[D]) /\ AllSent(wire'["controller"])
    BY <1>a, <1>c, <1>4, SendKeeps DEF DisplayReturns
  <2>2. QED
    BY <1>a, <1>b, <1>4, <2>1, LeaveUnmoved DEF DisplayReturns, machine
<1>5. QED
  BY <1>1, <1>2, <1>3, <1>4

\* The snapshot is loaded before the first frame.
LEMMA DisplayLoadsKeeps ==
  ASSUME IInv, DisplayLoadsSnapshot
  PROVE  Lead' /\ Draining' /\ Barrier'
<1> DEFINE D == "display"
<1>a. D \in Phone /\ TypeOK
  BY DEF Phone, IInv
<1>1. /\ pc[D] = "recvSnapshot" /\ wire[D] # <<>> /\ TakeFromWire(D)
      /\ pc'["controller"] = pc["controller"]
      /\ pc'[D] \in {"sendReady", "sendFailure"}
      /\ core'["controller"] = core["controller"]
      /\ UNCHANGED <<frame, framesCompleted, pending, lastDigest, messages>>
  BY <1>a
  DEF DisplayLoadsSnapshot, Accepted, Offered, UsesInbox, Goto, AfterLoading,
      progress, inbox, TypeOK, Phone
<1>2. framesCompleted = 0
  BY <1>1 DEF IInv, Barrier, BeforeStart
<1>3. AllAnnounced(wire'[D]) /\ AllSent(wire'["controller"])
  BY <1>a, <1>1, TakeKeeps
<1>4. /\ AllAnnounced(wire[D])'
      /\ AllSent(wire["controller"])' /\ AllSent(messages)'
  <2>1. \A m \in Message : Sent(m) => Sent(m)'
    <3>1. ASSUME NEW m \in Message, Sent(m), m.type = "acknowledgement"
          PROVE  FALSE
      <4>1. m.frame \in Nat
        BY <3>1, MessageFields
      <4>2. QED
        BY <1>2, <3>1, <4>1 DEF Sent
    <3>2. QED
      BY <3>1 DEF Sent
  <2>2. /\ wire'["controller"] \in Seq(Message) /\ messages' \in Seq(Message)
        /\ \A i \in 1 .. Len(wire'["controller"]) :
             wire'["controller"][i] \in Message
        /\ \A i \in 1 .. Len(messages') : messages'[i] \in Message
    <3>1. wire' \in [Phone -> Seq(Message)] /\ messages' \in Seq(Message)
      BY <1>a, <1>1, TakeType DEF TypeOK
    <3>2. QED
      BY <3>1, ElementOfSeq DEF Phone
  <2>3. AllSent(messages')
    BY <1>1 DEF IInv, Lead
  <2>4. QED
    BY <1>1, <1>3, <2>1, <2>2, <2>3 DEF AllSent, AllAnnounced
<1>5. Lead'
  BY <1>1, <1>4 DEF IInv, Lead, Numbered, Announced, Acknowledged
<1>6. Draining'
  BY <1>1 DEF IInv, Draining
<1>7. Barrier'
  BY <1>1, <1>2, <1>a DEF IInv, TypeOK, Lead, Barrier, BeforeStart, NeedsDigest
<1>8. QED
  BY <1>5, <1>6, <1>7

\* An input taken off the connection is one the controller has announced.
LEMMA DisplayReceivesInputKeeps ==
  ASSUME IInv, DisplayReceivesInput
  PROVE  Lead' /\ Draining' /\ Barrier'
<1> DEFINE D == "display"
<1>a. D \in Phone /\ TypeOK
  BY DEF Phone, IInv
<1>1. /\ pc[D] = "recvFrame" /\ wire[D] # <<>> /\ TakeFromWire(D)
      /\ Head(wire[D]).type = "input"
      /\ Head(wire[D]).frame = framesCompleted + 1
      /\ pc' = [pc EXCEPT ![D] = "step"]
      /\ UNCHANGED <<frame, framesCompleted, pending, lastDigest, messages, core>>
  BY DEF DisplayReceivesInput, Accepted, Accepts, Offered, UsesInbox, Goto,
         inbox, machine
<1>2. /\ AllAnnounced(wire'[D]) /\ AllSent(wire'["controller"])
      /\ framesCompleted + 1 <= frame
  BY <1>a, <1>1, TakeKeeps
<1>3. /\ AllAnnounced(wire[D])'
      /\ AllSent(wire["controller"])' /\ AllSent(messages)'
  BY <1>1, <1>2 DEF IInv, Lead, AllAnnounced, AllSent, Sent
<1>4. pc'[D] = "step" /\ pc'["controller"] = pc["controller"]
  BY <1>a, <1>1 DEF TypeOK, Phone
<1>5. Lead'
  BY <1>1, <1>2, <1>3, <1>4 DEF IInv, Lead, Numbered, Announced, Acknowledged
<1>6. Draining'
  BY <1>1, <1>4 DEF IInv, Draining
<1>7. Barrier'
  BY <1>1, <1>4 DEF IInv, Barrier, BeforeStart, NeedsDigest
<1>8. QED
  BY <1>5, <1>6, <1>7

\* The display's own frame: earlier acknowledgements are no longer of its last
\* frame, and behind a barrier it does not step.
LEMMA DisplayStepsKeeps ==
  ASSUME IInv, DisplaySteps
  PROVE  Lead' /\ Draining' /\ Barrier'
<1> DEFINE D == "display"
<1>a. D \in Phone /\ TypeOK
  BY DEF Phone, IInv
<1>1. /\ pc[D] = "step" /\ pc'[D] = "sendAck"
      /\ pc'["controller"] = pc["controller"]
      /\ framesCompleted' = framesCompleted + 1
      /\ UNCHANGED <<frame, pending, wire, messages>>
  BY <1>a DEF DisplaySteps, Goto, inbox, TypeOK, Phone
<1>2. core'["controller"] = core["controller"]
  BY <1>a DEF DisplaySteps, RunFrame, TypeOK, Phone
<1>3. framesCompleted + 1 <= frame /\ frame \in Nat /\ framesCompleted \in Nat
  BY <1>1 DEF IInv, Lead, TypeOK
<1>4. NeedsDigest(D, framesCompleted') =>
        lastDigest'[D] = <<[frame |-> framesCompleted', state |-> core'[D]]>>
  <2>1. ASSUME NeedsDigest(D, framesCompleted + 1)
        PROVE  lastDigest'[D] =
                 <<[frame |-> framesCompleted + 1, state |-> core'[D]]>>
    <3>1. lastDigest' = [lastDigest EXCEPT ![D] =
                           DigestOf(D, framesCompleted + 1, core'[D])]
      BY <2>1 DEF DisplaySteps
    <3>2. QED
      BY <1>a, <2>1, <3>1 DEF DigestOf, TypeOK
  <2>2. QED
    BY <1>1, <2>1
<1>5. /\ AllAnnounced(wire[D])'
      /\ AllSent(wire["controller"])' /\ AllSent(messages)'
  <2>1. \A m \in Message : Sent(m) => Sent(m)'
    <3>1. ASSUME NEW m \in Message, Sent(m), m.type = "acknowledgement"
          PROVE  Sent(m)'
      <4>1. m.frame \in Nat
        BY <3>1, MessageFields
      <4>2. QED
        BY <1>1, <1>3, <3>1, <4>1 DEF Sent
    <3>2. QED
      BY <3>1 DEF Sent
  <2>2. /\ \A i \in 1 .. Len(wire["controller"]) :
             wire["controller"][i] \in Message
        /\ \A i \in 1 .. Len(messages) : messages[i] \in Message
    BY <1>a, ElementOfSeq DEF TypeOK, Phone
  <2>3. QED
    BY <1>1, <2>1, <2>2 DEF IInv, Lead, AllSent, AllAnnounced
<1>6. Lead'
  <2>1. Announced' = Announced /\ Acknowledged' = Acknowledged
    BY <1>1 DEF Announced, Acknowledged
  <2>2. Acknowledged \in Int
    BY <1>3 DEF Acknowledged, Announced, IInv, TypeOK
  <2>3. pc["controller"] # "over" => Numbered'
    BY <1>1, <1>3, <2>1, <2>2 DEF IInv, Lead, Numbered
  <2>4. Window \in Nat
    BY WindowAssumption
  <2>5. QED
    BY <1>1, <1>3, <1>5, <2>3, <2>4 DEF IInv, Lead
<1>7. Draining'
  BY <1>1, <1>2 DEF IInv, Draining
<1>8. Barrier'
  <2>1. ~(pc["controller"] = "lockstep" /\ frame > 0
            /\ NeedsDigest("controller", frame))
    BY <1>3 DEF IInv, Barrier
  <2>2. NeedsDigest("controller", frame)' = NeedsDigest("controller", frame)
        /\ NeedsDigest(D, framesCompleted)' = NeedsDigest(D, framesCompleted')
    BY <1>1 DEF NeedsDigest
  <2>3. QED
    BY <1>1, <1>3, <1>4, <2>1, <2>2 DEF IInv, Barrier, BeforeStart
<1>9. QED
  BY <1>6, <1>7, <1>8

\* An acknowledgement is sent with the digest of the present state.
LEMMA DisplayAcknowledgesKeeps ==
  ASSUME IInv, DisplayAcknowledges
  PROVE  Lead' /\ Draining' /\ Barrier'
<1> DEFINE D == "display"
           digest == IF NeedsDigest(D, framesCompleted) THEN lastDigest[D]
                     ELSE <<>>
           m == Acknowledge(framesCompleted, digest)
<1>a. D \in Phone /\ "controller" \in Phone /\ TypeOK
  BY DEF Phone, IInv
<1>1. /\ pc[D] = "sendAck" /\ Send(D, m)
      /\ pc' = [pc EXCEPT ![D] = "recvFrame"]
      /\ UNCHANGED <<frame, framesCompleted, pending, core, lastDigest, messages>>
  BY DEF DisplayAcknowledges, Sends, Goto, progress, machine, inbox
<1>2. m \in Message /\ Sent(m) /\ m.type = "acknowledgement"
  <2>1. digest \in Digest
    <3>1. <<>> \in Digest
      BY DEF Digest
    <3>2. QED
      BY <1>a, <3>1 DEF TypeOK
  <2>2. m \in Message
    BY <1>a, <2>1, MessageTypes DEF TypeOK
  <2>3. /\ m.type = "acknowledgement" /\ m.frame = framesCompleted
        /\ m.digest = digest
    BY DEF Acknowledge
  <2>4. 1 <= framesCompleted /\ framesCompleted <= framesCompleted
    BY <1>a, <1>1 DEF IInv, Barrier, TypeOK
  <2>5. digest # <<>> =>
          digest = <<[frame |-> framesCompleted, state |-> core[D]]>>
    BY <1>1 DEF IInv, Barrier
  <2>6. QED
    BY <2>2, <2>3, <2>4, <2>5 DEF Sent
<1>3. AllAnnounced(wire'[D]) /\ AllSent(wire'["controller"])
  <2>1. wire' = wire \/ wire' = [wire EXCEPT !["controller"] = Append(@, m)]
    BY <1>1 DEF Send, Peer
  <2>2. AllSent(Append(wire["controller"], m))
    BY <1>a, <1>2, SentQueues DEF IInv, TypeOK, Lead
  <2>3. QED
    BY <1>a, <2>1, <2>2 DEF IInv, TypeOK, Lead, Phone
<1>4. Unmoved
  BY <1>a, <1>1, <1>3 DEF Unmoved, IInv, TypeOK, Lead, Phone, BeforeStart
<1>5. QED
  BY <1>4, UnmovedKeeps

\* Every step of the display's emulation thread keeps the invariant.
LEMMA DisplayKeeps ==
  ASSUME IInv, DisplayThread
  PROVE  Lead' /\ Draining' /\ Barrier'
  BY DisplayMovesOn, DisplayLoadsKeeps, DisplayReceivesInputKeeps,
     DisplayStepsKeeps, DisplayAcknowledgesKeeps
  DEF DisplayThread

(***************************************************************************)
(* The theorems.                                                           *)
(***************************************************************************)
LEMMA InvInit == Init => IInv
<1> SUFFICES ASSUME Init PROVE IInv
  OBVIOUS
<1>1. TypeOK
  BY TypeInit
<1>2. Lead /\ Draining /\ Barrier
  BY WindowAssumption
  DEF Init, Lead, Numbered, Draining, Barrier, AllAnnounced, AllSent, Announced,
      Acknowledged, Phone, BeforeStart
<1>3. QED
  BY <1>1, <1>2 DEF IInv

\* Every step of every thread and of the network keeps the invariant.
LEMMA InvStep == IInv /\ [Next]_vars => IInv'
<1> SUFFICES ASSUME IInv, [Next]_vars PROVE IInv'
  OBVIOUS
<1>1. TypeOK'
  BY TypeStep DEF IInv
<1>2. Lead' /\ Draining' /\ Barrier'
  <2>1. CASE UNCHANGED vars \/ Over
    <3>1. Unmoved
      BY <2>1
      DEF Over, vars, progress, machine, inbox, control, Unmoved, IInv, Lead
    <3>2. QED
      BY <3>1, UnmovedKeeps
  <2>2. CASE LinkFails \/ Reader
    BY <2>2, LinkKeeps, ReaderKeeps
  <2>3. ASSUME NEW p \in Phone, EmulationThread(p) \/ MainThread(p)
        PROVE  Lead' /\ Draining' /\ Barrier'
    BY <2>3, BothPhonesKeep, ControllerKeeps, DisplayKeeps
    DEF EmulationThread, MainThread
  <2>4. QED
    BY <2>1, <2>2, <2>3 DEF Next
<1>3. QED
  BY <1>1, <1>2 DEF IInv

\* Types, numbering, draining and barriers hold in every state of every session.
THEOREM Invariance == Spec => []IInv
  BY InvInit, InvStep, PTL DEF Spec

\* The bound on the lead is part of the invariant.
LEMMA LeadFollows == IInv => LeadBounded
<1> SUFFICES ASSUME IInv PROVE LeadBounded
  OBVIOUS
<1>1. frame \in Nat /\ framesCompleted \in Nat /\ Window \in Nat
  BY WindowAssumption DEF IInv, TypeOK
<1>2. framesCompleted <= frame /\ frame <= framesCompleted + Window
  BY DEF IInv, Lead
<1>3. QED
  BY <1>1, <1>2 DEF LeadBounded

\* For every window, the controller's lead over the display is at most the
\* window, and the display never runs a frame the controller has not sent.
THEOREM LeadIsBounded == Spec => []LeadBounded
  BY Invariance, LeadFollows, PTL

\* Only ControllerSendsInput begins a frame, and it does so out of the loop.
LEMMA FrameBegins ==
  ASSUME IInv, [Next]_vars, frame' # frame
  PROVE  pc["controller"] = "lockstep"
<1>1. ControllerSendsInput
  BY DEF Next, vars, EmulationThread, MainThread, Reader, ReaderReceives,
         ReaderEnds, LinkFails, Over, Activate, Reject, TransportError,
         SnapshotFails, Leave, AppLeaves, CancelSession, progress,
         ControllerThread, ControllerHandshake, Receives, Sends,
         ControllerStarts, ControllerSteps, ControllerTakesAcknowledgement,
         ControllerVerifies, ControllerCompletes, ControllerSendsFinish,
         ControllerReturns, DisplayThread, DisplayHandshake,
         DisplayLoadsSnapshot, DisplayReportsFailure, DisplayStarts,
         DisplayReceivesInput, DisplaySteps, DisplayAcknowledges,
         DisplayReceivesFinish, DisplayReturns
<1>2. QED
  BY <1>1 DEF ControllerSendsInput

\* For every checkpoint interval, no input is sent past a checkpoint before the
\* display has run the frame and both emulators are in the same state.
THEOREM CheckpointsAreBarriers == Spec => CheckpointBarrier
<1>1. IInv /\ [Next]_vars
        => [frame' # frame /\ frame > 0 /\ NeedsDigest("controller", frame)
              => /\ framesCompleted = frame
                 /\ core["controller"] = core["display"]]_vars
  BY FrameBegins DEF IInv, Barrier
<1>2. QED
  BY Invariance, <1>1, PTL DEF Spec, CheckpointBarrier
=============================================================================
