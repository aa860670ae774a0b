----------------------- MODULE LockstepProgress_proofs -----------------------
(***************************************************************************)
(* Proofs that a session gets on, for every window, checkpoint interval,   *)
(* frame limit, buffer size and set of faults: the threads never all wait, *)
(* every step uses up work, and a session in which nothing fails reports   *)
(* nothing but a passed proof.                                             *)
(***************************************************************************)
EXTENDS LockstepVerdict_proofs, LockstepProgress

(***************************************************************************)
(* Nobody is stuck.                                                        *)
(*                                                                         *)
(* That the phones do not wait for each other while both run follows from  *)
(* the numbers of the messages (JInv).  That no thread waits for one that  *)
(* has ended needs in addition that every end leaves a trace: Signalled.   *)
(***************************************************************************)
\* The reader thread has been started.
AfterStart == {"lockstep", "step", "drain", "sendFinish", "recvFinishAck"}

\* The connection is of no more use.
Gone == broken \/ GivesUp \/ \E p \in Phone : closed[p]

\* The end of a run closes its transport, and the end of the reader thread is
\* to be seen in the inbox, which is stopped only with the end of a run.
Signalled ==
  /\ \A p \in Phone : pc[p] = "over" => closed[p]
  /\ pc["controller"] \in AfterStart => reading \/ terminalError \/ isStopped
  /\ terminalError => Gone
  /\ isStopped /\ pc["controller"] # "over" => pc["display"] = "over"

\* What only ever happens once, and how.
LEMMA EndsAreKept ==
  ASSUME TypeOK, Places, [Next]_vars
  PROVE  /\ \A p \in Phone : closed[p] => closed'[p]
         /\ broken => broken'
         /\ terminalError => terminalError'
         /\ isStopped => isStopped'
         /\ \A p \in Phone : pc'[p] = "over" => pc[p] = "over" \/ closed'[p]
         /\ reading => reading' \/ terminalError' \/ isStopped'
         /\ pc'["controller"] \in AfterStart => pc["controller"] \in AfterStart \/ reading'
         /\ terminalError' => terminalError \/ Gone
         /\ isStopped' /\ ~isStopped =>
              \/ pc'["controller"] = "over"
              \/ /\ wire["controller"] # <<>>
                 /\ Head(wire["controller"]).type = "finishAcknowledgement"
                 /\ ReaderReceives
<1> DEFINE C == "controller"
           Good ==
             /\ \A p \in Phone : closed[p] => closed'[p]
             /\ broken => broken'
             /\ terminalError => terminalError'
             /\ isStopped => isStopped'
             /\ \A p \in Phone : pc'[p] = "over" => pc[p] = "over" \/ closed'[p]
             /\ reading => reading' \/ terminalError' \/ isStopped'
             /\ pc'[C] \in AfterStart => pc[C] \in AfterStart \/ reading'
             /\ terminalError' => terminalError \/ Gone
             /\ isStopped' /\ ~isStopped =>
                  \/ pc'[C] = "over"
                  \/ /\ wire[C] # <<>>
                     /\ Head(wire[C]).type = "finishAcknowledgement"
                     /\ ReaderReceives
<1>a. C \in Phone /\ "display" \in Phone /\ C # "display"
  BY DEF Phone
<1>1. ASSUME NEW p \in Phone, NEW r, Leave(p, r) PROVE Good
  <2>1. /\ pc' = [pc EXCEPT ![p] = "over"]
        /\ closed' = [closed EXCEPT ![p] = TRUE]
        /\ isStopped' = (isStopped \/ p = C)
        /\ UNCHANGED <<broken, terminalError, reading>>
    BY <1>1 DEF Leave, Goto
  <2>2. /\ \A q \in Phone : q # p => pc'[q] = pc[q] /\ closed'[q] = closed[q]
        /\ pc'[p] = "over" /\ closed'[p]
    BY <2>1 DEF TypeOK
  <2> QED
    BY <1>a, <2>1, <2>2 DEF AfterStart
\* Steps of the emulation threads that go on.
<1>2. ASSUME NEW p \in Phone, NEW l \in Labels, l # "over", pc' = [pc EXCEPT ![p] = l],
             p = C /\ l \in AfterStart => pc[C] \in AfterStart \/ reading',
             UNCHANGED <<closed, broken, terminalError, isStopped>>,
             reading' = (reading \/ reading')
      PROVE  Good
  <2>1. /\ \A q \in Phone : q # p => pc'[q] = pc[q]
        /\ pc'[p] = l
    BY <1>2 DEF TypeOK
  <2> QED
    BY <1>a, <1>2, <2>1
<1>3. ASSUME UNCHANGED <<pc, broken, terminalError, isStopped, reading>>,
             \A p \in Phone : closed[p] => closed'[p]
      PROVE  Good
  BY <1>3
<1>4. ASSUME ControllerThread, ~ControllerReturns PROVE Good
  <2>1. CASE ControllerStarts
    <3>1. /\ UNCHANGED <<closed, broken, terminalError, isStopped>>
          /\ reading' = TRUE /\ pc' = [pc EXCEPT ![C] = "lockstep"]
      BY <2>1 DEF ControllerStarts, Goto
    <3> HIDE DEF Good
    <3> QED
      BY <1>a, <1>2, <3>1 DEF Labels
  <2>2. CASE ~ControllerStarts
    <3>1. /\ UNCHANGED <<closed, broken, terminalError, isStopped, reading>>
          /\ \E l \in Labels :
               /\ l # "over" /\ pc' = [pc EXCEPT ![C] = l]
               /\ l \in AfterStart => pc[C] \in AfterStart
      BY <1>4, <2>2
      DEF ControllerThread, ControllerHandshake, Receives, Sends,
          ControllerSendsInput, ControllerSteps, ControllerTakesAcknowledgement,
          ControllerVerifies, ControllerCompletes, ControllerSendsFinish, Goto,
          AfterAcknowledgement, Labels, AfterStart, inbox
    <3>2. reading \in BOOLEAN
      BY DEF TypeOK
    <3> HIDE DEF Good
    <3>3. reading' = (reading \/ reading')
      BY <3>1, <3>2
    <3> QED
      BY <1>a, <1>2, <3>1, <3>3
  <2> QED
    BY <2>1, <2>2
<1>5. ASSUME DisplayThread, ~DisplayReturns, ~DisplayReportsFailure PROVE Good
  <2>1. /\ UNCHANGED <<closed, broken, terminalError, isStopped, reading>>
        /\ \E l \in Labels : l # "over" /\ pc' = [pc EXCEPT !["display"] = l]
    BY <1>5
    DEF DisplayThread, DisplayHandshake, Receives, Sends, DisplayLoadsSnapshot,
        DisplayStarts, DisplayReceivesInput, DisplaySteps, DisplayAcknowledges,
        DisplayReceivesFinish, Goto, AfterLoading, Labels, inbox
  <2>2. reading \in BOOLEAN
    BY DEF TypeOK
  <2> HIDE DEF Good
  <2>3. reading' = (reading \/ reading')
    BY <2>1, <2>2
  <2> QED
    BY <1>a, <1>2, <2>1, <2>3
<1>6. ASSUME NEW p \in Phone,
             Activate(p) \/ Reject(p) \/ TransportError(p) \/ SnapshotFails(p)
      PROVE  Good
  <2>1. CASE \E r : Leave(p, r)
    BY <1>1, <2>1
  <2>2. CASE ~ \E r : Leave(p, r)
    <3>1. /\ UNCHANGED <<closed, broken, terminalError, isStopped, reading>>
          /\ \E l \in {"recvHello", "sendHello"} : pc' = [pc EXCEPT ![p] = l]
      BY <1>6, <2>2 DEF Activate, Reject, TransportError, SnapshotFails, Goto, inbox
    <3>2. reading \in BOOLEAN /\ {"recvHello", "sendHello"} \subseteq Labels
      BY DEF TypeOK, Labels
    <3> HIDE DEF Good
    <3>3. reading' = (reading \/ reading')
      BY <3>1, <3>2
    <3> QED
      BY <1>2, <3>1, <3>2, <3>3 DEF AfterStart
  <2> QED
    BY <2>1, <2>2
<1>7. ASSUME NEW p \in Phone, MainThread(p) PROVE Good
  <2>1. UNCHANGED <<pc, broken, terminalError, isStopped, reading>>
    BY <1>7 DEF MainThread, AppLeaves, CancelSession, inbox
  <2>2. closed' = closed \/ closed' = [closed EXCEPT ![p] = @ \/ active[p]]
    BY <1>7 DEF MainThread, AppLeaves, CancelSession
  <2>3. \A q \in Phone : closed[q] => closed'[q]
    BY <2>2 DEF TypeOK
  <2> QED
    BY <1>3, <2>1, <2>3
<1>8. ASSUME LinkFails \/ Over \/ UNCHANGED vars PROVE Good
  BY <1>8 DEF LinkFails, Over, vars, inbox
<1>9. ASSUME ReaderReceives PROVE Good
  <2>1. /\ UNCHANGED <<pc, closed, broken, terminalError>> /\ ~isStopped /\ reading
        /\ wire[C] # <<>>
        /\ isStopped' = (Head(wire[C]).type = "finishAcknowledgement")
        /\ reading' = ~(Head(wire[C]).type = "finishAcknowledgement")
    BY <1>9 DEF ReaderReceives
  <2> QED
    BY <1>9, <2>1
<1>10. ASSUME ReaderEnds PROVE Good
  <2>1. /\ UNCHANGED <<pc, closed, broken, isStopped>>
        /\ terminalError' = (terminalError \/ ~isStopped)
        /\ isStopped \/ ReceiveFails(C)
    BY <1>10 DEF ReaderEnds
  <2>2. ReceiveFails(C) => Gone
    BY <1>a DEF ReceiveFails, Gone, Peer
  <2> QED
    BY <2>1, <2>2
<1>11. Good
  <2> HIDE DEF Good
  <2>1. (ControllerReturns \/ DisplayReturns \/ DisplayReportsFailure) => Good
    BY <1>a, <1>1 DEF ControllerReturns, DisplayReturns, DisplayReportsFailure
  <2> QED
    BY <1>4, <1>5, <1>6, <1>7, <1>8, <1>9, <1>10, <2>1
    DEF Next, EmulationThread, Reader
<1> QED
  BY <1>11

LEMMA SignalledInit == Init => Signalled
BY DEF Init, Signalled, AfterStart, Phone

LEMMA SignalledKept ==
  ASSUME JInv, Signalled, [Next]_vars, StepEffects
  PROVE  Signalled'
<1> DEFINE C == "controller"
           D == "display"
<1>a. TypeOK /\ Places /\ C \in Phone /\ D \in Phone
  BY DEF JInv, IInv, Phone
<1>1. \A p \in Phone : pc'[p] = "over" => closed'[p]
  BY <1>a, EndsAreKept DEF Signalled
<1>2. pc'[C] \in AfterStart => reading' \/ terminalError' \/ isStopped'
  BY <1>a, EndsAreKept DEF Signalled
<1>3. terminalError' => Gone'
  <2>1. Gone => Gone'
    BY <1>a, EndsAreKept DEF Gone
  <2> QED
    BY <1>a, <2>1, EndsAreKept DEF Signalled
<1>4. ASSUME isStopped', pc'[C] # "over" PROVE pc'[D] = "over"
  <2>1. pc[D] = "over" => pc'[D] = "over"
    BY <1>a DEF StepEffects
  <2>2. pc[C] # "over"
    BY <1>a, <1>4 DEF StepEffects
  <2>3. CASE isStopped
    BY <2>1, <2>2, <2>3 DEF Signalled
  <2>4. CASE ~isStopped
    <3>1. wire[C] # <<>> /\ Head(wire[C]).type = "finishAcknowledgement"
      BY <1>4, <1>a, <2>4, EndsAreKept
    <3>2. PICK n \in Int : n = ControllerTook + Len(messages)
                           /\ AllBack(wire[C], n) /\ wire[C] \in Seq(Message)
      BY <2>2, ReturningFacts DEF JInv
    <3>3. Back(n + 1, Head(wire[C]))
      BY <3>1, <3>2, BackTaken
    <3> QED
      BY <2>1, <3>1, <3>3 DEF Back
  <2> QED
    BY <2>3, <2>4
<1> QED
  BY <1>1, <1>2, <1>3, <1>4 DEF Signalled

\* Where the controller may wait, and what it has sent and taken there.
LEMMA ControllerWaits ==
  ASSUME JInv, Waits("controller")
  PROVE  /\ pc["controller"] # "over"
         /\ pending \in Seq(Pending) /\ frame \in Nat
         /\ pc["controller"] \in BeforeStart => frame = 0 /\ messages = <<>>
         /\ \/ /\ pc["controller"] \in {"sendHello", "sendSnapshot", "sendStart",
                                        "lockstep", "sendFinish"}
               /\ Len(wire["display"]) >= 1 /\ ~broken
            \/ /\ pc["controller"] \in {"recvHello", "recvReady"}
               /\ wire["controller"] = <<>> /\ ~broken
            \/ /\ pc["controller"] \in {"lockstep", "drain", "recvFinishAck"}
               /\ messages = <<>> /\ ~terminalError /\ ~isStopped
               /\ pc["controller"] # "recvFinishAck" => pending # <<>>
<1> DEFINE C == "controller"
<1>a. TypeOK /\ Places /\ C \in Phone /\ Peer(C) = "display"
  BY DEF JInv, IInv, Phone, Peer
<1>b. pending \in Seq(Pending) /\ frame \in Nat
  BY <1>a DEF TypeOK
<1>c. pc[C] \in BeforeStart => frame = 0 /\ messages = <<>>
  BY DEF JInv, IInv, Barrier, Counted
<1>1. CASE Sending(C) /\ ~SendFails(C) /\ Len(wire[Peer(C)]) >= Capacity
  <2>1. Len(wire["display"]) >= 1 /\ ~broken
    <3>1. Len(wire["display"]) \in Nat
      BY <1>a DEF TypeOK, Phone
    <3> QED
      BY <1>a, <1>1, <3>1, CapacityAssumption DEF SendFails
  <2>2. pc[C] \in {"sendHello", "sendSnapshot", "sendStart", "lockstep", "sendFinish"}
    BY <1>a, <1>1 DEF Sending, Places
  <2> QED
    BY <1>b, <1>c, <2>1, <2>2
<1>2. CASE Receiving(C) /\ Offered(C) = <<>> /\ ~UsesInbox(C) /\ ~ReceiveFails(C)
  <2>1. pc[C] \in {"recvHello", "recvReady"}
    BY <1>a, <1>2 DEF Receiving, UsesInbox, Places
  <2>2. wire[C] = <<>> /\ ~broken
    BY <1>2 DEF Offered, ReceiveFails
  <2> QED
    BY <1>b, <1>c, <2>1, <2>2
<1>3. CASE /\ Receiving(C) /\ Offered(C) = <<>> /\ UsesInbox(C)
           /\ ~terminalError /\ ~isStopped
  <2>1. messages = <<>>
    BY <1>3 DEF Offered
  <2>2. pc[C] # "recvFinishAck" => pending # <<>>
    <3>1. CASE pc[C] = "drain"
      BY <3>1 DEF JInv, IInv, Draining
    <3>2. CASE pc[C] = "lockstep"
      BY <1>3, <1>b, <3>2, WindowAssumption, EmptySeq DEF Receiving, WindowFull
    <3> QED
      BY <1>3, <3>1, <3>2 DEF UsesInbox
  <2> QED
    BY <1>3, <1>b, <1>c, <2>1, <2>2 DEF UsesInbox
<1> QED
  BY <1>1, <1>2, <1>3 DEF Waits

LEMMA DisplayWaits ==
  ASSUME JInv, Waits("display")
  PROVE  /\ pc["display"] # "over" /\ ~broken /\ framesCompleted \in Nat
         /\ \/ /\ pc["display"] \in {"sendHello", "sendReady", "sendFailure", "sendAck",
                                     "sendPassed", "sendFailed"}
               /\ Len(wire["controller"]) >= 1
            \/ /\ pc["display"] \in {"recvHello", "recvSnapshot", "recvStart", "recvFrame"}
               /\ wire["display"] = <<>>
<1> DEFINE D == "display"
<1>a. TypeOK /\ Places /\ D \in Phone /\ Peer(D) = "controller" /\ framesCompleted \in Nat
  BY DEF JInv, IInv, Phone, Peer, TypeOK
<1>b. ~UsesInbox(D)
  BY <1>a DEF UsesInbox, Places, BeforeReady
<1>1. CASE Sending(D) /\ ~SendFails(D) /\ Len(wire[Peer(D)]) >= Capacity
  <2>1. Len(wire["controller"]) >= 1 /\ ~broken
    <3>1. Len(wire["controller"]) \in Nat
      BY <1>a DEF TypeOK, Phone
    <3> QED
      BY <1>a, <1>1, <3>1, CapacityAssumption DEF SendFails
  <2>2. pc[D] \in {"sendHello", "sendReady", "sendFailure", "sendAck", "sendPassed",
                   "sendFailed"}
    BY <1>a, <1>1 DEF Sending, Places, BeforeReady
  <2> QED
    BY <1>a, <2>1, <2>2
<1>2. CASE Receiving(D) /\ Offered(D) = <<>> /\ ~ReceiveFails(D)
  <2>1. pc[D] \in {"recvHello", "recvSnapshot", "recvStart", "recvFrame"}
    BY <1>a, <1>2 DEF Receiving, Places, BeforeReady
  <2>2. wire[D] = <<>> /\ ~broken
    BY <1>b, <1>2 DEF Offered, ReceiveFails
  <2> QED
    BY <1>a, <2>1, <2>2
<1> QED
  BY <1>b, <1>1, <1>2 DEF Waits

\* While both phones run, they do not wait for each other: the numbers of the
\* messages on their way do not let them.
LEMMA BothDoNotWait ==
  ASSUME JInv, Waits("controller"), Waits("display"), reading => ReaderWaits,
         pc["controller"] \in AfterStart => reading \/ terminalError \/ isStopped,
         terminalError => Gone, ~isStopped
  PROVE  FALSE
<1> DEFINE C == "controller"
           D == "display"
<1>a. /\ TypeOK /\ Places /\ C \in Phone /\ D \in Phone
      /\ wire[D] \in Seq(Message) /\ wire[C] \in Seq(Message) /\ messages \in Seq(Message)
      /\ framesCompleted \in Nat /\ frame \in Nat /\ pending \in Seq(Pending)
  BY DEF JInv, IInv, Phone, TypeOK
<1>b. pc[C] # "over" /\ pc[D] # "over" /\ ~broken
  BY ControllerWaits, DisplayWaits
<1>c. /\ DisplayTook + Len(wire[D]) = ControllerSent
      /\ ControllerTook + Len(messages) + Len(wire[C]) = DisplaySent
  BY <1>b DEF JInv, Arriving, Returning
<1>d. /\ Len(wire[D]) \in Nat /\ Len(wire[C]) \in Nat /\ Len(messages) \in Nat
      /\ Len(pending) \in Nat
  BY <1>a
<1>e. /\ wire[D] = <<>> => Len(wire[D]) = 0
      /\ wire[C] = <<>> => Len(wire[C]) = 0
      /\ messages = <<>> => Len(messages) = 0
      /\ pending # <<>> => Len(pending) >= 1
  BY <1>a, EmptySeq
<1>f. framesCompleted <= frame
  BY DEF JInv, IInv, Lead
\* The reader thread waits, and so the connection to the controller is empty.
<1>1. ASSUME pc[C] \in AfterStart PROVE Len(wire[C]) = 0
  <2>1. ~Gone
    BY <1>a DEF Waits, SendFails, Gone, Peer, Phone, ReceiveFails, Offered, UsesInbox,
                Receiving, Places, BeforeReady
  <2> QED
    BY <1>1, <1>e, <2>1 DEF ReaderWaits
<1>2. CASE pc[C] \in {"sendHello", "sendSnapshot", "sendStart"} /\ Len(wire[D]) >= 1
  <2>1. Len(wire[C]) >= 1 /\ pc[D] \in {"sendHello", "sendReady", "sendFailure", "sendAck",
                                        "sendPassed", "sendFailed"}
    BY <1>2, <1>e, DisplayWaits
  <2>2. /\ ControllerSent = (IF pc[C] = "sendHello" THEN 0
                             ELSE IF pc[C] = "sendSnapshot" THEN 1 ELSE 2)
        /\ frame = 0
        /\ messages = <<>>
    BY <1>2, ControllerWaits DEF ControllerSent, BeforeStart
  <2>3. pc[D] = "sendHello"
    <3>1. ControllerSent <= 2 /\ DisplayTook \in Nat /\ ControllerSent \in Nat
      BY <1>a, <1>2, <2>2, CountTypes
    <3>2. DisplayTook <= 1
      BY <1>c, <1>d, <1>2, <3>1
    <3> QED
      BY <1>a, <2>1, <3>2 DEF DisplayTook
  <2>4. ControllerTook >= 1
    <3>1. pc[C] = "sendStart" => ControllerTook = 2
      BY <1>a, <2>2 DEF ControllerTook, Acknowledged, Announced, JInv, Counted, BeforeStart
    <3> QED
      BY <1>2, <3>1 DEF ControllerTook
  <2> QED
    BY <1>c, <1>d, <1>e, <2>1, <2>2, <2>3, <2>4, CountTypes, <1>a DEF DisplaySent
<1>3. CASE pc[C] \in {"lockstep", "sendFinish"} /\ Len(wire[D]) >= 1
  BY <1>1, <1>3, <1>e, DisplayWaits DEF AfterStart
<1>4. CASE pc[C] \in {"recvHello", "recvReady"} /\ wire[C] = <<>>
  <2>1. wire[D] = <<>>
    BY <1>4, <1>e, DisplayWaits
  <2>2. /\ ControllerSent = (IF pc[C] = "recvHello" THEN 0 ELSE 2)
        /\ ControllerTook = (IF pc[C] = "recvHello" THEN 0 ELSE 1)
        /\ messages = <<>>
    BY <1>4, ControllerWaits DEF ControllerSent, ControllerTook, BeforeStart
  <2>3. DisplayTook = ControllerSent /\ DisplaySent = ControllerTook
    BY <1>c, <1>d, <1>e, <1>4, <2>1, <2>2, CountTypes, <1>a
  <2> QED
    BY <1>a, <1>4, <1>e, <2>1, <2>2, <2>3, DisplayWaits DEF DisplayTook, DisplaySent
<1>5. CASE /\ pc[C] \in {"lockstep", "drain", "recvFinishAck"}
           /\ messages = <<>>
           /\ pc[C] # "recvFinishAck" => pending # <<>>
  <2>1. Len(wire[C]) = 0
    BY <1>1, <1>5 DEF AfterStart
  <2>2. wire[D] = <<>> /\ pc[D] \in {"recvHello", "recvSnapshot", "recvStart", "recvFrame"}
    BY <2>1, DisplayWaits
  <2>3. DisplayTook = ControllerSent /\ DisplaySent = ControllerTook
    BY <1>c, <1>d, <1>e, <1>5, <2>1, <2>2, CountTypes, <1>a
  <2>4. ControllerSent >= 3 + frame
    BY <1>a, <1>5 DEF ControllerSent
  <2>5. pc[D] = "recvFrame" /\ framesCompleted >= frame
    BY <1>a, <2>2, <2>3, <2>4 DEF DisplayTook
  <2>6. pc[C] # "recvFinishAck"
    BY <1>a, <1>f, <2>3, <2>5 DEF DisplayTook, ControllerSent
  <2>7. Len(pending) = 0
    BY <1>a, <1>d, <1>f, <1>5, <2>3, <2>5, <2>6
    DEF DisplaySent, ControllerTook, Acknowledged, Announced
  <2> QED
    BY <1>e, <1>5, <2>6, <2>7
<1> QED
  BY <1>2, <1>3, <1>4, <1>5, ControllerWaits

\* A phone whose peer has ended does not wait, or the reader thread goes on.
LEMMA OneDoesNotWait ==
  ASSUME JInv, Signalled, NEW p \in Phone, Waits(p), pc[Peer(p)] = "over"
  PROVE  reading /\ ~ReaderWaits
<1>a. TypeOK /\ Places /\ Peer(p) \in Phone
  BY DEF JInv, IInv, Phone, Peer
<1>1. closed[Peer(p)]
  BY <1>a DEF Signalled
<1>2. UsesInbox(p) /\ ~terminalError /\ ~isStopped
  BY <1>1 DEF Waits, SendFails, ReceiveFails, Offered
<1>3. p = "controller" /\ pc[p] \in AfterStart
  BY <1>a, <1>2 DEF UsesInbox, Places, BeforeReady, AfterStart, Phone
<1> QED
  BY <1>1, <1>2, <1>3 DEF Signalled, ReaderWaits, ReceiveFails

LEMMA NeverStuckFollows == JInv /\ Signalled => NeverStuck
<1> SUFFICES ASSUME JInv, Signalled, NEW p \in Phone, pc[p] # "over",
                    \A q \in Phone : pc[q] # "over" => Waits(q),
                    reading => ReaderWaits
             PROVE  FALSE
  BY DEF NeverStuck
<1>a. TypeOK /\ Places /\ Peer(p) \in Phone /\ Phone = {p, Peer(p)}
  BY DEF JInv, IInv, Phone, Peer
<1>1. pc[Peer(p)] # "over"
  BY OneDoesNotWait
<1>2. Waits("controller") /\ Waits("display")
    /\ pc["controller"] # "over" /\ pc["display"] # "over"
  BY <1>a, <1>1 DEF Phone
<1>3. ~isStopped
  BY <1>2 DEF Signalled
<1> QED
  BY <1>2, <1>3, BothDoNotWait DEF Signalled

\* For every window, interval, frame limit, buffer size and set of faults,
\* somebody goes on while a session is not over on both phones: sends that come
\* before receives on both sides, a full window and an ended peer never make
\* all threads of runController, runDisplay and the reader wait.
THEOREM SomebodyGoesOn == Spec => []NeverStuck
<1>1. Init => JInv /\ Signalled
  BY SessionInit, SignalledInit
<1>2. JInv /\ Signalled /\ [Next]_vars => (JInv /\ Signalled)'
  <2> SUFFICES ASSUME JInv, Signalled, [Next]_vars PROVE JInv' /\ Signalled'
    OBVIOUS
  <2>1. JInv' /\ StepEffects
    BY SessionStep, NextEffects DEF JInv, IInv
  <2> QED
    BY <2>1, SignalledKept
<1>3. JInv /\ Signalled => NeverStuck
  BY NeverStuckFollows
<1> QED
  BY <1>1, <1>2, <1>3, PTL DEF Spec

(***************************************************************************)
(* Work runs out.                                                          *)
(***************************************************************************)
ControllerPlaces ==
  {"activate", "recvHello", "sendHello", "sendSnapshot", "recvReady", "sendStart",
   "lockstep", "step", "drain", "sendFinish", "recvFinishAck", "over"}

DisplayPlaces == BeforeReady \cup
  {"recvStart", "recvFrame", "step", "sendAck", "sendPassed", "sendFailed", "over"}

LEMMA ControllerRanks ==
  /\ ControllerRank["activate"] = 30 /\ ControllerRank["recvHello"] = 29
  /\ ControllerRank["sendHello"] = 28 /\ ControllerRank["sendSnapshot"] = 22
  /\ ControllerRank["recvReady"] = 16 /\ ControllerRank["sendStart"] = 15
  /\ ControllerRank["step"] = 9 /\ ControllerRank["lockstep"] = 8
  /\ ControllerRank["drain"] = 8 /\ ControllerRank["sendFinish"] = 7
  /\ ControllerRank["recvFinishAck"] = 1 /\ ControllerRank["over"] = 0
  /\ \A l \in ControllerPlaces :
       ControllerRank[l] \in Nat /\ (l # "over" => ControllerRank[l] >= 1)
BY DEF ControllerRank, ControllerPlaces

LEMMA DisplayRanks ==
  /\ DisplayRank["activate"] = 11 /\ DisplayRank["sendHello"] = 10
  /\ DisplayRank["recvHello"] = 7 /\ DisplayRank["recvSnapshot"] = 6
  /\ DisplayRank["sendReady"] = 5 /\ DisplayRank["sendFailure"] = 3
  /\ DisplayRank["recvStart"] = 2 /\ DisplayRank["step"] = 5
  /\ DisplayRank["sendAck"] = 4 /\ DisplayRank["recvFrame"] = 1
  /\ DisplayRank["sendPassed"] = 3 /\ DisplayRank["sendFailed"] = 3
  /\ DisplayRank["over"] = 0
  /\ \A l \in DisplayPlaces :
       DisplayRank[l] \in Nat /\ (l # "over" => DisplayRank[l] >= 1)
BY DEF DisplayRank, DisplayPlaces, BeforeReady

LEMMA LeavingValues ==
  /\ Leaving["here"] = 2 /\ Leaving["pausing"] = 1 /\ Leaving["away"] = 0
  /\ \A a \in {"here", "pausing", "away"} : Leaving[a] \in Nat
BY DEF Leaving

LEMMA SendLength ==
  ASSUME TypeOK, NEW p \in Phone, NEW m \in Message, Send(p, m)
  PROVE  /\ Len(wire'[Peer(p)]) <= Len(wire[Peer(p)]) + 1 /\ Len(wire'[Peer(p)]) \in Nat
         /\ wire'[p] = wire[p]
<1>1. Peer(p) \in Phone /\ Peer(p) # p /\ wire[Peer(p)] \in Seq(Message)
  BY DEF Peer, Phone, TypeOK
<1>2. CASE broken
  BY <1>1, <1>2 DEF Send
<1>3. CASE ~broken
  <2>1. wire'[Peer(p)] = Append(wire[Peer(p)], m) /\ wire'[p] = wire[p]
    BY <1>1, <1>3 DEF Send, TypeOK
  <2> QED
    BY <1>1, <2>1, Appended
<1> QED
  BY <1>2, <1>3

LEMMA TakeLength ==
  ASSUME TypeOK, NEW p \in Phone, TakeFromWire(p), wire[p] # <<>>
  PROVE  /\ Len(wire'[p]) = Len(wire[p]) - 1 /\ Len(wire'[p]) \in Nat
         /\ wire'[Peer(p)] = wire[Peer(p)]
<1>1. wire'[p] = Tail(wire[p]) /\ wire'[Peer(p)] = wire[Peer(p)]
  BY DEF TakeFromWire, TypeOK, Peer, Phone
<1>2. wire[p] \in Seq(Message)
  BY DEF TypeOK
<1> QED
  BY <1>1, <1>2, Taken

\* What the threads and the messages under way are worth, and what may happen once.
Ranks == ControllerRank[pc["controller"]] + DisplayRank[pc["display"]]
Queued == 5 * Len(wire["display"]) + 2 * Len(wire["controller"]) + Len(messages)
Once == Leaving[app["controller"]] + Leaving[app["display"]]
          + (IF broken THEN 0 ELSE 1) + (IF reading THEN 1 ELSE 0)

WorkFacts ==
  /\ Ranks \in Nat /\ Queued \in Nat /\ Once \in Nat /\ frame \in Nat
  /\ ControllerRank[pc["controller"]] \in Nat /\ DisplayRank[pc["display"]] \in Nat
  /\ Len(wire["display"]) \in Nat /\ Len(wire["controller"]) \in Nat
  /\ Len(messages) \in Nat
  /\ Leaving[app["controller"]] \in Nat /\ Leaving[app["display"]] \in Nat
  /\ Work = Ranks + Queued + Once

LEMMA WorkSum == TypeOK /\ Places => WorkFacts
<1> SUFFICES ASSUME TypeOK, Places PROVE WorkFacts
  OBVIOUS
<1>1. /\ pc["controller"] \in ControllerPlaces /\ pc["display"] \in DisplayPlaces
  BY DEF Places, ControllerPlaces, DisplayPlaces
<1>2. \A p \in Phone : app[p] \in {"here", "pausing", "away"} /\ Len(wire[p]) \in Nat
  BY DEF TypeOK
<1>3. /\ ControllerRank[pc["controller"]] \in Nat /\ DisplayRank[pc["display"]] \in Nat
      /\ Len(wire["display"]) \in Nat /\ Len(wire["controller"]) \in Nat
      /\ Leaving[app["controller"]] \in Nat /\ Leaving[app["display"]] \in Nat
  BY <1>1, <1>2, ControllerRanks, DisplayRanks, LeavingValues DEF Phone
<1>4. Len(messages) \in Nat /\ frame \in Nat
  BY DEF TypeOK
<1>5. PICK cr \in Nat, dr \in Nat :
        ControllerRank[pc["controller"]] = cr /\ DisplayRank[pc["display"]] = dr
  BY <1>3
<1>6. PICK dw \in Nat, cw \in Nat, mw \in Nat :
        /\ Len(wire["display"]) = dw /\ Len(wire["controller"]) = cw
        /\ Len(messages) = mw
  BY <1>3, <1>4
<1>7. PICK ca \in Nat, da \in Nat :
        Leaving[app["controller"]] = ca /\ Leaving[app["display"]] = da
  BY <1>3
<1>8. PICK b \in Nat, r \in Nat :
        (IF broken THEN 0 ELSE 1) = b /\ (IF reading THEN 1 ELSE 0) = r
  OBVIOUS
<1>9. /\ Ranks = cr + dr /\ Queued = 5 * dw + 2 * cw + mw /\ Once = ca + da + b + r
  BY <1>5, <1>6, <1>7, <1>8, Zenon DEF Ranks, Queued, Once
<1>10. Work = cr + dr + 5 * dw + 2 * cw + mw + ca + da + b + r
  BY <1>5, <1>6, <1>7, <1>8, Zenon DEF Work
<1>11. Work = Ranks + Queued + Once
  BY <1>9, <1>10
<1>12. Ranks \in Nat /\ Queued \in Nat /\ Once \in Nat
  BY <1>9
<1> QED
  BY <1>3, <1>4, <1>11, <1>12 DEF WorkFacts

\* A step of an emulation thread uses up work.
LEMMA UsesWork ==
  ASSUME TypeOK, Places, TypeOK', Places',
         Ranks' + Queued' + Once' < Ranks + Queued + Once + FrameCost * (frame' - frame)
  PROVE  Work' < Work + FrameCost * (frame' - frame)
<1>1. (TypeOK /\ Places => WorkFacts)'
  BY WorkSum, PTL
<1> QED
  BY <1>1, WorkSum DEF WorkFacts

LEMMA QueuedSent ==
  ASSUME TypeOK, Places, TypeOK', Places', NEW p \in Phone, NEW m \in Message, Send(p, m),
         messages' = messages
  PROVE  Queued' <= Queued + (IF p = "controller" THEN 5 ELSE 2)
<1>1. (TypeOK /\ Places => WorkFacts)'
  BY WorkSum, PTL
<1>2. PICK d \in Nat, c \in Nat, n \in Nat :
        /\ Len(wire["display"]) = d /\ Len(wire["controller"]) = c /\ Len(messages) = n
  BY <1>1, WorkSum DEF WorkFacts
<1>3. PICK d1 \in Nat, c1 \in Nat, n1 \in Nat :
        /\ Len(wire'["display"]) = d1 /\ Len(wire'["controller"]) = c1
        /\ Len(messages') = n1
  BY <1>1, WorkSum DEF WorkFacts
<1>4. Queued = 5 * d + 2 * c + n
  BY <1>2, Zenon DEF Queued
<1>5. Queued' = 5 * d1 + 2 * c1 + n1
  BY <1>3, Zenon DEF Queued
<1>6. p = "controller" => d1 <= d + 1 /\ c1 = c
  BY <1>2, <1>3, SendLength DEF Peer
<1>7. p = "display" => c1 <= c + 1 /\ d1 = d
  BY <1>2, <1>3, SendLength DEF Peer
<1>8. n1 = n
  BY <1>2, <1>3
<1> QED
  BY <1>4, <1>5, <1>6, <1>7, <1>8 DEF Phone

LEMMA QueuedTaken ==
  ASSUME TypeOK, Places, TypeOK', Places', NEW p \in Phone, TakeFromWire(p), wire[p] # <<>>
  PROVE  /\ messages' = messages => Queued' <= Queued - (IF p = "controller" THEN 2 ELSE 5)
         /\ p = "controller" /\ Len(messages') <= Len(messages) + 1 => Queued' <= Queued - 1
<1>1. (TypeOK /\ Places => WorkFacts)'
  BY WorkSum, PTL
<1>2. PICK d \in Nat, c \in Nat, n \in Nat :
        /\ Len(wire["display"]) = d /\ Len(wire["controller"]) = c /\ Len(messages) = n
  BY <1>1, WorkSum DEF WorkFacts
<1>3. PICK d1 \in Nat, c1 \in Nat, n1 \in Nat :
        /\ Len(wire'["display"]) = d1 /\ Len(wire'["controller"]) = c1
        /\ Len(messages') = n1
  BY <1>1, WorkSum DEF WorkFacts
<1>4. Queued = 5 * d + 2 * c + n
  BY <1>2, Zenon DEF Queued
<1>5. Queued' = 5 * d1 + 2 * c1 + n1
  BY <1>3, Zenon DEF Queued
<1>6. p = "controller" => c1 = c - 1 /\ d1 = d
  BY <1>2, <1>3, TakeLength DEF Peer
<1>7. p = "display" => d1 = d - 1 /\ c1 = c
  BY <1>2, <1>3, TakeLength DEF Peer
<1>8. /\ messages' = messages => n1 = n
      /\ Len(messages') <= Len(messages) + 1 => n1 <= n + 1
  BY <1>2, <1>3
<1> QED
  BY <1>4, <1>5, <1>6, <1>7, <1>8 DEF Phone

\* A phone goes on from one place to another.
LEMMA RanksMove ==
  ASSUME TypeOK, NEW p \in Phone, NEW l, Goto(p, l)
  PROVE  /\ p = "controller" => /\ pc'["controller"] = l
                                /\ Ranks' = ControllerRank[l] + DisplayRank[pc["display"]]
         /\ p = "display" => /\ pc'["display"] = l
                             /\ Ranks' = ControllerRank[pc["controller"]] + DisplayRank[l]
BY DEF Goto, TypeOK, Ranks, Phone

\* The end of a run.
LEMMA EndUsesWork ==
  ASSUME TypeOK, Places, TypeOK', Places', NEW p \in Phone, NEW r, Leave(p, r), pc[p] # "over",
         \/ Queued' <= Queued
         \/ p = "display" /\ Queued' <= Queued + 2 /\ DisplayRank[pc["display"]] = 3
  PROVE  Work' < Work + FrameCost * (frame' - frame)
<1>1. (TypeOK /\ Places => WorkFacts)'
  BY WorkSum, PTL
<1>2. /\ Goto(p, "over") /\ frame' = frame /\ UNCHANGED <<app, broken, reading>>
  BY DEF Leave, progress
<1>3. Once' = Once
  BY <1>2 DEF Once
<1>4. /\ pc["controller"] \in ControllerPlaces /\ pc["display"] \in DisplayPlaces
  BY DEF Places, ControllerPlaces, DisplayPlaces
<1>5. CASE p = "controller"
  <2>1. ControllerRank[pc["controller"]] >= 1
    BY <1>4, <1>5, ControllerRanks
  <2>2. Ranks' = DisplayRank[pc["display"]]
    <3>1. DisplayRank[pc["display"]] \in Nat
      BY WorkSum DEF WorkFacts
    <3> QED
      BY <1>2, <1>5, <3>1, RanksMove, ControllerRanks
  <2>3. /\ ControllerRank[pc["controller"]] \in Nat /\ DisplayRank[pc["display"]] \in Nat
    BY WorkSum DEF WorkFacts
  <2>4. Ranks' < Ranks /\ Queued' <= Queued
    BY <1>5, <2>1, <2>2, <2>3 DEF Ranks
  <2> QED
    BY <1>1, <1>2, <1>3, <2>4, UsesWork, WorkSum DEF WorkFacts, FrameCost
<1>6. CASE p = "display"
  <2>1. DisplayRank[pc["display"]] >= 1
    BY <1>4, <1>6, DisplayRanks
  <2>2. Ranks' = ControllerRank[pc["controller"]]
    <3>1. ControllerRank[pc["controller"]] \in Nat
      BY WorkSum DEF WorkFacts
    <3> QED
      BY <1>2, <1>6, <3>1, RanksMove, DisplayRanks
  <2>3. /\ ControllerRank[pc["controller"]] \in Nat /\ DisplayRank[pc["display"]] \in Nat
        /\ Queued \in Nat /\ Queued' \in Nat
    BY <1>1, WorkSum DEF WorkFacts
  <2>4. Ranks' + Queued' < Ranks + Queued
    BY <1>6, <2>1, <2>2, <2>3 DEF Ranks
  <2> QED
    BY <1>1, <1>2, <1>3, <2>4, UsesWork, WorkSum DEF WorkFacts, FrameCost
<1> QED
  BY <1>5, <1>6 DEF Phone

\* A phone goes on: what its place loses pays for what the queues gain.
LEMMA GoingOnUsesWork ==
  ASSUME TypeOK, Places, TypeOK', Places', NEW p \in Phone, NEW l, Goto(p, l),
         UNCHANGED <<app, broken, reading>>,
         NEW before \in Int, NEW after \in Int, NEW gain \in Int,
         p = "controller" => ControllerRank[pc[p]] = before /\ ControllerRank[l] = after,
         p = "display" => DisplayRank[pc[p]] = before /\ DisplayRank[l] = after,
         Queued' <= Queued + gain,
         after + gain < before + FrameCost * (frame' - frame)
  PROVE  Work' < Work + FrameCost * (frame' - frame)
<1>1. (TypeOK /\ Places => WorkFacts)'
  BY WorkSum, PTL
<1>2. Once' = Once
  BY DEF Once
<1>3. Ranks' = Ranks - before + after
  <2>1. PICK cr \in Nat, dr \in Nat :
          ControllerRank[pc["controller"]] = cr /\ DisplayRank[pc["display"]] = dr
    BY WorkSum DEF WorkFacts
  <2>2. Ranks = cr + dr
    BY <2>1, Zenon DEF Ranks
  <2>3. CASE p = "controller"
    <3>1. Ranks' = after + dr
      BY <2>1, <2>3, RanksMove
    <3> QED
      BY <2>1, <2>2, <2>3, <3>1
  <2>4. CASE p = "display"
    <3>1. Ranks' = cr + after
      BY <2>1, <2>4, RanksMove
    <3> QED
      BY <2>1, <2>2, <2>4, <3>1
  <2> QED
    BY <2>3, <2>4 DEF Phone
<1>4. /\ Ranks \in Nat /\ Queued \in Nat /\ Queued' \in Nat /\ Once \in Nat
      /\ frame \in Nat /\ frame' \in Nat
  BY <1>1, WorkSum DEF WorkFacts
<1>5. PICK g \in Int : g = FrameCost * (frame' - frame)
  <2>1. FrameCost * (frame' - frame) \in Int
    BY <1>4 DEF FrameCost
  <2> QED
    BY <2>1, Zenon
<1>6. after + gain < before + g
  BY <1>5, Zenon
<1>7. Ranks' + Queued' + Once' < Ranks + Queued + Once + g
  <2>1. PICK r \in Nat, q \in Nat, qq \in Nat, o \in Nat :
          r = Ranks /\ q = Queued /\ qq = Queued' /\ o = Once
    BY <1>4, Zenon
  <2>2. Ranks' = r - before + after /\ Once' = o
    BY <1>2, <1>3, <2>1, Zenon
  <2>3. qq <= q + gain
    BY <2>1, Zenon
  <2>4. (r - before + after) + qq + o < r + q + o + g
    BY <1>6, <2>3
  <2> QED
    BY <2>1, <2>2, <2>4, Zenon
<1>8. Ranks' + Queued' + Once' < Ranks + Queued + Once + FrameCost * (frame' - frame)
  BY <1>5, <1>7, Zenon
<1> QED
  BY <1>8, UsesWork

\* Sends and receives that only move the phone on.
LEMMA SendsUsesWork ==
  ASSUME TypeOK, Places, TypeOK', Places', NEW p \in Phone, NEW label, NEW m \in Message,
         NEW next, Sends(p, label, m, next),
         p = "controller" => /\ ControllerRank[label] \in Nat /\ ControllerRank[next] \in Nat
                             /\ ControllerRank[next] + 5 < ControllerRank[label],
         p = "display" => /\ DisplayRank[label] \in Nat /\ DisplayRank[next] \in Nat
                          /\ DisplayRank[next] + 2 < DisplayRank[label]
  PROVE  Work' < Work + FrameCost * (frame' - frame)
<1>1. /\ pc[p] = label /\ Send(p, m) /\ Goto(p, next)
      /\ UNCHANGED <<app, broken, reading, messages, frame>>
  BY DEF Sends, inbox, control, progress
<1>2. frame \in Nat
  BY DEF TypeOK
<1>3. Queued' <= Queued + (IF p = "controller" THEN 5 ELSE 2)
  BY <1>1, QueuedSent
<1>4. FrameCost * (frame' - frame) = 0
  BY <1>1, <1>2 DEF FrameCost
<1>5. CASE p = "controller"
  <2>1. PICK before \in Nat, after \in Nat :
          ControllerRank[label] = before /\ ControllerRank[next] = after
    BY <1>5
  <2>2. after + 5 < before + FrameCost * (frame' - frame)
    BY <1>4, <1>5, <2>1
  <2>3. Queued' <= Queued + 5
    BY <1>3, <1>5
  <2> QED
    BY <1>1, <1>5, <2>1, <2>2, <2>3, GoingOnUsesWork
<1>6. CASE p = "display"
  <2>1. PICK before \in Nat, after \in Nat :
          DisplayRank[label] = before /\ DisplayRank[next] = after
    BY <1>6
  <2>2. after + 2 < before + FrameCost * (frame' - frame)
    BY <1>4, <1>6, <2>1
  <2>3. Queued' <= Queued + 2
    BY <1>3, <1>6
  <2> QED
    BY <1>1, <1>6, <2>1, <2>2, <2>3, GoingOnUsesWork
<1> QED
  BY <1>5, <1>6 DEF Phone

LEMMA ReceivesUsesWork ==
  ASSUME TypeOK, Places, TypeOK', Places', NEW p \in Phone, NEW label, NEW next,
         Receives(p, label, next), ~UsesInbox(p),
         NEW before \in Int, NEW after \in Int, after < before,
         p = "controller" => ControllerRank[label] = before /\ ControllerRank[next] = after,
         p = "display" => DisplayRank[label] = before /\ DisplayRank[next] = after
  PROVE  Work' < Work + FrameCost * (frame' - frame)
<1>1. /\ pc[p] = label /\ Accepted(p) /\ TakeFromWire(p) /\ Goto(p, next)
      /\ UNCHANGED <<app, broken, reading, messages, frame>>
  BY DEF Receives, inbox, control, progress
<1>2. wire[p] # <<>> /\ frame \in Nat
  BY <1>1, AcceptedHead DEF TypeOK
<1>3. (TypeOK /\ Places => WorkFacts)'
  BY WorkSum, PTL
<1>4. Queued \in Nat /\ Queued' \in Nat
  BY <1>3, WorkSum DEF WorkFacts
<1>5. Queued' <= Queued + 0
  BY <1>1, <1>2, <1>4, QueuedTaken
<1>6. FrameCost * (frame' - frame) = 0
  BY <1>1, <1>2 DEF FrameCost
<1> QED
  BY <1>1, <1>5, <1>6, GoingOnUsesWork

LEMMA InboxTaken ==
  ASSUME TypeOK, Places, TypeOK', Places', TakeFromInbox, messages # <<>>, wire' = wire
  PROVE  Queued' <= Queued + (-1)
<1>1. (TypeOK /\ Places => WorkFacts)'
  BY WorkSum, PTL
<1>2. PICK d \in Nat, c \in Nat, n \in Nat :
        /\ Len(wire["display"]) = d /\ Len(wire["controller"]) = c /\ Len(messages) = n
  BY <1>1, WorkSum DEF WorkFacts
<1>3. Len(messages') = n - 1
  BY <1>2, Taken DEF TakeFromInbox, TypeOK
<1>4. PICK n1 \in Nat : Len(messages') = n1 /\ n1 = n - 1
  BY <1>1, <1>3 DEF WorkFacts
<1>5. Queued = 5 * d + 2 * c + n
  BY <1>2, Zenon DEF Queued
<1>6. Len(wire'["display"]) = d /\ Len(wire'["controller"]) = c
  BY <1>2
<1>7. Queued' = 5 * d + 2 * c + n1
  BY <1>4, <1>6, Zenon DEF Queued
<1> QED
  BY <1>4, <1>5, <1>7

LEMMA NoFrame ==
  ASSUME TypeOK, frame' = frame
  PROVE  FrameCost * (frame' - frame) = 0
BY DEF FrameCost, TypeOK

LEMMA ControllerUsesWork ==
  ASSUME TypeOK, Places, TypeOK', Places', ControllerThread
  PROVE  Work' < Work + FrameCost * (frame' - frame)
<1> DEFINE C == "controller"
           Less == Work' < Work + FrameCost * (frame' - frame)
<1>a. C \in Phone /\ core[C] \in State /\ frame \in Nat
  BY DEF Phone, TypeOK
<1>b. wire' = wire /\ messages' = messages => Queued' = Queued
  BY DEF Queued
<1>c. (TypeOK /\ Places => WorkFacts)'
  BY WorkSum, PTL
<1>d. /\ Queued \in Nat /\ Queued' \in Nat /\ Ranks \in Nat /\ Ranks' \in Nat
      /\ Once \in Nat /\ Once' \in Nat /\ frame' \in Nat
  BY <1>c, WorkSum DEF WorkFacts
<1>1. CASE ControllerHandshake
  <2>1. CASE Receives(C, "recvHello", "sendHello")
    <3>1. ~UsesInbox(C)
      BY <2>1 DEF Receives, UsesInbox
    <3> QED
      BY <1>a, <2>1, <3>1, ControllerRanks, ReceivesUsesWork
  <2>2. CASE Sends(C, "sendHello", Hello(C), "sendSnapshot")
    <3>1. Hello(C) \in Message
      BY <1>a, MessageTypes
    <3>2. /\ ControllerRank["sendHello"] \in Nat /\ ControllerRank["sendSnapshot"] \in Nat
          /\ ControllerRank["sendSnapshot"] + 5 < ControllerRank["sendHello"]
      BY ControllerRanks
    <3>3. PICK m \in Message : Sends(C, "sendHello", m, "sendSnapshot")
      BY <2>2, <3>1
    <3> QED
      BY <1>a, <3>2, <3>3, SendsUsesWork
  <2>3. CASE Sends(C, "sendSnapshot", Snapshot(core[C]), "recvReady")
    <3>1. Snapshot(core[C]) \in Message
      BY <1>a, MessageTypes
    <3> QED
      BY <1>a, <2>3, <3>1, ControllerRanks, SendsUsesWork
  <2>4. CASE Receives(C, "recvReady", "sendStart")
    <3>1. ~UsesInbox(C)
      BY <2>4 DEF Receives, UsesInbox
    <3> QED
      BY <1>a, <2>4, <3>1, ControllerRanks, ReceivesUsesWork
  <2> QED
    BY <1>1, <2>1, <2>2, <2>3, <2>4 DEF ControllerHandshake
<1>2. CASE ControllerStarts
  <2>1. /\ pc[C] = "sendStart" /\ Send(C, Signal("start")) /\ Goto(C, "lockstep")
        /\ UNCHANGED <<app, broken, messages, frame>> /\ reading' = TRUE
    BY <1>2 DEF ControllerStarts, control, progress
  <2>2. Signal("start") \in Message
    BY <1>a, MessageTypes
  <2>3. Queued' <= Queued + 5
    BY <1>a, <2>1, <2>2, QueuedSent
  <2>4. Once' <= Once + 1
    <3>1. PICK ca \in Nat, da \in Nat :
            Leaving[app["controller"]] = ca /\ Leaving[app["display"]] = da
      BY WorkSum DEF WorkFacts
    <3>2. PICK b \in Nat, r \in Nat :
            (IF broken THEN 0 ELSE 1) = b /\ (IF reading THEN 1 ELSE 0) = r
      OBVIOUS
    <3>3. Once = ca + da + b + r
      BY <3>1, <3>2, Zenon DEF Once
    <3>4. (IF reading' THEN 1 ELSE 0) = 1
      BY <2>1
    <3>5. Once' = ca + da + b + 1
      BY <2>1, <3>1, <3>2, <3>4, Zenon DEF Once
    <3> QED
      BY <3>3, <3>5
  <2>5. Ranks' = Ranks - 7
    <3>1. PICK dr \in Nat : DisplayRank[pc["display"]] = dr
      BY WorkSum DEF WorkFacts
    <3>2. Ranks = 15 + dr
      BY <2>1, <3>1, ControllerRanks, Zenon DEF Ranks
    <3>3. Ranks' = 8 + dr
      BY <1>a, <2>1, <3>1, ControllerRanks, RanksMove
    <3> QED
      BY <3>2, <3>3
  <2>6. FrameCost * (frame' - frame) = 0
    BY <2>1, NoFrame
  <2> QED
    BY <1>d, <2>3, <2>4, <2>5, <2>6, UsesWork
<1>3. CASE ControllerSendsInput
  <2>1. /\ pc[C] = "lockstep" /\ Goto(C, "step") /\ frame' = frame + 1
        /\ UNCHANGED <<app, broken, reading, messages>>
    BY <1>3 DEF ControllerSendsInput, control, inbox
  <2>2. PICK i \in Inputs : Send(C, Input(frame + 1, i))
    BY <1>3 DEF ControllerSendsInput
  <2>3. Input(frame + 1, i) \in Message
    BY <1>a, MessageTypes
  <2>4. Queued' <= Queued + 5
    BY <1>a, <2>1, <2>2, <2>3, QueuedSent
  <2>5. FrameCost * (frame' - frame) = 7
    BY <1>a, <2>1 DEF FrameCost
  <2> QED
    BY <1>a, <2>1, <2>4, <2>5, ControllerRanks, GoingOnUsesWork
<1>4. CASE ControllerSteps
  <2>1. /\ pc[C] = "step" /\ UNCHANGED <<app, broken, reading, messages, wire, frame>>
        /\ \E l \in {"drain", "lockstep"} : Goto(C, l)
    BY <1>4 DEF ControllerSteps, control, inbox
  <2>2. Queued' <= Queued + 0
    BY <1>b, <1>d, <2>1
  <2>3. FrameCost * (frame' - frame) = 0
    BY <2>1, NoFrame
  <2> QED
    BY <1>a, <2>1, <2>2, <2>3, ControllerRanks, GoingOnUsesWork
<1>5. CASE ControllerTakesAcknowledgement \/ ControllerVerifies
  <2>1. /\ pc[C] \in {"lockstep", "drain"} /\ Accepted(C) /\ TakeFromInbox
        /\ UNCHANGED <<app, broken, reading, wire, frame>>
        /\ \E l \in {"drain", "lockstep", "sendFinish"} : Goto(C, l)
    BY <1>5 DEF ControllerTakesAcknowledgement, ControllerVerifies, control,
                AfterAcknowledgement
  <2>2. messages # <<>>
    BY <1>a, <2>1, AcceptedHead DEF UsesInbox
  <2>3. Queued' <= Queued + (-1)
    BY <2>1, <2>2, InboxTaken
  <2>4. FrameCost * (frame' - frame) = 0
    BY <2>1, NoFrame
  <2> QED
    BY <1>a, <2>1, <2>3, <2>4, ControllerRanks, GoingOnUsesWork
<1>6. CASE ControllerCompletes
  <2>1. /\ pc[C] = "lockstep" /\ Goto(C, "sendFinish")
        /\ UNCHANGED <<app, broken, reading, messages, wire, frame>>
    BY <1>6 DEF ControllerCompletes, control, inbox, progress
  <2>2. Queued' <= Queued + 0
    BY <1>b, <1>d, <2>1
  <2>3. FrameCost * (frame' - frame) = 0
    BY <2>1, NoFrame
  <2> QED
    BY <1>a, <2>1, <2>2, <2>3, ControllerRanks, GoingOnUsesWork
<1>7. CASE ControllerSendsFinish
  <2>0. Success \in BOOLEAN
    BY DEF Success
  <2>1. Finish(frame, Success) \in Message
    BY <1>a, <2>0, MessageTypes
  <2> QED
    BY <1>a, <1>7, <2>1, ControllerRanks, SendsUsesWork DEF ControllerSendsFinish
<1>8. CASE ControllerReturns
  <2>1. /\ pc[C] = "recvFinishAck" /\ Accepted(C) /\ TakeFromInbox /\ wire' = wire
        /\ \E r : Leave(C, r)
    BY <1>8 DEF ControllerReturns
  <2>2. messages # <<>>
    BY <1>a, <2>1, AcceptedHead DEF UsesInbox
  <2>3. Queued' <= Queued
    BY <1>d, <2>1, <2>2, InboxTaken
  <2> QED
    BY <1>a, <2>1, <2>3, EndUsesWork
<1> QED
  BY <1>1, <1>2, <1>3, <1>4, <1>5, <1>6, <1>7, <1>8 DEF ControllerThread

LEMMA DisplayUsesWork ==
  ASSUME TypeOK, Places, TypeOK', Places', DisplayThread
  PROVE  Work' < Work + FrameCost * (frame' - frame)
<1> DEFINE D == "display"
<1>a. (D \in Phone /\ ~UsesInbox(D)) \/ pc[D] \notin DisplayPlaces
  BY DEF Phone, UsesInbox, DisplayPlaces, BeforeReady
<1>b. pc[D] \in DisplayPlaces /\ D \in Phone
  BY DEF Places, DisplayPlaces, Phone
<1>c. wire' = wire /\ messages' = messages => Queued' = Queued
  BY DEF Queued
<1>d. (TypeOK /\ Places => WorkFacts)'
  BY WorkSum, PTL
<1>e. /\ Queued \in Nat /\ Queued' \in Nat /\ Ranks \in Nat /\ Ranks' \in Nat
      /\ Once \in Nat /\ Once' \in Nat /\ frame' \in Nat
  BY <1>d, WorkSum DEF WorkFacts
<1>f. ~UsesInbox(D)
  BY <1>a, <1>b
<1>1. CASE DisplayHandshake
  <2>1. CASE Sends(D, "sendHello", Hello(D), "recvHello")
    <3>1. Hello(D) \in Message
      BY <1>b, MessageTypes
    <3>2. /\ DisplayRank["sendHello"] \in Nat /\ DisplayRank["recvHello"] \in Nat
          /\ DisplayRank["recvHello"] + 2 < DisplayRank["sendHello"]
      BY DisplayRanks
    <3>3. PICK m \in Message : Sends(D, "sendHello", m, "recvHello")
      BY <2>1, <3>1
    <3> QED
      BY <1>b, <3>2, <3>3, SendsUsesWork
  <2>2. CASE Receives(D, "recvHello", "recvSnapshot")
    BY <1>b, <1>f, <2>2, DisplayRanks, ReceivesUsesWork
  <2>3. CASE Sends(D, "sendReady", Signal("ready"), "recvStart")
    <3>1. Signal("ready") \in Message
      BY MessageTypes
    <3>2. /\ DisplayRank["sendReady"] \in Nat /\ DisplayRank["recvStart"] \in Nat
          /\ DisplayRank["recvStart"] + 2 < DisplayRank["sendReady"]
      BY DisplayRanks
    <3>3. PICK m \in Message : Sends(D, "sendReady", m, "recvStart")
      BY <2>3, <3>1
    <3> QED
      BY <1>b, <3>2, <3>3, SendsUsesWork
  <2> QED
    BY <1>1, <2>1, <2>2, <2>3 DEF DisplayHandshake
<1>2. CASE DisplayLoadsSnapshot \/ DisplayStarts \/ DisplayReceivesInput
             \/ DisplayReceivesFinish
  <2>1. /\ Accepted(D) /\ TakeFromWire(D)
        /\ UNCHANGED <<app, broken, reading, messages, frame>>
    BY <1>2 DEF DisplayLoadsSnapshot, DisplayStarts, DisplayReceivesInput,
                DisplayReceivesFinish, inbox, control, progress
  <2>2. wire[D] # <<>>
    BY <1>b, <1>f, <2>1, AcceptedHead
  <2>3. Queued' <= Queued + (-5)
    BY <1>b, <1>e, <2>1, <2>2, QueuedTaken
  <2>4. FrameCost * (frame' - frame) = 0
    BY <2>1, NoFrame
  <2>5. \/ /\ pc[D] = "recvSnapshot"
           /\ \E l \in {"sendReady", "sendFailure"} : Goto(D, l)
        \/ pc[D] = "recvStart" /\ Goto(D, "recvFrame")
        \/ pc[D] = "recvFrame" /\ \E l \in {"step", "sendPassed", "sendFailed"} : Goto(D, l)
    BY <1>2, Zenon DEF DisplayLoadsSnapshot, DisplayStarts, DisplayReceivesInput,
                       DisplayReceivesFinish, AfterLoading
  <2>6. PICK before \in Nat, after \in Nat, l \in DisplayPlaces :
          /\ DisplayRank[pc[D]] = before /\ DisplayRank[l] = after /\ Goto(D, l)
          /\ after - 5 < before
    BY <2>5, DisplayRanks DEF DisplayPlaces, BeforeReady
  <2>7. after + (-5) < before + FrameCost * (frame' - frame)
    BY <2>4, <2>6
  <2> QED
    BY <1>b, <2>1, <2>3, <2>6, <2>7, GoingOnUsesWork
<1>3. CASE DisplayReportsFailure
  <2>1. /\ pc[D] = "sendFailure" /\ Send(D, Signal("failure")) /\ messages' = messages
        /\ Leave(D, "malformed")
    BY <1>3 DEF DisplayReportsFailure
  <2>2. Signal("failure") \in Message
    BY MessageTypes
  <2>3. Queued' <= Queued + 2
    BY <1>b, <2>1, <2>2, QueuedSent
  <2> QED
    BY <1>b, <2>1, <2>3, DisplayRanks, EndUsesWork
<1>4. CASE DisplaySteps
  <2>1. /\ pc[D] = "step" /\ Goto(D, "sendAck")
        /\ UNCHANGED <<app, broken, reading, messages, wire, frame>>
    BY <1>4 DEF DisplaySteps, control, inbox
  <2>2. Queued' <= Queued + 0
    BY <1>c, <1>e, <2>1
  <2>3. FrameCost * (frame' - frame) = 0
    BY <2>1, NoFrame
  <2> QED
    BY <1>b, <2>1, <2>2, <2>3, DisplayRanks, GoingOnUsesWork
<1>5. CASE DisplayAcknowledges
  <2>1. PICK m : Sends(D, "sendAck", m, "recvFrame") /\ m \in Message
    <3>0. lastDigest[D] \in Digest /\ framesCompleted \in Nat
      BY <1>b DEF TypeOK
    <3>1. lastDigest[D] \in Digest /\ <<>> \in Digest /\ framesCompleted \in Nat
      <4>1. <<>> \in Digest
        BY DEF Digest
      <4> QED
        BY <3>0, <4>1
    <3>2. (IF NeedsDigest(D, framesCompleted) THEN lastDigest[D] ELSE <<>>) \in Digest
      BY <3>1
    <3> QED
      BY <1>5, <3>1, <3>2, MessageTypes DEF DisplayAcknowledges
  <2>2. /\ DisplayRank["sendAck"] \in Nat /\ DisplayRank["recvFrame"] \in Nat
        /\ DisplayRank["recvFrame"] + 2 < DisplayRank["sendAck"]
    BY DisplayRanks
  <2> QED
    BY <1>b, <2>1, <2>2, SendsUsesWork
<1>6. CASE DisplayReturns
  <2>1. /\ pc[D] \in {"sendPassed", "sendFailed"} /\ messages' = messages
        /\ Send(D, Signal("finishAcknowledgement")) /\ \E r : Leave(D, r)
    BY <1>6, Zenon DEF DisplayReturns
  <2>2. Signal("finishAcknowledgement") \in Message
    BY MessageTypes
  <2>3. Queued' <= Queued + 2
    BY <1>b, <2>1, <2>2, QueuedSent
  <2>4. DisplayRank[pc[D]] = 3 /\ pc[D] # "over"
    BY <2>1, DisplayRanks
  <2> QED
    BY <1>b, <2>1, <2>3, <2>4, EndUsesWork
<1> QED
  BY <1>1, <1>2, <1>3, <1>4, <1>5, <1>6 DEF DisplayThread

\* What happens to the connection and the app while the threads stay where they are.
LEMMA ElsewhereUsesWork ==
  ASSUME TypeOK, Places, TypeOK', Places', UNCHANGED <<pc, frame>>,
         Queued' + Once' < Queued + Once
  PROVE  Work' < Work + FrameCost * (frame' - frame)
<1>1. (TypeOK /\ Places => WorkFacts)'
  BY WorkSum, PTL
<1>2. Ranks' = Ranks
  BY DEF Ranks
<1>3. FrameCost * (frame' - frame) = 0
  BY NoFrame
<1> QED
  BY <1>1, <1>2, <1>3, UsesWork, WorkSum DEF WorkFacts

LEMMA BothPhonesUseWork ==
  ASSUME TypeOK, Places, TypeOK', Places', NEW p \in Phone,
         Activate(p) \/ Reject(p) \/ TransportError(p) \/ SnapshotFails(p)
  PROVE  Work' < Work + FrameCost * (frame' - frame)
<1>a. UNCHANGED <<wire, messages>>
  BY DEF Activate, Reject, TransportError, SnapshotFails
<1>b. (TypeOK /\ Places => WorkFacts)'
  BY WorkSum, PTL
<1>c. Queued' = Queued /\ Queued \in Nat
  BY <1>a, WorkSum DEF Queued, WorkFacts
<1>1. CASE \E r : Leave(p, r)
  <2>1. pc[p] # "over"
    BY DEF Activate, Reject, TransportError, SnapshotFails, Receiving, Sending
  <2> QED
    BY <1>1, <1>c, <2>1, EndUsesWork
<1>2. CASE ~ \E r : Leave(p, r)
  <2>1. /\ pc[p] = "activate" /\ UNCHANGED <<app, broken, reading, frame>>
        /\ Goto(p, IF p = "controller" THEN "recvHello" ELSE "sendHello")
    BY <1>2 DEF Activate, Reject, TransportError, SnapshotFails, progress, inbox
  <2>2. FrameCost * (frame' - frame) = 0
    BY <2>1, NoFrame
  <2>3. Queued' <= Queued + 0
    BY <1>c
  <2>4. CASE p = "controller"
    BY <2>1, <2>2, <2>3, <2>4, ControllerRanks, GoingOnUsesWork
  <2>5. CASE p = "display"
    BY <2>1, <2>2, <2>3, <2>5, DisplayRanks, GoingOnUsesWork
  <2> QED
    BY <2>4, <2>5 DEF Phone
<1> QED
  BY <1>1, <1>2

LEMMA OnceParts ==
  ASSUME TypeOK
  PROVE  \E ca \in Nat, da \in Nat, b \in Nat, r \in Nat :
           /\ ca = Leaving[app["controller"]] /\ da = Leaving[app["display"]]
           /\ b = (IF broken THEN 0 ELSE 1) /\ r = (IF reading THEN 1 ELSE 0)
           /\ Once = ca + da + b + r
<1>1. \A p \in Phone : Leaving[app[p]] \in Nat
  BY LeavingValues DEF TypeOK
<1>2. PICK ca \in Nat, da \in Nat :
        ca = Leaving[app["controller"]] /\ da = Leaving[app["display"]]
  BY <1>1 DEF Phone
<1>3. PICK b \in Nat, r \in Nat :
        b = (IF broken THEN 0 ELSE 1) /\ r = (IF reading THEN 1 ELSE 0)
  OBVIOUS
<1>4. Once = ca + da + b + r
  BY <1>2, <1>3, Zenon DEF Once
<1> QED
  BY <1>2, <1>3, <1>4, Zenon

LEMMA OthersUseWork ==
  ASSUME TypeOK, Places, TypeOK', Places',
         (\E p \in Phone : MainThread(p)) \/ Reader \/ LinkFails
  PROVE  Work' < Work + FrameCost * (frame' - frame)
<1>a. (TypeOK => \E ca \in Nat, da \in Nat, b \in Nat, r \in Nat :
           /\ ca = Leaving[app["controller"]] /\ da = Leaving[app["display"]]
           /\ b = (IF broken THEN 0 ELSE 1) /\ r = (IF reading THEN 1 ELSE 0)
           /\ Once = ca + da + b + r)'
  BY OnceParts, PTL
<1>b. PICK ca \in Nat, da \in Nat, b \in Nat, r \in Nat :
        /\ ca = Leaving[app["controller"]] /\ da = Leaving[app["display"]]
        /\ b = (IF broken THEN 0 ELSE 1) /\ r = (IF reading THEN 1 ELSE 0)
        /\ Once = ca + da + b + r
  BY OnceParts
<1>c. PICK ca1 \in Nat, da1 \in Nat, b1 \in Nat, r1 \in Nat :
        /\ ca1 = Leaving[app'["controller"]] /\ da1 = Leaving[app'["display"]]
        /\ b1 = (IF broken' THEN 0 ELSE 1) /\ r1 = (IF reading' THEN 1 ELSE 0)
        /\ Once' = ca1 + da1 + b1 + r1
  BY <1>a
<1>d. (TypeOK /\ Places => WorkFacts)'
  BY WorkSum, PTL
<1>e. Queued \in Nat /\ Queued' \in Nat
  BY <1>d, WorkSum DEF WorkFacts
<1>f. wire' = wire /\ messages' = messages => Queued' = Queued
  BY DEF Queued
<1>1. CASE \E p \in Phone : MainThread(p)
  <2>1. PICK p \in Phone : MainThread(p)
    BY <1>1
  <2>2. UNCHANGED <<pc, frame, wire, messages, broken, reading>>
    BY <2>1 DEF MainThread, AppLeaves, CancelSession, progress, inbox
  <2>3. \/ app[p] = "here" /\ app' = [app EXCEPT ![p] = "pausing"]
        \/ app[p] = "pausing" /\ app' = [app EXCEPT ![p] = "away"]
    BY <2>1 DEF MainThread, AppLeaves, CancelSession
  <2>4. Leaving[app'[p]] = Leaving[app[p]] - 1 /\ app'[Peer(p)] = app[Peer(p)]
    <3>1. CASE app[p] = "here" /\ app' = [app EXCEPT ![p] = "pausing"]
      <4>1. app'[p] = "pausing" /\ app'[Peer(p)] = app[Peer(p)]
        BY <3>1 DEF TypeOK, Peer, Phone
      <4> QED
        BY <3>1, <4>1, LeavingValues
    <3>2. CASE app[p] = "pausing" /\ app' = [app EXCEPT ![p] = "away"]
      <4>1. app'[p] = "away" /\ app'[Peer(p)] = app[Peer(p)]
        BY <3>2 DEF TypeOK, Peer, Phone
      <4> QED
        BY <3>2, <4>1, LeavingValues
    <3> QED
      BY <2>3, <3>1, <3>2
  <2>5. b1 = b /\ r1 = r
    BY <1>b, <1>c, <2>2
  <2>6. ca1 + da1 < ca + da
    BY <1>b, <1>c, <2>4 DEF Peer, Phone
  <2>7. Queued' + Once' < Queued + Once
    BY <1>b, <1>c, <1>e, <1>f, <2>2, <2>5, <2>6
  <2> QED
    BY <2>2, <2>7, ElsewhereUsesWork
<1>2. CASE ReaderReceives
  <2>1. /\ UNCHANGED <<pc, frame, app, broken>> /\ reading = TRUE /\ reading' \in BOOLEAN
        /\ TakeFromWire("controller") /\ wire["controller"] # <<>>
        /\ messages' = Append(messages, Head(wire["controller"]))
    BY <1>2 DEF ReaderReceives, Enqueued, progress, control, TypeOK
  <2>2. Len(messages') <= Len(messages) + 1
    BY <2>1 DEF TypeOK
  <2>3. Queued' <= Queued - 1
    BY <2>1, <2>2, QueuedTaken DEF Phone
  <2>4. ca1 = ca /\ da1 = da /\ b1 = b /\ r1 <= r
    BY <1>b, <1>c, <2>1
  <2>5. Queued' + Once' < Queued + Once
    BY <1>b, <1>c, <1>e, <2>3, <2>4
  <2> QED
    BY <2>1, <2>5, ElsewhereUsesWork
<1>3. CASE ReaderEnds
  <2>1. /\ UNCHANGED <<pc, frame, app, broken, wire, messages>>
        /\ reading = TRUE /\ reading' = FALSE
    BY <1>3 DEF ReaderEnds, progress, control, TypeOK
  <2>2. ca1 = ca /\ da1 = da /\ b1 = b /\ r1 < r
    BY <1>b, <1>c, <2>1
  <2>3. Queued' + Once' < Queued + Once
    BY <1>b, <1>c, <1>e, <1>f, <2>1, <2>2
  <2> QED
    BY <2>1, <2>3, ElsewhereUsesWork
<1>4. CASE LinkFails
  <2>1. /\ UNCHANGED <<pc, frame, app, messages, reading>>
        /\ broken = FALSE /\ broken' = TRUE
    BY <1>4 DEF LinkFails, progress, control, inbox, TypeOK
  <2>2. PICK kept \in [Phone -> 0 .. Capacity] :
          /\ \A p \in Phone : kept[p] <= Len(wire[p])
          /\ wire' = [p \in Phone |-> SubSeq(wire[p], 1, kept[p])]
    BY <1>4 DEF LinkFails
  <2>3. \A p \in Phone : Len(wire'[p]) <= Len(wire[p])
    <3> SUFFICES ASSUME NEW p \in Phone PROVE Len(wire'[p]) <= Len(wire[p])
      OBVIOUS
    <3>1. wire[p] \in Seq(Message) /\ wire'[p] = SubSeq(wire[p], 1, kept[p])
          /\ kept[p] \in 0 .. Capacity /\ kept[p] <= Len(wire[p])
      BY <2>2 DEF TypeOK
    <3>2. kept[p] \in Nat
      BY <3>1, CapacityAssumption
    <3>3. Len(wire'[p]) = kept[p]
      BY <3>1, <3>2
    <3> QED
      BY <3>1, <3>3
  <2>4. PICK d \in Nat, c \in Nat, n \in Nat :
          /\ Len(wire["display"]) = d /\ Len(wire["controller"]) = c /\ Len(messages) = n
    BY WorkSum DEF WorkFacts
  <2>5. PICK d2 \in Nat, c2 \in Nat :
          /\ Len(wire'["display"]) = d2 /\ Len(wire'["controller"]) = c2
          /\ d2 <= d /\ c2 <= c
    BY <1>d, <2>3, <2>4 DEF WorkFacts, Phone
  <2>6. Queued = 5 * d + 2 * c + n
    BY <2>4, Zenon DEF Queued
  <2>7. Len(messages') = n
    BY <2>1, <2>4
  <2>8. Queued' = 5 * d2 + 2 * c2 + n
    BY <2>5, <2>7, Zenon DEF Queued
  <2>9. Queued' <= Queued
    BY <2>5, <2>6, <2>8
  <2>10. ca1 = ca /\ da1 = da /\ b1 < b /\ r1 = r
    BY <1>b, <1>c, <2>1
  <2>11. Queued' + Once' < Queued + Once
    BY <1>b, <1>c, <1>e, <2>9, <2>10
  <2> QED
    BY <2>1, <2>11, ElsewhereUsesWork
<1> QED
  BY <1>1, <1>2, <1>3, <1>4 DEF Reader

\* Every step of every thread, of the main threads and of the network uses up
\* work; a new frame brings at most FrameCost of it.
LEMMA WorkStep ==
  ASSUME TypeOK, Places, TypeOK', Places', [Next]_vars
  PROVE  [Work' < Work + FrameCost * (frame' - frame)]_vars
<1> SUFFICES ASSUME Next, ~UNCHANGED vars PROVE Work' < Work + FrameCost * (frame' - frame)
  OBVIOUS
<1>1. CASE \E p \in Phone : EmulationThread(p)
  <2>1. PICK p \in Phone : EmulationThread(p)
    BY <1>1
  <2> QED
    BY <2>1, BothPhonesUseWork, ControllerUsesWork, DisplayUsesWork DEF EmulationThread
<1>2. CASE (\E p \in Phone : MainThread(p)) \/ Reader \/ LinkFails
  BY <1>2, OthersUseWork
<1>3. CASE Over
  BY <1>3 DEF Over
<1> QED
  BY <1>1, <1>2, <1>3 DEF Next

\* Whatever the constants, no schedule lets the threads of a session take steps
\* for ever without a new frame: nothing spins, is handled twice or is retried.
THEOREM WorkAlwaysRunsOut == Spec => WorkRunsOut
<1>1. JInv /\ JInv' /\ [Next]_vars => [Work' < Work + FrameCost * (frame' - frame)]_vars
  BY WorkStep DEF JInv, IInv
<1> QED
  BY <1>1, SessionInvariance, PTL DEF Spec, WorkRunsOut

\* What is left to do is a number of steps, bounded by the frames begun, of which
\* there are no more than the controller's limit: of 46 + 7 k steps for k frames,
\* those taken and those left.
StepsBounded ==
  /\ Work \in Nat /\ Work <= 46 + FrameCost * frame
  /\ Limit["controller"] # NoLimit => frame <= Limit["controller"]

LEMMA StepsBoundedInit == Init /\ TypeOK /\ Places => StepsBounded
<1> SUFFICES ASSUME Init, TypeOK, Places PROVE StepsBounded
  OBVIOUS
<1>1. /\ pc["controller"] = "activate" /\ pc["display"] = "activate"
      /\ app["controller"] = "here" /\ app["display"] = "here"
      /\ broken = FALSE /\ reading = FALSE /\ messages = <<>> /\ frame = 0
      /\ wire["controller"] = <<>> /\ wire["display"] = <<>>
  BY DEF Init, Phone
<1>2. Ranks = 30 + 11
  BY <1>1, ControllerRanks, DisplayRanks, Zenon DEF Ranks
<1>3. Len(wire["display"]) = 0 /\ Len(wire["controller"]) = 0 /\ Len(messages) = 0
  BY <1>1
<1>4. Queued = 5 * 0 + 2 * 0 + 0
  BY <1>3, Zenon DEF Queued
<1>5. (IF broken THEN 0 ELSE 1) = 1 /\ (IF reading THEN 1 ELSE 0) = 0
  BY <1>1
<1>6. Once = 2 + 2 + 1 + 0
  BY <1>1, <1>5, LeavingValues, Zenon DEF Once
<1>7. Work = 46
  BY <1>2, <1>4, <1>6, WorkSum DEF WorkFacts
<1>8. Limit["controller"] # NoLimit => 0 <= Limit["controller"]
  BY LimitAssumption DEF Phone, NoLimit
<1> QED
  BY <1>1, <1>7, <1>8 DEF StepsBounded, FrameCost

LEMMA StepsBoundedStep ==
  ASSUME TypeOK, Places, TypeOK', Places', [Next]_vars, StepsBounded
  PROVE  StepsBounded'
<1>1. CASE UNCHANGED vars
  <2>1. Work' = Work /\ frame' = frame
    BY <1>1 DEF vars, progress, inbox, control, Work
  <2> QED
    BY <2>1 DEF StepsBounded
<1>2. CASE ~UNCHANGED vars
  <2>1. Work' < Work + FrameCost * (frame' - frame)
    BY <1>2, WorkStep
  <2>2. (TypeOK /\ Places => WorkFacts)'
    BY WorkSum, PTL
  <2>3. Work' \in Nat /\ frame' \in Nat
    BY <2>2 DEF WorkFacts
  <2>4. Work \in Nat /\ frame \in Nat
    BY WorkSum DEF WorkFacts
  <2>5. Work' <= 46 + FrameCost * frame'
    <3>1. PICK w \in Nat, w1 \in Nat, k \in Nat, k1 \in Nat :
            Work = w /\ Work' = w1 /\ frame = k /\ frame' = k1
      BY <2>3, <2>4
    <3>2. w <= 46 + 7 * k /\ w1 < w + 7 * (k1 - k)
      BY <2>1, <3>1 DEF StepsBounded, FrameCost
    <3>3. w1 <= 46 + 7 * k1
      BY <3>2
    <3> QED
      BY <3>1, <3>3 DEF FrameCost
  <2>6. frame' # frame => ControllerSendsInput
    BY CountsChange DEF Counts, ControllerSteps, ControllerTakesAcknowledgement,
                        ControllerVerifies, DisplaySteps
  <2>7. Limit["controller"] # NoLimit => frame' <= Limit["controller"]
    <3>1. CASE frame' = frame
      BY <3>1 DEF StepsBounded
    <3>2. CASE frame' # frame
      BY <2>4, <2>6, <3>2, LimitAssumption DEF ControllerSendsInput, MoreFrames, Phone, NoLimit
    <3> QED
      BY <3>1, <3>2
  <2> QED
    BY <2>3, <2>5, <2>7 DEF StepsBounded
<1> QED
  BY <1>1, <1>2

\* A session with a frame limit of k ends within 46 + 7 k steps, unless its
\* threads all wait, which SomebodyGoesOn excludes.
THEOREM StepsAreBounded == Spec => []StepsBounded
<1>1. Init /\ JInv => StepsBounded
  BY StepsBoundedInit DEF JInv, IInv
<1>2. StepsBounded /\ JInv /\ JInv' /\ [Next]_vars => StepsBounded'
  BY StepsBoundedStep DEF JInv, IInv
<1> QED
  BY <1>1, <1>2, SessionInvariance, PTL DEF Spec

(***************************************************************************)
(* After one end.                                                          *)
(***************************************************************************)
\* The controller's room to go on, as long as it has not ended.
Room == IF pc["controller"] = "over" THEN 0 ELSE framesCompleted + Window - frame

\* The steps that are left when one phone has ended, in a session with or without a
\* frame limit: the controller may fill its window, and no more.
LeftToDo == Work + FrameCost * Room

\* Once a session is over on one phone, each further step of any thread leaves less
\* to do.
EndFollows ==
  [][(\E p \in Phone : outcome[p] # "none") => LeftToDo' < LeftToDo]_vars

LEMMA RoomIsNatural ==
  JInv => /\ Room \in Nat /\ Work \in Nat /\ frame \in Nat
          /\ framesCompleted + Window - frame \in Nat
<1> SUFFICES ASSUME JInv
             PROVE  /\ Room \in Nat /\ Work \in Nat /\ frame \in Nat
                    /\ framesCompleted + Window - frame \in Nat
  OBVIOUS
<1>1. TypeOK /\ Places /\ frame <= framesCompleted + Window
  BY DEF JInv, IInv, Lead
<1>2. framesCompleted \in Nat /\ frame \in Nat /\ Window \in Nat
  BY <1>1, WindowAssumption DEF TypeOK
<1>3. Work \in Nat
  BY <1>1, WorkSum DEF WorkFacts
<1> QED
  BY <1>1, <1>2, <1>3 DEF Room

\* What is left falls with the work, and not by less than a frame's cost per frame.
LEMMA LeftFalls ==
  ASSUME NEW w \in Nat, NEW w1 \in Nat, NEW r \in Nat, NEW r1 \in Nat, NEW begun \in Int,
         w1 < w + 7 * begun, r1 + begun <= r
  PROVE  w1 + 7 * r1 < w + 7 * r
OBVIOUS

LEMMA EndFollowsStep ==
  ASSUME JInv, JInv', [Next]_vars, ~UNCHANGED vars, NEW p \in Phone, outcome[p] # "none"
  PROVE  LeftToDo' < LeftToDo
<1> DEFINE C == "controller"
           D == "display"
<1>a. /\ TypeOK /\ Places /\ TypeOK' /\ Places' /\ C \in Phone /\ D \in Phone
      /\ Phone = {C, D}
  BY DEF JInv, IInv, Phone
<1>b. StepEffects
  BY <1>a, NextEffects
<1>c. /\ Room \in Nat /\ Work \in Nat /\ frame \in Nat
      /\ framesCompleted + Window - frame \in Nat
  BY RoomIsNatural
<1>d. /\ Room' \in Nat /\ Work' \in Nat /\ frame' \in Nat
      /\ framesCompleted' + Window - frame' \in Nat
  <2>1. (JInv => /\ Room \in Nat /\ Work \in Nat /\ frame \in Nat
                 /\ framesCompleted + Window - frame \in Nat)'
    BY RoomIsNatural, PTL
  <2> QED
    BY <2>1
<1>1. Work' < Work + FrameCost * (frame' - frame)
  BY <1>a, WorkStep
<1>2. pc[p] = "over"
  BY DEF JInv, Ended
<1>3. Room' + (frame' - frame) <= Room
  <2>1. CASE pc[C] = "over"
    <3>1. pc'[C] = "over" /\ frame' = frame
      BY <1>a, <1>b, <2>1 DEF StepEffects
    <3> QED
      BY <1>c, <2>1, <3>1 DEF Room
  <2>2. CASE pc[C] # "over"
    <3>1. framesCompleted' = framesCompleted
      BY <1>a, <1>b, <1>2, <2>2 DEF StepEffects
    <3>2. framesCompleted \in Nat /\ Window \in Nat
      BY <1>a, WindowAssumption DEF TypeOK
    <3>3. PICK f \in Nat, f1 \in Nat, m \in Nat, m1 \in Nat :
            /\ f = frame /\ f1 = frame'
            /\ m = framesCompleted + Window - frame
            /\ m1 = framesCompleted' + Window - frame'
      BY <1>c, <1>d, Zenon
    <3>4. m1 + (f1 - f) = m
      <4>1. PICK c \in Nat, size \in Nat : c = framesCompleted /\ size = Window
        BY <3>2, Zenon
      <4>2. m = c + size - f /\ m1 = c + size - f1
        BY <3>1, <3>3, <4>1, Zenon
      <4> QED
        BY <4>2
    <3>5. Room = m
      BY <2>2, <3>3, Zenon DEF Room
    <3>6. Room' = 0 \/ Room' = m1
      BY <3>3, Zenon DEF Room
    <3>7. PICK r1 \in Nat : r1 = Room'
      BY <1>d, Zenon
    <3>8. r1 + (f1 - f) <= m
      <4>1. r1 = 0 \/ r1 = m1
        BY <3>6, <3>7, Zenon
      <4> QED
        BY <3>4, <4>1
    <3> QED
      BY <3>3, <3>5, <3>7, <3>8, Zenon
  <2> QED
    BY <2>1, <2>2
<1>4. PICK w \in Nat, w1 \in Nat, r \in Nat, r1 \in Nat, begun \in Int :
        w = Work /\ w1 = Work' /\ r = Room /\ r1 = Room' /\ begun = frame' - frame
  <2>1. frame' - frame \in Int
    BY <1>c, <1>d
  <2> QED
    BY <1>c, <1>d, <2>1, Zenon
<1>5. w1 < w + 7 * begun /\ r1 + begun <= r
  BY <1>1, <1>3, <1>4, Zenon DEF FrameCost
<1>6. w1 + 7 * r1 < w + 7 * r
  BY <1>5, LeftFalls
<1>7. LeftToDo = w + 7 * r /\ LeftToDo' = w1 + 7 * r1
  BY <1>4, Zenon DEF LeftToDo, FrameCost
<1> QED
  BY <1>6, <1>7, Zenon

LEMMA LeftIsNatural == JInv => LeftToDo \in Nat
<1> SUFFICES ASSUME JInv PROVE LeftToDo \in Nat
  OBVIOUS
<1>1. PICK w \in Nat, r \in Nat : w = Work /\ r = Room
  BY RoomIsNatural
<1>2. LeftToDo = w + 7 * r
  BY <1>1, Zenon DEF LeftToDo, FrameCost
<1> QED
  BY <1>2

\* When a session is over on one phone, a bounded number of steps is left to the
\* other, with or without a frame limit: with SomebodyGoesOn, its session ends, too.
THEOREM OneEndBringsTheOther == Spec => [](LeftToDo \in Nat) /\ EndFollows
<1>1. /\ JInv /\ JInv' /\ [Next]_vars
      => [(\E p \in Phone : outcome[p] # "none") => LeftToDo' < LeftToDo]_vars
  BY EndFollowsStep
<1> QED
  BY <1>1, LeftIsNatural, SessionInvariance, PTL DEF Spec, EndFollows

(***************************************************************************)
(* A session in which nothing goes wrong.                                  *)
(*                                                                         *)
(* That it reports nothing but a passed proof needs three things of every  *)
(* schedule: nobody has ended before his time (Calm), the display answers  *)
(* as it should (Answered), and the display's emulator has done, frame by  *)
(* frame, what the controller's did (Same).                                *)
(***************************************************************************)
\* Frame i of the controller's emulator, run or begun, does e.
Planned(i, e) ==
  e = (IF pc["controller"] = "step" /\ i = frame THEN current["controller"]
       ELSE core["controller"][i])

Calm ==
  /\ \A p \in Phone :
       /\ app[p] = "here" /\ ~isCancelled[p]
       /\ closed[p] => pc[p] = "over"
       /\ outcome[p] \in {"none", "passed"}
  /\ ~broken /\ ~terminalError
  /\ pc["display"] \notin {"sendFailure", "sendFailed"}
  /\ Success
  /\ pc["controller"] = "over" => pc["display"] = "over" /\ isStopped
  /\ pc["display"] = "over" /\ pc["controller"] # "over" =>
       /\ pc["controller"] = "recvFinishAck" /\ wire["display"] = <<>>
       /\ isStopped => messages # <<>>
       /\ ~isStopped => wire["controller"] # <<>>

\* What the display may say.
Honest(m) ==
  /\ m.type = "hello" => m.identity = game["display"]
  /\ m.type # "failure"
  /\ m.type = "acknowledgement" /\ NeedsDigest("display", m.frame) => m.digest # <<>>

In(s, m) == \E i \in 1 .. Len(s) : s[i] = m

Answered == \A m : In(wire["controller"], m) \/ In(messages, m) => Honest(m)

Unloaded == {"activate", "sendHello", "recvHello", "recvSnapshot"}

Same ==
  /\ Len(core["controller"]) = frame - Announced
  /\ pc["display"] \notin Unloaded =>
       /\ Len(core["display"]) = framesCompleted
       /\ \A i \in 1 .. framesCompleted : Planned(i, core["display"][i])
  /\ pc["display"] = "step" => Planned(framesCompleted + 1, current["display"])
  /\ \A m : In(wire["display"], m) /\ m.type = "input" =>
       m.frame \in 1 .. frame /\ Planned(m.frame, m.input)
  /\ pc["controller"] \in {"lockstep", "step", "drain"} => ~paused["controller"]
  /\ pc["display"] \in {"recvFrame", "step", "sendAck"} => ~paused["display"]

FaultlessInv == Calm /\ Answered /\ Same

LEMMA SentIn ==
  ASSUME TypeOK, NEW p \in Phone, NEW m \in Message, Send(p, m)
  PROVE  /\ wire'[p] = wire[p]
         /\ \A x : In(wire'[Peer(p)], x) => In(wire[Peer(p)], x) \/ x = m
<1>1. /\ wire'[p] = wire[p]
      /\ \/ wire'[Peer(p)] = wire[Peer(p)]
         \/ wire'[Peer(p)] = Append(wire[Peer(p)], m)
  BY DEF Send, TypeOK, Peer, Phone
<1>2. wire[Peer(p)] \in Seq(Message)
  BY DEF TypeOK, Peer, Phone
<1> QED
  BY <1>1, <1>2, Appended DEF In

LEMMA TailIn ==
  ASSUME NEW s \in Seq(Message), s # <<>>
  PROVE  /\ \A x : In(Tail(s), x) => In(s, x)
         /\ In(s, Head(s))
BY Taken DEF In

LEMMA TakenIn ==
  ASSUME TypeOK, NEW p \in Phone, TakeFromWire(p), wire[p] # <<>>
  PROVE  /\ \A q \in Phone : \A x : In(wire'[q], x) => In(wire[q], x)
         /\ wire'[Peer(p)] = wire[Peer(p)]
         /\ In(wire[p], Head(wire[p])) /\ Head(wire[p]) \in Message
<1>1. wire[p] \in Seq(Message) /\ Head(wire[p]) \in Message
  BY HeadTailProperties DEF TypeOK
<1>2. wire'[p] = Tail(wire[p]) /\ \A q \in Phone : q # p => wire'[q] = wire[q]
  BY DEF TakeFromWire, TypeOK
<1>3. Peer(p) # p /\ Peer(p) \in Phone
  BY DEF Peer, Phone
<1> QED
  BY <1>1, <1>2, <1>3, TailIn

\* The steps left when nothing goes wrong: nobody cancels, throws, leaves or
\* loses the network.
QuietStep ==
  \/ \E p \in Phone : Activate(p) /\ ~isCancelled[p]
  \/ ControllerThread \/ (DisplayThread /\ ~DisplayReportsFailure)
  \/ ReaderReceives \/ (ReaderEnds /\ isStopped)
  \/ UNCHANGED vars

LEMMA NobodyRejects ==
  ASSUME JInv, Faultless, FaultlessInv, NEW p \in Phone
  PROVE  ~Reject(p)
<1> DEFINE C == "controller"
           D == "display"
<1>a. /\ TypeOK /\ C \in Phone /\ D \in Phone
      /\ game[C] = game[D]
  BY DEF JInv, IInv, Phone, Faultless
<1>1. ASSUME Reject(D) PROVE FALSE
  <2>1. pc[D] \in {"recvHello", "recvSnapshot"}
    BY <1>1, DisplayRejects
  <2>2. wire[D] # <<>> /\ ~Accepts(D, Head(wire[D]))
    BY <1>1, <2>1 DEF Reject, Offered, UsesInbox
  <2>3. Forth(DisplayTook + 1, Head(wire[D])) /\ Head(wire[D]) \in Message
    BY <2>1, <2>2, DisplayHead
  <2>4. PICK m \in Message, n \in Nat :
          m = Head(wire[D]) /\ n = DisplayTook + 1 /\ Forth(n, m)
    BY <2>3, CountTypes, <1>a
  <2>5. frame \in Nat /\ (m.type \in {"input", "finish"} => m.frame \in Nat)
    BY <1>a, MessageFields DEF TypeOK
  <2>6. CASE pc[D] = "recvHello"
    <3>1. n = 1
      BY <2>4, <2>6 DEF DisplayTook
    <3>2. m.type = "hello" /\ m.identity = game[C]
      BY <2>4, <2>5, <3>1 DEF Forth
    <3> QED
      BY <1>a, <2>2, <2>4, <2>6, <3>2 DEF Accepts
  <2>7. CASE pc[D] = "recvSnapshot"
    <3>1. n = 2
      BY <2>4, <2>7 DEF DisplayTook
    <3>2. m.type = "snapshot"
      BY <2>4, <2>5, <3>1 DEF Forth
    <3> QED
      BY <2>2, <2>4, <2>7, <3>2 DEF Accepts
  <2> QED
    BY <2>1, <2>6, <2>7
<1>2. ASSUME Reject(C) PROVE FALSE
  <2>1. pc[C] \in {"recvHello", "recvReady"}
    BY <1>2, ControllerRejects
  <2>2. wire[C] # <<>> /\ ~Accepts(C, Head(wire[C]))
    BY <1>2, <2>1 DEF Reject, Offered, UsesInbox
  <2>3. messages = <<>>
    BY <2>1 DEF JInv, Counted, BeforeStart
  <2>4. Back(ControllerTook + 1, Head(wire[C])) /\ Head(wire[C]) \in Message
    BY <2>1, <2>2, <2>3, ControllerHead
  <2>5. Honest(Head(wire[C]))
    <3>1. wire[C] \in Seq(Message)
      BY <1>a DEF TypeOK
    <3> QED
      BY <2>2, <3>1, TailIn DEF FaultlessInv, Answered
  <2>6. PICK m \in Message, n \in Int :
          m = Head(wire[C]) /\ n = ControllerTook + 1 /\ Back(n, m) /\ Honest(m)
    BY <2>4, <2>5, CountTypes, <1>a
  <2>7. framesCompleted \in Nat /\ (m.type = "acknowledgement" => m.frame \in Nat)
    BY <1>a, MessageFields DEF TypeOK
  <2>8. CASE pc[C] = "recvHello"
    <3>1. n = 1
      BY <2>6, <2>8 DEF ControllerTook
    <3>2. m.type = "hello"
      BY <2>6, <2>7, <3>1 DEF Back
    <3> QED
      BY <1>a, <2>2, <2>6, <2>8, <3>2 DEF Accepts, Honest
  <2>9. CASE pc[C] = "recvReady"
    <3>1. n = 2
      BY <2>6, <2>9 DEF ControllerTook
    <3>2. m.type = "ready"
      BY <2>6, <2>7, <3>1 DEF Back, Honest
    <3> QED
      BY <2>2, <2>6, <2>9, <3>2 DEF Accepts
  <2> QED
    BY <2>1, <2>8, <2>9
<1> QED
  BY <1>1, <1>2 DEF Phone

LEMMA NobodyThrows ==
  ASSUME JInv, Signalled, Faultless, FaultlessInv, NEW p \in Phone
  PROVE  ~TransportError(p)
<1> DEFINE C == "controller"
           D == "display"
<1>a. /\ TypeOK /\ Places /\ C \in Phone /\ D \in Phone /\ Calm /\ ~GivesUp
  BY DEF JInv, IInv, Phone, Faultless, FaultlessInv
<1>1. SUFFICES ASSUME TransportError(p) PROVE FALSE
  OBVIOUS
<1>2. CASE p = C
  <2>1. closed[C] => pc[C] = "over"
    BY <1>a DEF Calm
  <2>2. closed[D] => pc[C] \in {"recvFinishAck", "over"}
    BY <1>a DEF Calm
  <2>3. pc[C] # "over" => ~(Sending(C) /\ SendFails(C))
    BY <1>a, <2>1, <2>2 DEF Sending, SendFails, Calm, Peer
  <2>4. pc[C] # "over" => ~(Receiving(C) /\ ~UsesInbox(C) /\ ReceiveFails(C))
    BY <1>a, <2>1, <2>2 DEF UsesInbox, ReceiveFails, Calm, Peer
  <2>5. pc[C] # "over"
    BY <1>1, <1>2 DEF TransportError, Sending, Receiving
  <2>6. messages = <<>> /\ (terminalError \/ isStopped)
    BY <1>a, <1>1, <1>2, <2>3, <2>4, <2>5 DEF TransportError
  <2>7. isStopped
    BY <1>a, <2>6 DEF Calm
  <2>8. pc[D] = "over"
    BY <2>5, <2>7 DEF Signalled
  <2> QED
    BY <1>a, <2>5, <2>6, <2>7, <2>8 DEF Calm
<1>3. CASE p = D
  <2>1. pc[D] # "over"
    BY <1>1, <1>3 DEF TransportError, Sending, Receiving
  <2>2. ~closed[C] /\ ~closed[D] /\ ~broken
    BY <1>a, <2>1 DEF Calm
  <2> QED
    BY <1>a, <1>1, <1>3, <2>2, <2>1
    DEF TransportError, SendFails, ReceiveFails, Peer, UsesInbox, Places, BeforeReady
<1> QED
  BY <1>2, <1>3 DEF Phone

LEMMA StepsAreQuiet ==
  ASSUME JInv, Signalled, Faultless, FaultlessInv, [Next]_vars
  PROVE  QuietStep
<1>a. Calm /\ Faulty = {} /\ Leavers = {} /\ ~LinkMayFail
  BY DEF Faultless, FaultlessInv
<1>1. ASSUME NEW p \in Phone, EmulationThread(p) PROVE QuietStep
  <2>1. ~SnapshotFails(p)
    BY <1>a DEF SnapshotFails
  <2>2. ~isCancelled[p] /\ ~DisplayReportsFailure
    BY <1>a DEF Calm, DisplayReportsFailure
  <2> QED
    BY <1>1, <2>1, <2>2, NobodyRejects, NobodyThrows DEF EmulationThread, QuietStep
<1>2. ASSUME NEW p \in Phone, MainThread(p) PROVE FALSE
  BY <1>a, <1>2 DEF MainThread, AppLeaves, CancelSession, Calm
<1>3. ASSUME ReaderEnds, ~isStopped PROVE FALSE
  <2>1. ReceiveFails("controller")
    BY <1>3 DEF ReaderEnds
  <2> QED
    BY <1>a, <1>3, <2>1 DEF ReceiveFails, Calm, Peer, Phone, Faultless
<1>4. ~LinkFails
  BY <1>a DEF LinkFails
<1> QED
  BY <1>1, <1>2, <1>3, <1>4 DEF Next, Reader, Over, QuietStep

\* Where the two emulators have run the same frames, they are in the same state.
LEMMA SameStates ==
  ASSUME TypeOK, Same, pc["controller"] # "step", pc["display"] \notin Unloaded,
         framesCompleted = frame
  PROVE  core["controller"] = core["display"]
<1>1. /\ core["controller"] \in Seq(Effects) /\ core["display"] \in Seq(Effects)
      /\ frame \in Nat
  BY DEF TypeOK, State, Phone
<1>2. Len(core["controller"]) = frame /\ Len(core["display"]) = frame
  BY <1>1 DEF Same, Announced
<1>3. \A i \in 1 .. frame : core["display"][i] = core["controller"][i]
  BY <1>1 DEF Same, Planned
<1> QED
  BY <1>1, <1>2, <1>3, SeqEqual

LEMMA EqualCheckpoints ==
  ASSUME Faultless, NEW k
  PROVE  NeedsDigest("controller", k) <=> NeedsDigest("display", k)
BY DEF Faultless, NeedsDigest

\* Every comparison finds the digests equal.
LEMMA ComparisonsMatch ==
  ASSUME JInv, Faultless, FaultlessInv, ControllerVerifies
  PROVE  detail' = "matched"
<1> DEFINE C == "controller"
           D == "display"
<1>a. TypeOK /\ C \in Phone /\ D \in Phone
  BY DEF JInv, IInv, Phone
<1>1. /\ pc[C] = "drain" /\ framesCompleted = frame /\ 1 <= frame
      /\ pending[1].frame = frame /\ pending[1].needsDigest
      /\ detail' \in {"matched", "missing", "mismatch"}
      /\ detail' = "mismatch" => core[C] # core[D]
  BY CheckpointTaken
<1>2. pc[D] \notin Unloaded
  BY <1>a, <1>1 DEF JInv, IInv, Barrier, BeforeStart, Unloaded
<1>3. detail' # "mismatch"
  BY <1>a, <1>1, <1>2, SameStates DEF FaultlessInv
<1>4. detail' # "missing"
  <2>1. /\ Head(messages) \in Message /\ Head(messages).type = "acknowledgement"
        /\ Head(messages).frame = frame /\ messages # <<>>
        /\ Head(pending) = pending[1]
        /\ Len(pending) \in Nat /\ 1 <= Len(pending)
    BY <1>1, TakenAcknowledgement, TakesInbox DEF JInv
  <2>2. NeedsDigest(C, frame)
    <3>1. 1 \in 1 .. Len(pending)
      BY <2>1
    <3> QED
      BY <1>1, <3>1 DEF JInv, Counted
  <2>3. Head(messages).digest # <<>>
    <3>1. Honest(Head(messages))
      <4>1. messages \in Seq(Message)
        BY <1>a DEF TypeOK
      <4> QED
        BY <2>1, <4>1, TailIn DEF FaultlessInv, Answered
    <3> QED
      BY <2>1, <2>2, <3>1, EqualCheckpoints DEF Honest
  <2>4. Head(pending).digest # <<>>
    <3>1. pending[1].digest = <<[frame |-> frame, state |-> core[C]]>>
      <4>1. 1 \in 1 .. Len(pending)
        BY <2>1
      <4> QED
        BY <1>1, <4>1 DEF JInv, IInv, Draining
    <3>2. <<[frame |-> frame, state |-> core[C]]>> # <<>>
      OBVIOUS
    <3> QED
      BY <2>1, <3>1, <3>2, Zenon
  <2>5. detail' = Comparison(Head(pending).digest, Head(messages).digest)
    BY DEF ControllerVerifies
  <2> QED
    BY <2>3, <2>4, <2>5 DEF Comparison
<1> QED
  BY <1>1, <1>3, <1>4

\* The display loads what the controller holds.
LEMMA LoadsSame ==
  ASSUME JInv, Faultless, DisplayLoadsSnapshot
  PROVE  /\ core'["display"] = core["controller"] /\ core'["controller"] = core["controller"]
         /\ pc'["display"] = "sendReady" /\ pc'["controller"] = pc["controller"]
         /\ frame = 0 /\ framesCompleted = 0 /\ pc["controller"] # "step"
<1> DEFINE C == "controller"
           D == "display"
<1>a. /\ TypeOK /\ C \in Phone /\ D \in Phone /\ Faulty = {} /\ pc[D] = "recvSnapshot"
      /\ Accepted(D) /\ frame \in Nat
  BY DEF JInv, IInv, Phone, Faultless, DisplayLoadsSnapshot, TypeOK
<1>1. wire[D] # <<>> /\ Accepts(D, Head(wire[D]))
  BY <1>a, AcceptedHead DEF UsesInbox
<1>2. Forth(DisplayTook + 1, Head(wire[D])) /\ Head(wire[D]).type = "snapshot"
  BY <1>a, <1>1, DisplayHead DEF Accepts
<1>3. Head(wire[D]).state = core[C] /\ Head(wire[D]).stateHash = core[C]
  BY <1>a, <1>2 DEF Forth, BeforeReady
<1>4. /\ core' = [core EXCEPT ![D] = core[C]]
      /\ Goto(D, "sendReady")
  BY <1>a, <1>3 DEF DisplayLoadsSnapshot, AfterLoading
<1>5. ~Begun
  BY <1>a DEF JInv, Verified, Agreed, BeforeReady
<1>6. framesCompleted = 0
  BY <1>a DEF JInv, IInv, Barrier, BeforeStart
<1> QED
  BY <1>a, <1>4, <1>5, <1>6 DEF Begun, Goto, TypeOK

\* The display takes the end of the session for a passed proof.
LEMMA FinishPasses ==
  ASSUME JInv, Calm, DisplayReceivesFinish
  PROVE  pc'["display"] = "sendPassed"
<1>1. pc'["display"] \in {"sendPassed", "sendFailed"}
  BY DEF DisplayReceivesFinish, Goto, JInv, IInv, TypeOK, Phone
<1> QED
  BY <1>1, FinishTaken DEF Calm

\* Ends only come in the order of the code: the display's first.
LEMMA QuietEnds ==
  ASSUME JInv, Signalled, Faultless, FaultlessInv, QuietStep, StepEffects
  PROVE  /\ UNCHANGED <<app, isCancelled, broken, terminalError>>
         /\ \A p \in Phone : closed'[p] => closed[p] \/ pc'[p] = "over"
         /\ \A p \in Phone : outcome'[p] \in {"none", "passed"}
         /\ Success'
         /\ pc'["display"] \notin {"sendFailure", "sendFailed"}
         /\ pc'["controller"] = "over" =>
              pc["controller"] = "over" \/ (ControllerReturns /\ isStopped')
         /\ pc'["display"] = "over" => pc["display"] = "over" \/ DisplayReturns
<1> DEFINE C == "controller"
           D == "display"
           Good ==
             /\ UNCHANGED <<app, isCancelled, broken, terminalError>>
             /\ \A p \in Phone : closed'[p] => closed[p] \/ pc'[p] = "over"
             /\ \A p \in Phone : outcome'[p] \in {"none", "passed"}
             /\ Success'
             /\ pc'[D] \notin {"sendFailure", "sendFailed"}
             /\ pc'[C] = "over" => pc[C] = "over" \/ (ControllerReturns /\ isStopped')
             /\ pc'[D] = "over" => pc[D] = "over" \/ DisplayReturns
<1>a. /\ TypeOK /\ Places /\ C \in Phone /\ D \in Phone /\ C # D /\ Phone = {C, D}
      /\ Calm /\ ~GivesUp /\ Faulty = {}
  BY DEF JInv, IInv, Phone, Faultless, FaultlessInv
\* Steps that end no run.
<1>1. ASSUME UNCHANGED <<app, isCancelled, broken, terminalError, closed, outcome>>,
             detail' = detail \/ detail' = "matched",
             NEW p \in Phone, NEW l \in Labels \ {"over", "sendFailure", "sendFailed"},
             Goto(p, l)
      PROVE  Good
  <2>1. Success'
    BY <1>1, <1>a DEF Calm, Success
  <2>2. pc'[p] = l /\ \A q \in Phone : q # p => pc'[q] = pc[q]
    BY <1>1, <1>a DEF Goto, TypeOK
  <2> QED
    BY <1>1, <1>a, <2>1, <2>2 DEF Calm
<1>2. ASSUME UNCHANGED <<app, isCancelled, broken, terminalError, closed, outcome, detail,
                         pc>>
      PROVE  Good
  <2>1. Success'
    BY <1>2, <1>a DEF Calm, Success
  <2> QED
    BY <1>2, <1>a, <2>1 DEF Calm
\* Steps that end one.
<1>3. ASSUME NEW p \in Phone, Leave(p, "passed"),
             p = C => ControllerReturns, p = D => DisplayReturns
      PROVE  Good
  <2>1. /\ UNCHANGED <<app, isCancelled, broken, terminalError, detail>>
        /\ pc' = [pc EXCEPT ![p] = "over"] /\ outcome' = [outcome EXCEPT ![p] = "passed"]
        /\ closed' = [closed EXCEPT ![p] = TRUE]
        /\ isStopped' = (isStopped \/ p = C)
    BY <1>3 DEF Leave, Goto, progress
  <2>2. Success'
    BY <2>1, <1>a DEF Calm, Success
  <2>3. /\ pc'[p] = "over" /\ outcome'[p] = "passed"
        /\ \A q \in Phone : q # p =>
             pc'[q] = pc[q] /\ outcome'[q] = outcome[q] /\ closed'[q] = closed[q]
    BY <1>a, <2>1 DEF TypeOK
  <2> QED
    BY <1>a, <1>3, <2>1, <2>2, <2>3 DEF Calm
<1> HIDE DEF Good
<1>4. ASSUME NEW p \in Phone, Activate(p), ~isCancelled[p] PROVE Good
  <2>1. /\ UNCHANGED <<app, isCancelled, broken, terminalError, closed, outcome, detail>>
        /\ Goto(p, IF p = C THEN "recvHello" ELSE "sendHello")
    BY <1>4 DEF Activate, progress, inbox
  <2>2. {"recvHello", "sendHello"} \subseteq Labels \ {"over", "sendFailure", "sendFailed"}
    BY DEF Labels
  <2> QED
    BY <1>1, <2>1, <2>2
<1>5. ASSUME ControllerThread PROVE Good
  <2>1. CASE ControllerReturns
    <3>1. Leave(C, "passed")
      BY <1>a, <2>1 DEF ControllerReturns, Calm
    <3> QED
      BY <1>3, <1>a, <2>1, <3>1
  <2>2. CASE ControllerVerifies
    <3>1. /\ UNCHANGED <<app, isCancelled, broken, terminalError, closed, outcome>>
          /\ \E l \in {"lockstep", "drain", "sendFinish"} : Goto(C, l)
      BY <2>2 DEF ControllerVerifies, AfterAcknowledgement, control
    <3>2. detail' = "matched"
      BY <2>2, ComparisonsMatch
    <3>3. {"lockstep", "drain", "sendFinish"}
             \subseteq Labels \ {"over", "sendFailure", "sendFailed"}
      BY DEF Labels
    <3> QED
      BY <1>1, <1>a, <3>1, <3>2, <3>3
  <2>3. CASE ~ControllerReturns /\ ~ControllerVerifies
    <3>1. /\ UNCHANGED <<app, isCancelled, broken, terminalError, closed, outcome, detail>>
          /\ \E l \in Labels \ {"over", "sendFailure", "sendFailed"} : Goto(C, l)
      BY <1>5, <2>3
      DEF ControllerThread, ControllerHandshake, Receives, Sends, ControllerStarts,
          ControllerSendsInput, ControllerSteps, ControllerTakesAcknowledgement,
          ControllerCompletes, ControllerSendsFinish, AfterAcknowledgement, Labels,
          inbox, control, progress
    <3> QED
      BY <1>1, <1>a, <3>1
  <2> QED
    BY <2>1, <2>2, <2>3
<1>6. ASSUME DisplayThread, ~DisplayReportsFailure PROVE Good
  <2>1. CASE DisplayReturns
    <3>1. pc[D] = "sendPassed"
      BY <1>a, <2>1 DEF DisplayReturns, Calm
    <3>2. Leave(D, "passed")
      BY <1>a, <2>1, <3>1 DEF DisplayReturns
    <3> QED
      BY <1>3, <1>a, <2>1, <3>2
  <2>2. CASE ~DisplayReturns
    <3>1. /\ UNCHANGED <<app, isCancelled, broken, terminalError, closed, outcome, detail>>
          /\ \E l \in Labels \ {"over"} : Goto(D, l)
      BY <1>6, <2>2
      DEF DisplayThread, DisplayHandshake, Receives, Sends, DisplayLoadsSnapshot,
          DisplayStarts, DisplayReceivesInput, DisplaySteps, DisplayAcknowledges,
          DisplayReceivesFinish, AfterLoading, Labels, inbox, control, progress
    <3>2. PICK l \in Labels \ {"over"} : Goto(D, l)
      BY <3>1
    <3>3. pc'[D] = l
      BY <1>a, <3>2 DEF Goto, TypeOK
    <3>4. l \notin {"sendFailure", "sendFailed"}
      <4>1. CASE DisplayLoadsSnapshot
        BY <3>3, <4>1, LoadsSame
      <4>2. CASE DisplayReceivesFinish
        BY <1>a, <3>3, <4>2, FinishPasses
      <4>3. CASE ~DisplayLoadsSnapshot /\ ~DisplayReceivesFinish
        <5>1. \E k \in Labels \ {"sendFailure", "sendFailed"} : Goto(D, k)
          BY <1>6, <2>2, <4>3
          DEF DisplayThread, DisplayHandshake, Receives, Sends, DisplayStarts,
              DisplayReceivesInput, DisplaySteps, DisplayAcknowledges, Labels
        <5> QED
          BY <1>a, <3>3, <5>1 DEF Goto, TypeOK
      <4> QED
        BY <4>1, <4>2, <4>3
    <3> QED
      BY <1>1, <1>a, <3>1, <3>2, <3>4
  <2> QED
    BY <2>1, <2>2
<1>7. ASSUME ReaderReceives \/ (ReaderEnds /\ isStopped) \/ UNCHANGED vars PROVE Good
  <2>1. UNCHANGED <<app, isCancelled, broken, terminalError, closed, outcome, detail, pc>>
    BY <1>a, <1>7 DEF ReaderReceives, ReaderEnds, vars, inbox, control, progress, Calm,
                      TypeOK
  <2> QED
    BY <1>2, <2>1
<1>8. Good
  BY <1>4, <1>5, <1>6, <1>7 DEF QuietStep
<1> QED
  BY <1>8 DEF Good

LEMMA CalmKept ==
  ASSUME JInv, JInv', Signalled, Faultless, FaultlessInv, QuietStep, StepEffects,
         [Next]_vars
  PROVE  Calm'
<1> DEFINE C == "controller"
           D == "display"
<1>a. /\ TypeOK /\ TypeOK' /\ Places /\ C \in Phone /\ D \in Phone /\ C # D
      /\ Calm /\ ~GivesUp /\ ~broken
  BY DEF JInv, IInv, Phone, Faultless, FaultlessInv, Calm
<1>1. \A p \in Phone :
        /\ app'[p] = "here" /\ ~isCancelled'[p]
        /\ closed'[p] => pc'[p] = "over"
        /\ outcome'[p] \in {"none", "passed"}
  BY <1>a, QuietEnds DEF Calm, StepEffects
<1>2. ~broken' /\ ~terminalError' /\ Success'
      /\ pc'[D] \notin {"sendFailure", "sendFailed"}
  BY <1>a, QuietEnds DEF Calm
<1>3. ASSUME pc'[C] = "over" PROVE pc'[D] = "over" /\ isStopped'
  <2>1. CASE pc[C] = "over"
    BY <1>a, <2>1, EndsAreKept DEF Calm, StepEffects
  <2>2. CASE pc[C] # "over"
    <3>1. ControllerReturns /\ isStopped'
      BY <1>3, <2>2, QuietEnds
    <3>2. pc[C] = "recvFinishAck" /\ Accepted(C)
      BY <3>1 DEF ControllerReturns
    <3>3. messages # <<>> /\ Accepts(C, Head(messages))
      BY <1>a, <3>2, AcceptedHead DEF UsesInbox
    <3>4. Back(ControllerTook + 1, Head(messages))
          /\ Head(messages).type = "finishAcknowledgement"
      BY <3>2, <3>3, ControllerHead DEF Accepts
    <3>5. pc[D] = "over"
      BY <3>4 DEF Back
    <3> QED
      BY <1>a, <3>1, <3>5 DEF StepEffects
  <2> QED
    BY <2>1, <2>2
<1>4. ASSUME pc'[D] = "over", pc'[C] # "over"
      PROVE  /\ pc'[C] = "recvFinishAck" /\ wire'[D] = <<>>
             /\ isStopped' => messages' # <<>>
             /\ ~isStopped' => wire'[C] # <<>>
\* The display ends now: it has taken all there was, and sends its confirmation.
  <2>1. CASE pc[D] # "over"
    <3>1. /\ DisplayReturns /\ pc[C] # "over"
      BY <1>4, <2>1, <1>a, QuietEnds DEF StepEffects
    <3>2. /\ pc[D] = "sendPassed" /\ Send(D, Signal("finishAcknowledgement"))
          /\ messages' = messages /\ pc' = [pc EXCEPT ![D] = "over"]
          /\ isStopped' = (isStopped \/ D = C)
      BY <1>a, <3>1 DEF DisplayReturns, Leave, Goto, Calm
    <3>3. pc[C] = "recvFinishAck" /\ framesCompleted = frame
      BY <3>1, <3>2 DEF JInv, Ended
    <3>4. ~isStopped
      BY <2>1, <3>1 DEF Signalled
    <3>5. wire'[C] # <<>> /\ wire'[D] = wire[D]
      <4>1. wire[C] \in Seq(Message) /\ Signal("finishAcknowledgement") \in Message
        BY <1>a, MessageTypes DEF TypeOK
      <4>2. wire'[C] = Append(wire[C], Signal("finishAcknowledgement"))
            /\ wire'[D] = wire[D]
        BY <1>a, <3>2 DEF Send, Peer, TypeOK
      <4> QED
        BY <4>1, <4>2, AppendProperties
    <3>6. wire[D] = <<>>
      <4>1. DisplayTook + Len(wire[D]) = ControllerSent
        BY <1>a, <2>1, <3>1 DEF JInv, Arriving
      <4>2. DisplayTook = 4 + framesCompleted /\ ControllerSent = 4 + frame
        BY <3>2, <3>3 DEF DisplayTook, ControllerSent
      <4>3. wire[D] \in Seq(Message) /\ Len(wire[D]) \in Nat /\ frame \in Nat
        BY <1>a DEF TypeOK
      <4>4. PICK k \in Nat, l \in Nat : k = frame /\ l = Len(wire[D])
        BY <4>3
      <4>5. DisplayTook = 4 + k /\ ControllerSent = 4 + k
        BY <3>3, <4>2, <4>4
      <4>6. (4 + k) + l = 4 + k
        BY <4>1, <4>4, <4>5
      <4>7. l = 0
        BY <4>6
      <4> QED
        BY <4>3, <4>4, <4>7, EmptySeq
    <3> QED
      BY <1>a, <3>2, <3>3, <3>4, <3>5, <3>6 DEF TypeOK
\* The display has ended, and the controller takes its confirmation.
  <2>2. CASE pc[D] = "over"
    <3>1. pc[C] # "over"
      BY <1>4, <1>a DEF StepEffects
    <3>2. /\ pc[C] = "recvFinishAck" /\ wire[D] = <<>>
          /\ isStopped => messages # <<>>
          /\ ~isStopped => wire[C] # <<>>
      BY <1>a, <2>2, <3>1 DEF Calm
    <3>3. pc'[C] = "recvFinishAck"
      BY <1>4, <3>2 DEF StepEffects
    <3>4. CASE ReaderReceives
      <4>1. /\ messages' = Append(messages, Head(wire[C])) /\ wire[C] # <<>>
            /\ TakeFromWire(C)
            /\ isStopped' = (Head(wire[C]).type = "finishAcknowledgement")
        BY <3>4 DEF ReaderReceives, Enqueued
      <4>2. wire'[D] = wire[D] /\ Head(wire[C]) \in Message
        BY <1>a, <4>1, TakenIn DEF Peer
      <4>3. messages' # <<>>
        <5>1. messages \in Seq(Message)
          BY <1>a DEF TypeOK
        <5> QED
          BY <4>1, <4>2, <5>1, AppendProperties
      <4>4. ASSUME ~isStopped' PROVE FALSE
        <5>0. /\ wire[C] \in Seq(Message) /\ messages \in Seq(Message)
              /\ ControllerTook \in Int
          BY <1>a, CountTypes DEF TypeOK
        <5>1. PICK n \in Int : n = ControllerTook + Len(messages) + 1
                                /\ Back(n, Head(wire[C])) /\ Sent(Head(wire[C]))
          <6>1. PICK k \in Int : k = ControllerTook + Len(messages) /\ AllBack(wire[C], k)
            BY <3>1, ReturningFacts DEF JInv
          <6>2. Back(k + 1, Head(wire[C]))
            BY <4>1, <5>0, <6>1, BackTaken
          <6>3. Sent(Head(wire[C]))
            BY <4>1, <5>0, SentQueues DEF JInv, IInv, Lead
          <6> QED
            BY <6>1, <6>2, <6>3
        <5>2. /\ frame \in Nat /\ framesCompleted \in Nat /\ Len(messages) \in Nat
              /\ pending = <<>> /\ framesCompleted = frame
          BY <1>a, <3>2 DEF TypeOK, JInv, Ended
        <5>3. ControllerTook = 2 + frame
          BY <3>2, <5>2 DEF ControllerTook, Acknowledged, Announced
        <5>4. n >= 3 + frame
          BY <5>1, <5>2, <5>3
        <5>5. PICK m \in Message : m = Head(wire[C]) /\ m.type # "finishAcknowledgement"
          BY <4>1, <4>2, <4>4
        <5>6. m.type = "acknowledgement" => m.frame \in Nat /\ m.frame <= frame
          BY <5>1, <5>2, <5>5, MessageFields DEF Sent
        <5> QED
          BY <5>1, <5>2, <5>4, <5>5, <5>6 DEF Back
      <4> QED
        BY <3>2, <3>3, <4>2, <4>3, <4>4
    <3>5. CASE ~ReaderReceives
      <4>1. UNCHANGED <<wire, messages, isStopped>>
        <5>1. ~ControllerThread
          <6>1. ControllerReturns => pc'[C] = "over"
            BY <1>a DEF ControllerReturns, Leave, Goto, TypeOK
          <6> QED
            BY <1>4, <3>2, <6>1
            DEF ControllerThread, ControllerHandshake, Receives, Sends, ControllerStarts,
                ControllerSendsInput, ControllerSteps, ControllerTakesAcknowledgement,
                ControllerVerifies, ControllerCompletes, ControllerSendsFinish
        <5>2. ~DisplayThread
          BY <2>2
          DEF DisplayThread, DisplayHandshake, Receives, Sends, DisplayLoadsSnapshot,
              DisplayReportsFailure, DisplayStarts, DisplayReceivesInput, DisplaySteps,
              DisplayAcknowledges, DisplayReceivesFinish, DisplayReturns
        <5>3. \A p \in Phone : ~Activate(p)
          BY <2>2, <3>2 DEF Activate, Phone
        <5> QED
          BY <3>5, <5>1, <5>2, <5>3 DEF QuietStep, ReaderEnds, vars, inbox
      <4> QED
        BY <3>2, <3>3, <4>1
    <3> QED
      BY <3>4, <3>5
  <2> QED
    BY <2>1, <2>2
<1> QED
  BY <1>1, <1>2, <1>3, <1>4 DEF Calm

\* The display answers with its game, and with a digest where one is due.
LEMMA HonestMessages ==
  ASSUME JInv, Calm
  PROVE  /\ Honest(Hello("display")) /\ Hello("display") \in Message
         /\ \A t \in {"ready", "finishAcknowledgement"} :
              Honest(Signal(t)) /\ Signal(t) \in Message
         /\ \A m : pc["display"] = "sendAck" /\
              m = Acknowledge(framesCompleted,
                    IF NeedsDigest("display", framesCompleted)
                    THEN lastDigest["display"] ELSE <<>>)
              => Honest(m) /\ m \in Message
<1> DEFINE D == "display"
<1>a. TypeOK /\ D \in Phone
  BY DEF JInv, IInv, Phone
<1>1. Honest(Hello(D)) /\ Hello(D) \in Message
  BY <1>a, MessageTypes DEF Honest, Hello
<1>2. \A t \in {"ready", "finishAcknowledgement"} : Honest(Signal(t)) /\ Signal(t) \in Message
  BY <1>a, MessageTypes DEF Honest, Signal
<1>3. ASSUME NEW m, pc[D] = "sendAck",
             m = Acknowledge(framesCompleted,
                   IF NeedsDigest(D, framesCompleted) THEN lastDigest[D] ELSE <<>>)
      PROVE  Honest(m) /\ m \in Message
  <2>1. lastDigest[D] \in Digest /\ <<>> \in Digest /\ framesCompleted \in Nat
    <3>1. <<>> \in Digest
      BY DEF Digest
    <3> QED
      BY <1>a, <3>1 DEF TypeOK
  <2>2. m \in Message
    BY <1>a, <1>3, <2>1, MessageTypes
  <2>3. NeedsDigest(D, framesCompleted) =>
          lastDigest[D] = <<[frame |-> framesCompleted, state |-> core[D]]>>
    BY <1>3 DEF JInv, IInv, Barrier
  <2>4. <<[frame |-> framesCompleted, state |-> core[D]]>> # <<>>
    OBVIOUS
  <2>5. NeedsDigest(D, framesCompleted) => lastDigest[D] # <<>>
    BY <2>3, <2>4, Zenon
  <2>6. /\ m.type = "acknowledgement" /\ m.frame = framesCompleted
        /\ m.digest = IF NeedsDigest(D, framesCompleted) THEN lastDigest[D] ELSE <<>>
    BY <1>3 DEF Acknowledge
  <2> QED
    BY <2>2, <2>5, <2>6 DEF Honest
<1> QED
  BY <1>1, <1>2, <1>3

LEMMA AnsweredKept ==
  ASSUME JInv, FaultlessInv, QuietStep, StepEffects
  PROVE  Answered'
<1> DEFINE C == "controller"
           D == "display"
<1>a. /\ TypeOK /\ Places /\ C \in Phone /\ D \in Phone /\ Calm /\ Answered
      /\ wire[C] \in Seq(Message) /\ messages \in Seq(Message) /\ Peer(D) = C /\ Peer(C) = D
  BY DEF JInv, IInv, Phone, FaultlessInv, TypeOK, Peer
<1>b. \A m : Honest(m) => Honest(m)'
  BY DEF Honest, NeedsDigest, StepEffects
<1> SUFFICES ASSUME NEW m, In(wire'[C], m) \/ In(messages', m) PROVE Honest(m)
  BY <1>b DEF Answered
<1>1. ASSUME UNCHANGED <<wire, messages>> PROVE Honest(m)
  BY <1>a, <1>1 DEF Answered
<1>2. CASE \E p \in Phone : Activate(p)
  BY <1>1, <1>2 DEF Activate
<1>3. CASE ControllerThread
  <2>1. ASSUME NEW x \in Message, Send(C, x), messages' = messages PROVE Honest(m)
    <3>1. wire'[C] = wire[C]
      BY <1>a, <2>1, SentIn
    <3> QED
      BY <1>a, <2>1, <3>1 DEF Answered
  <2>2. ASSUME TakeFromWire(C), Accepted(C), ~UsesInbox(C), messages' = messages
        PROVE  Honest(m)
    BY <1>a, <2>2, AcceptedHead, TakenIn DEF Answered
  <2>3. ASSUME TakeFromInbox, Accepted(C), UsesInbox(C), wire' = wire PROVE Honest(m)
    <3>1. messages # <<>> /\ messages' = Tail(messages)
      BY <1>a, <2>3, AcceptedHead DEF TakeFromInbox
    <3> QED
      BY <1>a, <2>3, <3>1, TailIn DEF Answered
  <2>4. CASE ControllerHandshake
    <3>1. /\ core[C] \in State /\ Hello(C) \in Message /\ Snapshot(core[C]) \in Message
      <4>1. core[C] \in State
        BY <1>a DEF TypeOK
      <4> QED
        BY <1>a, <4>1, MessageTypes
    <3> QED
      BY <2>1, <2>2, <2>4, <3>1 DEF ControllerHandshake, Receives, Sends, UsesInbox, inbox
  <2>5. CASE ControllerStarts
    BY <1>a, <2>1, <2>5, MessageTypes DEF ControllerStarts
  <2>6. CASE ControllerSendsInput
    <3>1. PICK i \in Inputs : Send(C, Input(frame + 1, i))
      BY <2>6 DEF ControllerSendsInput
    <3>2. frame + 1 \in Nat
      BY <1>a DEF TypeOK
    <3>3. Input(frame + 1, i) \in Message
      BY <1>a, <3>2, MessageTypes
    <3> QED
      BY <2>1, <2>6, <3>1, <3>3 DEF ControllerSendsInput, inbox
  <2>7. CASE ControllerSteps \/ ControllerCompletes
    BY <1>1, <2>7 DEF ControllerSteps, ControllerCompletes, inbox
  <2>8. CASE ControllerTakesAcknowledgement \/ ControllerVerifies \/ ControllerReturns
    BY <2>3, <2>8 DEF ControllerTakesAcknowledgement, ControllerVerifies,
                      ControllerReturns, UsesInbox
  <2>9. CASE ControllerSendsFinish
    <3>1. frame \in Nat /\ Success \in BOOLEAN
      BY <1>a DEF TypeOK, Success
    <3>2. Finish(frame, Success) \in Message
      BY <1>a, <3>1, MessageTypes
    <3> QED
      BY <2>1, <2>9, <3>2 DEF ControllerSendsFinish, Sends, inbox
  <2> QED
    BY <1>3, <2>4, <2>5, <2>6, <2>7, <2>8, <2>9 DEF ControllerThread
<1>4. CASE DisplayThread /\ ~DisplayReportsFailure
  <2>1. ASSUME NEW x \in Message, Honest(x), Send(D, x), messages' = messages
        PROVE  Honest(m)
    BY <1>a, <2>1, SentIn DEF Answered
  <2>2. ASSUME TakeFromWire(D), Accepted(D), messages' = messages
        PROVE  Honest(m)
    <3>1. ~UsesInbox(D)
      BY <1>a DEF UsesInbox, Places, BeforeReady
    <3> QED
      BY <1>a, <2>2, <3>1, AcceptedHead, TakenIn DEF Answered
  <2>3. CASE DisplayHandshake
    BY <1>a, <2>1, <2>2, <2>3, HonestMessages
    DEF DisplayHandshake, Receives, Sends, inbox, JInv
  <2>4. CASE \/ DisplayLoadsSnapshot \/ DisplayStarts \/ DisplayReceivesInput
             \/ DisplayReceivesFinish
    BY <2>2, <2>4 DEF DisplayLoadsSnapshot, DisplayStarts, DisplayReceivesInput,
                      DisplayReceivesFinish, inbox
  <2>5. CASE DisplaySteps
    BY <1>1, <2>5 DEF DisplaySteps, inbox
  <2>6. CASE DisplayAcknowledges
    <3>1. PICK x : /\ x = Acknowledge(framesCompleted,
                            IF NeedsDigest(D, framesCompleted) THEN lastDigest[D] ELSE <<>>)
                   /\ Send(D, x) /\ messages' = messages /\ pc[D] = "sendAck"
      BY <2>6 DEF DisplayAcknowledges, Sends, inbox
    <3> QED
      BY <1>a, <2>1, <3>1, HonestMessages
  <2>7. CASE DisplayReturns
    BY <1>a, <2>1, <2>7, HonestMessages DEF DisplayReturns
  <2> QED
    BY <1>4, <2>3, <2>4, <2>5, <2>6, <2>7 DEF DisplayThread
<1>5. CASE ReaderReceives
  <2>1. /\ messages' = Append(messages, Head(wire[C])) /\ wire[C] # <<>> /\ TakeFromWire(C)
    BY <1>5 DEF ReaderReceives, Enqueued
  <2>2. Head(wire[C]) \in Message /\ In(wire[C], Head(wire[C]))
        /\ (In(wire'[C], m) => In(wire[C], m))
    BY <1>a, <2>1, TakenIn
  <2>3. In(messages', m) => In(messages, m) \/ m = Head(wire[C])
    BY <1>a, <2>1, <2>2, Appended DEF In
  <2> QED
    BY <1>a, <2>2, <2>3 DEF Answered
<1>6. CASE ReaderEnds \/ UNCHANGED vars
  BY <1>1, <1>6 DEF ReaderEnds, vars, inbox
<1> QED
  BY <1>2, <1>3, <1>4, <1>5, <1>6 DEF QuietStep

\* Each emulation thread runs its own emulator only.
LEMMA ThreadsKeepToTheirs ==
  ASSUME TypeOK
  PROVE  /\ ControllerThread => core'["display"] = core["display"]
         /\ DisplayThread => core'["controller"] = core["controller"]
<1>a. "controller" \in Phone /\ "display" \in Phone /\ "controller" # "display"
  BY DEF Phone
<1>1. ASSUME \/ ControllerHandshake \/ ControllerStarts \/ ControllerSendsInput
             \/ ControllerTakesAcknowledgement \/ ControllerVerifies
             \/ ControllerCompletes \/ ControllerSendsFinish \/ ControllerReturns
             \/ DisplayHandshake \/ DisplayReportsFailure \/ DisplayStarts
             \/ DisplayReceivesInput \/ DisplayAcknowledges \/ DisplayReceivesFinish
             \/ DisplayReturns
      PROVE  core' = core
  BY <1>1 DEF ControllerHandshake, Receives, Sends, ControllerStarts,
     ControllerSendsInput, ControllerTakesAcknowledgement, ControllerVerifies,
     ControllerCompletes, ControllerSendsFinish, ControllerReturns, DisplayHandshake,
     DisplayReportsFailure, DisplayStarts, DisplayReceivesInput, DisplayAcknowledges,
     DisplayReceivesFinish, DisplayReturns, machine
<1>2. ControllerSteps => core'["display"] = core["display"]
  BY <1>a, RunFrameEffect DEF ControllerSteps
<1>3. DisplaySteps => core'["controller"] = core["controller"]
  BY <1>a, RunFrameEffect DEF DisplaySteps
<1>4. DisplayLoadsSnapshot => core'["controller"] = core["controller"]
  BY <1>a DEF DisplayLoadsSnapshot, TypeOK
<1> QED
  BY <1>1, <1>2, <1>3, <1>4 DEF ControllerThread, DisplayThread

\* What the controller's emulator has done, and what its frame under way will do,
\* stays as it is.
LEMMA ControllerRuns ==
  ASSUME JInv, Faultless, FaultlessInv, QuietStep, [Next]_vars, TypeOK'
  PROVE  /\ Len(core'["controller"]) = frame' - Announced'
         /\ \A i \in 1 .. frame : \A e : Planned(i, e) => Planned(i, e)'
         /\ pc'["controller"] \in {"lockstep", "step", "drain"} => ~paused'["controller"]
         /\ frame' >= frame
<1> DEFINE C == "controller"
           D == "display"
           Good == /\ Len(core'[C]) = frame' - Announced'
                   /\ \A i \in 1 .. frame : \A e : Planned(i, e) => Planned(i, e)'
                   /\ pc'[C] \in {"lockstep", "step", "drain"} => ~paused'[C]
                   /\ frame' >= frame
<1> SUFFICES Good
  OBVIOUS
<1>a. /\ TypeOK /\ C \in Phone /\ D \in Phone /\ C # D /\ Same /\ Faulty = {}
      /\ frame \in Nat /\ core[C] \in Seq(Effects) /\ current[C] \in Effects
      /\ Len(core[C]) \in Nat
  BY DEF JInv, IInv, Phone, FaultlessInv, Faultless, TypeOK, State, Effects
<1>1. ASSUME core'[C] = core[C], frame' = frame, current'[C] = current[C],
             paused'[C] = paused[C], pc'[C] = "step" <=> pc[C] = "step",
             pc'[C] \in {"lockstep", "step", "drain"} =>
               pc[C] \in {"lockstep", "step", "drain"}
      PROVE  Good
  <2>1. Announced' = Announced
    BY <1>1 DEF Announced
  <2>2. Len(core'[C]) = frame' - Announced'
    BY <1>1, <1>a, <2>1 DEF Same
  <2>3. \A i, e : Planned(i, e) => Planned(i, e)'
    BY <1>1 DEF Planned
  <2>4. pc'[C] \in {"lockstep", "step", "drain"} => ~paused'[C]
    BY <1>1, <1>a DEF Same
  <2> QED
    BY <1>1, <1>a, <2>2, <2>3, <2>4
<1>2. CASE ControllerSendsInput
  <2>1. /\ pc[C] = "lockstep" /\ pc'[C] = "step" /\ frame' = frame + 1
        /\ core' = core /\ paused' = paused
    BY <1>a, <1>2 DEF ControllerSendsInput, Goto, TypeOK, machine
  <2>2. Len(core[C]) = frame /\ ~paused[C]
    BY <1>a, <2>1 DEF Same, Announced
  <2>3. Len(core'[C]) = frame' - Announced'
    BY <1>a, <2>1, <2>2 DEF Announced
  <2>4. \A i \in 1 .. frame : \A e : Planned(i, e) => Planned(i, e)'
    BY <1>a, <2>1 DEF Planned
  <2> QED
    BY <1>a, <2>1, <2>2, <2>3, <2>4
<1>3. CASE ControllerSteps
  <2>1. /\ pc[C] = "step" /\ pc'[C] \in {"drain", "lockstep"} /\ frame' = frame
        /\ paused' = paused /\ RunFrame(C)
    BY <1>a, <1>3 DEF ControllerSteps, Goto, TypeOK
  <2>2. Len(core[C]) = frame - 1 /\ ~paused[C]
    BY <1>a, <2>1 DEF Same, Announced
  <2>3. core'[C] = Append(core[C], current[C])
    BY <1>a, <2>1, <2>2 DEF RunFrame, TypeOK
  <2>4. /\ Len(core'[C]) = frame
        /\ \A i \in 1 .. frame - 1 : core'[C][i] = core[C][i]
        /\ core'[C][frame] = current[C]
    BY <1>a, <2>2, <2>3, AppendProperties
  <2>5. Len(core'[C]) = frame' - Announced'
    BY <1>a, <2>1, <2>4 DEF Announced
  <2>6. ASSUME NEW i \in 1 .. frame, NEW e, Planned(i, e) PROVE Planned(i, e)'
    <3>1. CASE i = frame
      BY <1>a, <2>1, <2>4, <2>6, <3>1 DEF Planned
    <3>2. CASE i # frame
      <4>1. i \in 1 .. frame - 1
        BY <1>a, <3>2
      <4> QED
        BY <1>a, <2>1, <2>4, <2>6, <3>2, <4>1 DEF Planned
    <3> QED
      BY <3>1, <3>2
  <2> QED
    BY <1>a, <2>1, <2>2, <2>5, <2>6
<1>4. CASE ControllerStarts
  <2>1. /\ pc[C] = "sendStart" /\ pc'[C] = "lockstep" /\ frame' = frame /\ ~paused'[C]
        /\ core' = core /\ current' = current
    BY <1>a, <1>4 DEF ControllerStarts, Goto, TypeOK, progress
  <2>2. Len(core'[C]) = frame' - Announced'
    BY <1>a, <2>1 DEF Same, Announced
  <2>3. \A i, e : Planned(i, e) => Planned(i, e)'
    BY <2>1 DEF Planned
  <2> QED
    BY <1>a, <2>1, <2>2, <2>3
<1>5. CASE ControllerThread /\ ~ControllerSendsInput /\ ~ControllerSteps /\ ~ControllerStarts
  <2>1. UNCHANGED <<core, frame, current, paused>>
    BY <1>5
    DEF ControllerThread, ControllerHandshake, Receives, Sends,
        ControllerTakesAcknowledgement, ControllerVerifies, ControllerCompletes,
        ControllerSendsFinish, ControllerReturns, Leave, machine, progress
  <2>2. \E l \in {"sendHello", "sendSnapshot", "recvReady", "sendStart", "sendFinish",
                  "recvFinishAck", "over"} \cup ({"lockstep", "drain"} \cap {pc[C]})
                 \cup (IF pc[C] = "drain" THEN {"lockstep"} ELSE {}) :
          Goto(C, l) /\ pc[C] # "step"
    BY <1>5
    DEF ControllerThread, ControllerHandshake, Receives, Sends,
        ControllerTakesAcknowledgement, ControllerVerifies, ControllerCompletes,
        ControllerSendsFinish, ControllerReturns, Leave, AfterAcknowledgement
  <2>3. /\ pc[C] # "step" /\ pc'[C] # "step"
        /\ pc'[C] \in {"lockstep", "step", "drain"} => pc[C] \in {"lockstep", "step", "drain"}
    BY <1>a, <2>2 DEF Goto, TypeOK
  <2> HIDE DEF Good
  <2> QED
    BY <1>1, <2>1, <2>3
<1>6. CASE DisplayThread
  <2>1. /\ core'[C] = core[C]
    BY <1>a, <1>6, ThreadsKeepToTheirs
  <2>2. frame' = frame
    BY <1>6
       DEF DisplayThread, DisplayHandshake, Receives, Sends, DisplayLoadsSnapshot,
           DisplayReportsFailure, DisplayStarts, DisplayReceivesInput, DisplaySteps,
           DisplayAcknowledges, DisplayReceivesFinish, DisplayReturns, Leave, progress
  <2>3. current' = current \/ \E i : current' = [current EXCEPT ![D] = i]
    BY <1>6
       DEF DisplayThread, DisplayHandshake, Receives, Sends, DisplayLoadsSnapshot,
           DisplayReportsFailure, DisplayStarts, DisplayReceivesInput, DisplaySteps,
           DisplayAcknowledges, DisplayReceivesFinish, DisplayReturns, Leave, progress
  <2>4. paused' = paused \/ paused' = [paused EXCEPT ![D] = FALSE]
    BY <1>6
       DEF DisplayThread, DisplayHandshake, Receives, Sends, DisplayLoadsSnapshot,
           DisplayReportsFailure, DisplayStarts, DisplayReceivesInput, DisplaySteps,
           DisplayAcknowledges, DisplayReceivesFinish, DisplayReturns, machine
  <2>5. \E l : Goto(D, l)
    BY <1>6
       DEF DisplayThread, DisplayHandshake, Receives, Sends, DisplayLoadsSnapshot,
           DisplayReportsFailure, DisplayStarts, DisplayReceivesInput, DisplaySteps,
           DisplayAcknowledges, DisplayReceivesFinish, DisplayReturns, Leave
  <2>6. current'[C] = current[C] /\ paused'[C] = paused[C] /\ pc'[C] = pc[C]
    BY <1>a, <2>3, <2>4, <2>5 DEF Goto, TypeOK
  <2> HIDE DEF Good
  <2> QED
    BY <1>1, <2>1, <2>2, <2>6
<1>7. ASSUME NEW p \in Phone, Activate(p), ~isCancelled[p] PROVE Good
  <2>1. /\ UNCHANGED <<core, frame, current, paused>>
        /\ Goto(p, IF p = C THEN "recvHello" ELSE "sendHello") /\ pc[p] = "activate"
    BY <1>7 DEF Activate, progress, machine
  <2>2. pc'[C] = pc[C] \/ (pc'[C] = "recvHello" /\ pc[C] # "step")
    <3>1. CASE p = C
      BY <1>a, <2>1, <3>1 DEF Goto, TypeOK
    <3>2. CASE p # C
      <4>1. pc' = [pc EXCEPT ![p] = "sendHello"]
        BY <2>1, <3>2 DEF Goto
      <4>2. pc'[C] = pc[C]
        BY <1>a, <3>2, <4>1 DEF TypeOK
      <4> QED
        BY <4>2
    <3> QED
      BY <3>1, <3>2
  <2> HIDE DEF Good
  <2> QED
    BY <1>1, <2>1, <2>2
<1>8. CASE ReaderReceives \/ ReaderEnds \/ UNCHANGED vars
  <2>1. UNCHANGED <<core, frame, current, paused, pc>>
    BY <1>8 DEF ReaderReceives, ReaderEnds, vars, progress, machine
  <2> HIDE DEF Good
  <2> QED
    BY <1>1, <2>1
<1>9. Good
  <2> HIDE DEF Good
  <2> QED
    BY <1>2, <1>3, <1>4, <1>5, <1>6, <1>7, <1>8 DEF QuietStep
<1> QED
  BY <1>9

\* Inputs on their way to the display are those of the controller's frames.
LEMMA InputsAgree ==
  ASSUME JInv, Faultless, FaultlessInv, QuietStep, [Next]_vars, TypeOK',
         NEW m, In(wire'["display"], m), m.type = "input"
  PROVE  m.frame \in 1 .. frame' /\ Planned(m.frame, m.input)'
<1> DEFINE C == "controller"
           D == "display"
<1>a. /\ TypeOK /\ Places /\ C \in Phone /\ D \in Phone /\ Same /\ frame \in Nat
      /\ frame' \in Nat /\ Peer(C) = D /\ Peer(D) = C
  BY DEF JInv, IInv, Phone, FaultlessInv, TypeOK, Peer
<1>1. ASSUME In(wire[D], m) PROVE m.frame \in 1 .. frame' /\ Planned(m.frame, m.input)'
  <2>1. m.frame \in 1 .. frame /\ Planned(m.frame, m.input)
    BY <1>a, <1>1 DEF Same
  <2>2. frame' >= frame
    BY ControllerRuns
  <2> QED
    BY <1>a, <2>1, <2>2, ControllerRuns
<1>2. CASE ControllerSendsInput
  <2>1. PICK i \in Inputs : Send(C, Input(frame + 1, i)) /\ current' = [current EXCEPT ![C] = i]
    BY <1>2 DEF ControllerSendsInput
  <2>2. Input(frame + 1, i) \in Message
    <3>1. frame + 1 \in Nat
      BY <1>a
    <3> QED
      BY <1>a, <3>1, MessageTypes
  <2>3. In(wire[D], m) \/ m = Input(frame + 1, i)
    BY <1>a, <2>1, <2>2, SentIn
  <2>4. /\ frame' = frame + 1 /\ pc'[C] = "step" /\ current'[C] = i
    BY <1>a, <1>2, <2>1 DEF ControllerSendsInput, Goto, TypeOK
  <2>5. ASSUME m = Input(frame + 1, i)
        PROVE  m.frame \in 1 .. frame' /\ Planned(m.frame, m.input)'
    <3>1. m.frame = frame' /\ m.input = i
      BY <2>4, <2>5 DEF Input
    <3>2. m.frame \in 1 .. frame'
      BY <1>a, <2>4, <3>1
    <3> QED
      BY <2>4, <3>1, <3>2 DEF Planned
  <2> QED
    BY <1>1, <2>3, <2>5
<1>3. CASE ~ControllerSendsInput
  <2>1. ASSUME NEW x \in Message, x.type # "input", Send(C, x) PROVE In(wire[D], m)
    BY <1>a, <2>1, SentIn
  <2>2. ASSUME NEW x \in Message, Send(D, x) PROVE In(wire[D], m)
    BY <1>a, <2>2, SentIn
  <2>3. ASSUME NEW p \in Phone, TakeFromWire(p), Accepted(p), ~UsesInbox(p)
        PROVE In(wire[D], m)
    BY <1>a, <2>3, AcceptedHead, TakenIn
  <2>4. CASE wire' = wire
    BY <1>1, <2>4
  <2>5. CASE ControllerHandshake
    <3>1. core[C] \in State
      BY <1>a DEF TypeOK
    <3>2. /\ Hello(C) \in Message /\ Snapshot(core[C]) \in Message
          /\ Hello(C).type # "input" /\ Snapshot(core[C]).type # "input"
      BY <1>a, <3>1, MessageTypes DEF Hello, Snapshot
    <3>3. In(wire[D], m)
      BY <1>a, <2>1, <2>3, <2>5, <3>2 DEF ControllerHandshake, Receives, Sends, UsesInbox
    <3> QED
      BY <1>1, <3>3
  <2>6. CASE ControllerStarts
    <3>1. Signal("start") \in Message /\ Signal("start").type # "input"
      BY <1>a, MessageTypes DEF Signal
    <3> QED
      BY <1>1, <2>1, <2>6, <3>1 DEF ControllerStarts
  <2>7. CASE ControllerSendsFinish
    <3>1. Success \in BOOLEAN
      BY DEF Success
    <3>2. Finish(frame, Success) \in Message /\ Finish(frame, Success).type # "input"
      BY <1>a, <3>1, MessageTypes DEF Finish
    <3> QED
      BY <1>1, <2>1, <2>7, <3>2 DEF ControllerSendsFinish, Sends
  <2>8. CASE DisplayThread /\ ~DisplayReportsFailure
    <3>a. ~UsesInbox(D)
      BY <1>a DEF UsesInbox, Places, BeforeReady
    <3>b. Calm
      BY DEF FaultlessInv
    <3>1. In(wire[D], m) \/ wire' = wire
      BY <1>a, <2>2, <2>3, <2>8, <3>a, <3>b, HonestMessages
      DEF DisplayThread, DisplayHandshake, Receives, Sends, DisplayLoadsSnapshot,
          DisplayStarts, DisplayReceivesInput, DisplaySteps, DisplayAcknowledges,
          DisplayReceivesFinish, DisplayReturns
    <3> QED
      BY <1>1, <2>4, <3>1
  <2>9. CASE ReaderReceives
    <3>1. wire'[D] = wire[D]
      BY <1>a, <2>9, TakenIn DEF ReaderReceives
    <3> QED
      BY <1>1, <3>1
  <2>10. CASE \/ ControllerSteps \/ ControllerTakesAcknowledgement \/ ControllerVerifies
              \/ ControllerCompletes \/ ControllerReturns \/ ReaderEnds \/ UNCHANGED vars
              \/ \E p \in Phone : Activate(p)
    BY <2>4, <2>10 DEF ControllerSteps, ControllerTakesAcknowledgement, ControllerVerifies,
                       ControllerCompletes, ControllerReturns, ReaderEnds, vars, Activate
  <2> QED
    BY <1>3, <2>5, <2>6, <2>7, <2>8, <2>9, <2>10 DEF QuietStep, ControllerThread
<1> QED
  BY <1>2, <1>3

\* The display's emulator does what the controller's did.
LEMMA DisplayRuns ==
  ASSUME JInv, Faultless, FaultlessInv, QuietStep, [Next]_vars, TypeOK'
  PROVE  /\ pc'["display"] \notin Unloaded =>
              /\ Len(core'["display"]) = framesCompleted'
              /\ \A i \in 1 .. framesCompleted' : Planned(i, core["display"][i])'
         /\ pc'["display"] = "step" => Planned(framesCompleted + 1, current["display"])'
         /\ pc'["display"] \in {"recvFrame", "step", "sendAck"} => ~paused'["display"]
<1> DEFINE C == "controller"
           D == "display"
           Good == /\ pc'[D] \notin Unloaded =>
                        /\ Len(core'[D]) = framesCompleted'
                        /\ \A i \in 1 .. framesCompleted' : Planned(i, core[D][i])'
                   /\ pc'[D] = "step" => Planned(framesCompleted + 1, current[D])'
                   /\ pc'[D] \in {"recvFrame", "step", "sendAck"} => ~paused'[D]
<1> SUFFICES Good
  OBVIOUS
<1>a. /\ TypeOK /\ Places /\ C \in Phone /\ D \in Phone /\ C # D /\ Same /\ Faulty = {}
      /\ frame \in Nat /\ framesCompleted \in Nat /\ core[D] \in Seq(Effects)
      /\ current[D] \in Effects
  BY DEF JInv, IInv, Phone, FaultlessInv, Faultless, TypeOK, State, Effects
<1>b. /\ framesCompleted <= frame
      /\ pc[D] = "step" => framesCompleted + 1 <= frame
  BY DEF JInv, IInv, Lead
<1>c. \A i \in 1 .. frame : \A e : Planned(i, e) => Planned(i, e)'
  BY ControllerRuns
<1>1. ASSUME core'[D] = core[D], framesCompleted' = framesCompleted,
             current'[D] = current[D], paused'[D] = paused[D],
             pc'[D] \notin Unloaded => pc[D] \notin Unloaded,
             pc'[D] = "step" => pc[D] = "step",
             pc'[D] \in {"recvFrame", "step", "sendAck"} =>
               pc[D] \in {"recvFrame", "step", "sendAck"}
      PROVE  Good
  <2>1. ASSUME pc'[D] \notin Unloaded, NEW i \in 1 .. framesCompleted'
        PROVE  Planned(i, core[D][i])'
    <3>1. Planned(i, core[D][i]) /\ i \in 1 .. frame
      BY <1>1, <1>a, <1>b, <2>1 DEF Same
    <3>2. PICK e : e = core[D][i]
      OBVIOUS
    <3>3. Planned(i, e)'
      BY <1>c, <3>1, <3>2
    <3>4. e = core'[D][i]
      BY <1>1, <3>2
    <3> QED
      BY <3>3, <3>4 DEF Planned
  <2>2. ASSUME pc'[D] = "step" PROVE Planned(framesCompleted + 1, current[D])'
    <3>1. Planned(framesCompleted + 1, current[D]) /\ framesCompleted + 1 \in 1 .. frame
      BY <1>1, <1>a, <1>b, <2>2 DEF Same
    <3>2. PICK e, i : e = current[D] /\ i = framesCompleted + 1
      OBVIOUS
    <3>3. Planned(i, e)'
      BY <1>c, <3>1, <3>2
    <3>4. e = current'[D] /\ i = framesCompleted' + 1
      BY <1>1, <3>2
    <3> QED
      BY <3>3, <3>4 DEF Planned
  <2> QED
    BY <1>1, <1>a, <2>1, <2>2 DEF Same
<1>2. CASE DisplaySteps
  <2>1. /\ pc[D] = "step" /\ pc'[D] = "sendAck" /\ framesCompleted' = framesCompleted + 1
        /\ paused' = paused /\ RunFrame(D)
    BY <1>a, <1>2 DEF DisplaySteps, Goto, TypeOK
  <2>2. Len(core[D]) = framesCompleted /\ ~paused[D]
    BY <1>a, <2>1 DEF Same, Unloaded
  <2>3. core'[D] = Append(core[D], current[D])
    BY <1>a, <2>1, <2>2 DEF RunFrame, TypeOK
  <2>4. /\ Len(core'[D]) = framesCompleted'
        /\ \A i \in 1 .. framesCompleted : core'[D][i] = core[D][i]
        /\ core'[D][framesCompleted'] = current[D]
    BY <1>a, <2>1, <2>2, <2>3, AppendProperties
  <2>5. ASSUME NEW i \in 1 .. framesCompleted' PROVE Planned(i, core[D][i])'
    <3>1. PICK e : e = core'[D][i]
      OBVIOUS
    <3>2. Planned(i, e)
      <4>1. CASE i = framesCompleted + 1
        BY <1>a, <2>1, <2>4, <3>1, <4>1 DEF Same
      <4>2. CASE i # framesCompleted + 1
        <5>1. i \in 1 .. framesCompleted
          BY <1>a, <2>1, <4>2
        <5> QED
          BY <1>a, <2>1, <2>4, <3>1, <5>1 DEF Same, Unloaded
      <4> QED
        BY <4>1, <4>2
    <3>3. i \in 1 .. frame
      BY <1>a, <1>b, <2>1
    <3>4. Planned(i, e)'
      BY <1>c, <3>2, <3>3
    <3> QED
      BY <3>1, <3>4 DEF Planned
  <2> QED
    BY <1>a, <2>1, <2>2, <2>4, <2>5
<1>3. CASE DisplayLoadsSnapshot
  <2>1. /\ core'[D] = core[C] /\ pc'[D] = "sendReady" /\ frame = 0 /\ framesCompleted = 0
        /\ pc[C] # "step"
    BY <1>3, LoadsSame
  <2>2. framesCompleted' = framesCompleted
    BY <1>3 DEF DisplayLoadsSnapshot, progress
  <2>3. Len(core[C]) = 0
    <3>1. Announced = 0
      BY <2>1 DEF Announced
    <3>2. Len(core[C]) = frame - Announced
      BY <1>a DEF Same
    <3> QED
      BY <2>1, <3>1, <3>2
  <2> QED
    BY <2>1, <2>2, <2>3
<1>4. CASE DisplayReceivesInput
  <2>1. /\ pc[D] = "recvFrame" /\ pc'[D] = "step" /\ Accepted(D)
        /\ current'[D] = Head(wire[D]).input /\ Head(wire[D]).type = "input"
        /\ core' = core /\ paused' = paused /\ framesCompleted' = framesCompleted
    BY <1>a, <1>4 DEF DisplayReceivesInput, Goto, TypeOK, machine
  <2>2. wire[D] # <<>> /\ Accepts(D, Head(wire[D]))
    BY <1>a, <2>1, AcceptedHead DEF UsesInbox
  <2>3. PICK m : m = Head(wire[D]) /\ In(wire[D], m)
    BY <1>a, <2>2, TailIn DEF TypeOK
  <2>4. /\ m.type = "input" /\ m.frame = framesCompleted + 1 /\ current'[D] = m.input
    BY <2>1, <2>2, <2>3 DEF Accepts
  <2>5. m.frame \in 1 .. frame /\ Planned(m.frame, m.input)
    BY <1>a, <2>3, <2>4 DEF Same
  <2>6. PICK e, i : e = m.input /\ i = m.frame
    OBVIOUS
  <2>7. Planned(i, e)' /\ e = current'[D] /\ i = framesCompleted' + 1
    BY <1>c, <2>1, <2>4, <2>5, <2>6
  <2>8. Planned(framesCompleted + 1, current[D])'
    BY <2>7 DEF Planned
  <2>9. ASSUME NEW j \in 1 .. framesCompleted' PROVE Planned(j, core[D][j])'
    <3>1. Planned(j, core[D][j]) /\ j \in 1 .. frame
      BY <1>a, <1>b, <2>1, <2>9 DEF Same, Unloaded
    <3>2. PICK k : k = core[D][j]
      OBVIOUS
    <3>3. Planned(j, k)' /\ k = core'[D][j]
      BY <1>c, <2>1, <3>1, <3>2
    <3> QED
      BY <3>3 DEF Planned
  <2> QED
    BY <1>a, <2>1, <2>8, <2>9 DEF Same, Unloaded
<1>5. CASE DisplayStarts
  <2>1. /\ pc[D] = "recvStart" /\ pc'[D] = "recvFrame" /\ ~paused'[D] /\ core' = core
        /\ framesCompleted' = framesCompleted
    BY <1>a, <1>5 DEF DisplayStarts, Goto, TypeOK, progress
  <2>2. ASSUME NEW j \in 1 .. framesCompleted' PROVE Planned(j, core[D][j])'
    <3>1. Planned(j, core[D][j]) /\ j \in 1 .. frame
      BY <1>a, <1>b, <2>1, <2>2 DEF Same, Unloaded
    <3>2. PICK k : k = core[D][j]
      OBVIOUS
    <3>3. Planned(j, k)' /\ k = core'[D][j]
      BY <1>c, <2>1, <3>1, <3>2
    <3> QED
      BY <3>3 DEF Planned
  <2> QED
    BY <1>a, <2>1, <2>2 DEF Same, Unloaded
<1>6. CASE /\ DisplayThread /\ ~DisplayReportsFailure
           /\ ~DisplaySteps /\ ~DisplayLoadsSnapshot /\ ~DisplayReceivesInput /\ ~DisplayStarts
  <2>1. UNCHANGED <<core, framesCompleted, current, paused>>
    BY <1>6 DEF DisplayThread, DisplayHandshake, Receives, Sends, DisplayAcknowledges,
                DisplayReceivesFinish, DisplayReturns, Leave, machine, progress
  <2>2. \E l : /\ Goto(D, l)
               /\ l \notin Unloaded => pc[D] \notin Unloaded
               /\ l # "step"
               /\ l \in {"recvFrame", "step", "sendAck"} => pc[D] = "sendAck"
    BY <1>6 DEF DisplayThread, DisplayHandshake, Receives, Sends, DisplayAcknowledges,
                DisplayReceivesFinish, DisplayReturns, Leave, Unloaded
  <2>3. \E l : /\ pc'[D] = l
               /\ l \notin Unloaded => pc[D] \notin Unloaded
               /\ l # "step"
               /\ l \in {"recvFrame", "step", "sendAck"} => pc[D] = "sendAck"
    BY <1>a, <2>2 DEF Goto, TypeOK
  <2> HIDE DEF Good
  <2> QED
    BY <1>1, <2>1, <2>3
<1>7. CASE ControllerThread
  <2>1. core'[D] = core[D]
    BY <1>a, <1>7, ThreadsKeepToTheirs
  <2>2. framesCompleted' = framesCompleted
    BY <1>7
       DEF ControllerThread, ControllerHandshake, Receives, Sends, ControllerStarts,
           ControllerSendsInput, ControllerSteps, ControllerTakesAcknowledgement,
           ControllerVerifies, ControllerCompletes, ControllerSendsFinish,
           ControllerReturns, Leave, progress
  <2>3. current' = current \/ \E i : current' = [current EXCEPT ![C] = i]
    BY <1>7
       DEF ControllerThread, ControllerHandshake, Receives, Sends, ControllerStarts,
           ControllerSendsInput, ControllerSteps, ControllerTakesAcknowledgement,
           ControllerVerifies, ControllerCompletes, ControllerSendsFinish,
           ControllerReturns, Leave, progress
  <2>4. paused' = paused \/ paused' = [paused EXCEPT ![C] = FALSE]
    BY <1>7
       DEF ControllerThread, ControllerHandshake, Receives, Sends, ControllerStarts,
           ControllerSendsInput, ControllerSteps, ControllerTakesAcknowledgement,
           ControllerVerifies, ControllerCompletes, ControllerSendsFinish,
           ControllerReturns, machine
  <2>5. \E l : Goto(C, l)
    BY <1>7
       DEF ControllerThread, ControllerHandshake, Receives, Sends, ControllerStarts,
           ControllerSendsInput, ControllerSteps, ControllerTakesAcknowledgement,
           ControllerVerifies, ControllerCompletes, ControllerSendsFinish,
           ControllerReturns, Leave
  <2>6. current'[D] = current[D] /\ paused'[D] = paused[D] /\ pc'[D] = pc[D]
    BY <1>a, <2>3, <2>4, <2>5 DEF Goto, TypeOK
  <2> HIDE DEF Good
  <2> QED
    BY <1>1, <2>1, <2>2, <2>6
<1>8. ASSUME NEW p \in Phone, Activate(p), ~isCancelled[p] PROVE Good
  <2>1. /\ UNCHANGED <<core, framesCompleted, current, paused>>
        /\ Goto(p, IF p = C THEN "recvHello" ELSE "sendHello") /\ pc[p] = "activate"
    BY <1>8 DEF Activate, progress, machine
  <2>2. pc'[D] = pc[D] \/ pc'[D] = "sendHello"
    BY <1>a, <2>1 DEF Goto, TypeOK, Phone
  <2> HIDE DEF Good
  <2> QED
    BY <1>1, <2>1, <2>2 DEF Unloaded
<1>9. CASE ReaderReceives \/ ReaderEnds \/ UNCHANGED vars
  <2>1. UNCHANGED <<core, framesCompleted, current, paused, pc>>
    BY <1>9 DEF ReaderReceives, ReaderEnds, vars, progress, machine
  <2> HIDE DEF Good
  <2> QED
    BY <1>1, <2>1
<1> HIDE DEF Good
<1> QED
  BY <1>2, <1>3, <1>4, <1>5, <1>6, <1>7, <1>8, <1>9 DEF QuietStep

LEMMA FaultlessInit == Init /\ Faultless => FaultlessInv
<1> SUFFICES ASSUME Init, Faultless PROVE FaultlessInv
  OBVIOUS
<1>1. Calm
  BY DEF Init, Calm, Success, Phone
<1>2. Answered
  BY DEF Init, Answered, In, Phone
<1>3. Same
  <2>1. /\ core["controller"] = <<>> /\ wire["display"] = <<>> /\ frame = 0
        /\ pc["controller"] = "activate" /\ pc["display"] = "activate"
    BY DEF Init, Phone
  <2>2. Len(core["controller"]) = 0 /\ Announced = 0
    BY <2>1 DEF Announced
  <2>3. \A m : ~In(wire["display"], m)
    BY <2>1 DEF In
  <2> QED
    BY <2>1, <2>2, <2>3 DEF Same, Unloaded
<1> QED
  BY <1>1, <1>2, <1>3 DEF FaultlessInv

LEMMA FaultlessStep ==
  ASSUME JInv, JInv', Signalled, [Next]_vars, Faultless => FaultlessInv
  PROVE  (Faultless => FaultlessInv)'
<1>1. TypeOK /\ TypeOK' /\ StepEffects
  BY NextEffects DEF JInv, IInv
<1>2. Faultless' => Faultless
  BY <1>1 DEF Faultless, StepEffects
<1> SUFFICES ASSUME Faultless PROVE FaultlessInv'
  BY <1>2
<1>3. FaultlessInv /\ QuietStep
  BY StepsAreQuiet
<1>4. Calm'
  BY <1>1, <1>3, CalmKept
<1>5. Answered'
  BY <1>1, <1>3, AnsweredKept
<1>6. Same'
  <2>1. \A m : In(wire'["display"], m) /\ m.type = "input" =>
          m.frame \in 1 .. frame' /\ Planned(m.frame, m.input)'
    BY <1>1, <1>3, InputsAgree
  <2> QED
    BY <1>1, <1>3, <2>1, ControllerRuns, DisplayRuns DEF Same
<1> QED
  BY <1>4, <1>5, <1>6 DEF FaultlessInv

\* For every window, interval, frame limit and buffer size: where nothing fails and
\* both phones were given the same arguments and the same game, neither reports
\* anything but a passed proof, whatever the schedule (runController, runDisplay).
THEOREM NothingFalselyFails == Spec => []NoFalseAlarm
<1>1. FaultlessInv => \A p \in Phone : outcome[p] \in {"none", "passed"}
  BY DEF FaultlessInv, Calm
<1>2. (Faultless => FaultlessInv) => NoFalseAlarm
  BY <1>1 DEF NoFalseAlarm
<1>3. Init => (Faultless => FaultlessInv)
  BY FaultlessInit
<1>4. /\ JInv /\ JInv' /\ Signalled /\ [Next]_vars /\ (Faultless => FaultlessInv)
      => (Faultless => FaultlessInv)'
  BY FaultlessStep
<1>5. Init => Signalled
  BY SignalledInit
<1>6. JInv /\ Signalled /\ [Next]_vars => Signalled'
  BY SignalledKept, NextEffects DEF JInv, IInv
<1> QED
  BY <1>2, <1>3, <1>4, <1>5, <1>6, SessionInvariance, PTL DEF Spec

(***************************************************************************)
(* What the display acknowledges.                                          *)
(*                                                                         *)
(* A display that leaves the foreground acknowledges frames its paused     *)
(* emulator did not run.  Nothing else makes it: not the faults, not the   *)
(* network, not the controller's leaving.                                  *)
(***************************************************************************)
\* While the display's app stays in the foreground, every frame it acknowledges was
\* run by its emulator, whatever else fails (runDisplay, stepFrame).
THEOREM AcknowledgedFramesAreRun ==
  "display" \notin Leavers => (Spec => []AcknowledgedFramesRan)
<1> DEFINE Here == app["display"] = "here"
<1> SUFFICES ASSUME "display" \notin Leavers PROVE Spec => []AcknowledgedFramesRan
  OBVIOUS
<1>1. Init => Here
  BY DEF Init, Phone
<1>2. TypeOK /\ Here /\ [Next]_vars => Here'
  BY AppChange DEF AppLeaves, CancelSession, Phone
<1>3. Ran /\ Here => AcknowledgedFramesRan
  BY DEF Ran, DisplayRan, AcknowledgedFramesRan
<1>4. JInv => TypeOK
  BY DEF JInv, IInv
<1> HIDE DEF Here
<1> QED
  BY <1>1, <1>2, <1>3, <1>4, RanInvariance, SessionInvariance, PTL DEF Spec
=============================================================================
