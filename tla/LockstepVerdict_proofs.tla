------------------------ MODULE LockstepVerdict_proofs ------------------------
(***************************************************************************)
(* Proofs about what the two phones say of a session, for every window,    *)
(* checkpoint interval, frame limit, buffer size and set of faults: nobody *)
(* starts on different states, no message arrives out of sequence, the     *)
(* verdict is true, and the session implements the lockstep of Lockstep.   *)
(***************************************************************************)
EXTENDS LockstepSession_proofs, Configuration

(***************************************************************************)
(* The invariant.                                                          *)
(*                                                                         *)
(* What a phone receives next follows from numbering the messages of each  *)
(* phone from the start of the session: those on their way to a phone are  *)
(* the ones after those it took.                                           *)
(***************************************************************************)
\* Messages the display has taken.
DisplayTook ==
  IF pc["display"] \in {"activate", "sendHello", "recvHello"} THEN 0
  ELSE IF pc["display"] = "recvSnapshot" THEN 1
  ELSE IF pc["display"] \in {"sendReady", "sendFailure", "recvStart"} THEN 2
  ELSE IF pc["display"] \in {"recvFrame", "sendAck"} THEN 3 + framesCompleted
  ELSE 4 + framesCompleted

\* Messages the controller has sent.
ControllerSent ==
  IF pc["controller"] \in {"activate", "recvHello", "sendHello"} THEN 0
  ELSE IF pc["controller"] = "sendSnapshot" THEN 1
  ELSE IF pc["controller"] \in {"recvReady", "sendStart"} THEN 2
  ELSE IF pc["controller"] = "recvFinishAck" THEN 4 + frame
  ELSE 3 + frame

\* Messages the controller has taken.
ControllerTook ==
  IF pc["controller"] \in {"activate", "recvHello"} THEN 0
  ELSE IF pc["controller"] \in {"sendHello", "sendSnapshot", "recvReady"} THEN 1
  ELSE 2 + Acknowledged

\* Messages the display has sent.
DisplaySent ==
  IF pc["display"] \in {"activate", "sendHello"} THEN 0
  ELSE IF pc["display"] \in {"recvHello", "recvSnapshot", "sendReady", "sendFailure"}
    THEN 1
  ELSE IF pc["display"] = "recvStart" THEN 2
  ELSE IF pc["display"] = "sendAck" THEN 1 + framesCompleted
  ELSE 2 + framesCompleted

\* The display has not said that it is ready.
BeforeReady ==
  {"activate", "sendHello", "recvHello", "recvSnapshot", "sendReady", "sendFailure"}

\* The controller will begin no more frames, and the display has run them all.
Still ==
  /\ pc["controller"] \in {"sendFinish", "recvFinishAck", "over"}
  /\ pc["display"] \notin BeforeReady
  /\ framesCompleted = frame

\* What a passed proof claims.
Settled ==
  /\ Still
  /\ frame = Limit["controller"]
  /\ core["controller"] = core["display"]
  /\ checkpoints["controller"] <= checkpoints["display"]

Verdict == IF Success THEN "passed" ELSE "failed"

\* Message n of the controller.
Forth(n, m) ==
  \/ n = 1 /\ m.type = "hello" /\ m.identity = game["controller"]
  \/ /\ n = 2 /\ m.type = "snapshot"
     /\ pc["display"] \in BeforeReady =>
          m.state = core["controller"] /\ m.stateHash = core["controller"]
  \/ n = 3 /\ m.type = "start"
  \/ m.type = "input" /\ n = 3 + m.frame /\ 1 <= m.frame
  \/ /\ m.type = "finish" /\ n = 4 + m.frame /\ m.frame = frame
     /\ pc["controller"] \in {"recvFinishAck", "over"}
     /\ m.success = Success
     /\ m.success => Settled

\* Message n of the display.
Back(n, m) ==
  \/ n = 1 /\ m.type = "hello"
  \/ n = 2 /\ m.type \in {"ready", "failure"}
  \/ /\ m.type = "acknowledgement" /\ n = 2 + m.frame /\ 1 <= m.frame
     /\ m.digest # <<>> => NeedsDigest("display", m.frame)
  \/ /\ m.type = "finishAcknowledgement" /\ n = 3 + framesCompleted
     /\ pc["display"] = "over" /\ pc["controller"] \in {"recvFinishAck", "over"}
     /\ \/ outcome["display"] = Verdict
        \/ GivesUp /\ outcome["display"] = "transport"

AllForth(s, n) == \A i \in 1 .. Len(s) : Forth(n + i, s[i])
AllBack(s, n) == \A i \in 1 .. Len(s) : Back(n + i, s[i])

\* What is on its way, all of it unless the network has failed.
Arriving ==
  pc["display"] # "over" =>
    /\ AllForth(wire["display"], DisplayTook)
    /\ ~broken /\ pc["controller"] # "over" =>
         DisplayTook + Len(wire["display"]) = ControllerSent

Returning ==
  pc["controller"] # "over" =>
    /\ AllBack(messages, ControllerTook)
    /\ AllBack(wire["controller"], ControllerTook + Len(messages))
    /\ ~broken /\ pc["display"] # "over" =>
         ControllerTook + Len(messages) + Len(wire["controller"]) = DisplaySent

Has(s, t) == \E i \in 1 .. Len(s) : s[i].type = t

\* The session has begun, or is about to, on some phone.
Begun ==
  \/ pc["controller"] \in {"sendStart", "lockstep", "step", "drain", "sendFinish",
                           "recvFinishAck"}
  \/ pc["display"] \notin BeforeReady \cup {"over"}
  \/ frame > 0
  \/ \E p \in Phone : ~paused[p]
  \/ Has(wire["controller"], "ready") \/ Has(wire["display"], "start")

Agreed ==
  /\ game["controller"] = game["display"]
  /\ outcome["display"] # "malformed" /\ pc["display"] \notin BeforeReady
  /\ frame = 0 => core["controller"] = core["display"]

Verified ==
  /\ pc["display"] \in {"recvSnapshot", "sendReady", "sendFailure"} =>
       game["controller"] = game["display"]
  /\ pc["display"] = "sendReady" => core["controller"] = core["display"]
  /\ Begun => Agreed

\* How sessions end.
Ended ==
  /\ \A p \in Phone : pc[p] = "over" <=> outcome[p] # "none"
  /\ outcome["controller"] = "malformed" => frame = 0
  /\ pc["controller"] \in {"sendFinish", "recvFinishAck"} =>
       pending = <<>> /\ framesCompleted = frame /\ (Success => Settled)
  /\ pc["display"] \in {"sendPassed", "sendFailed"} =>
       pc["controller"] \in {"recvFinishAck", "over"} /\ framesCompleted = frame
  /\ pc["display"] = "sendPassed" => Success /\ Settled
  /\ pc["display"] = "sendFailed" => ~Success
  /\ \A p \in Phone : outcome[p] = "passed" => Settled
  /\ outcome["controller"] \in {"passed", "failed"} =>
       \/ outcome["display"] = outcome["controller"]
       \/ GivesUp /\ outcome["display"] = "transport"
  /\ detail = "mismatch" => Still /\ core["controller"] # core["display"]

\* The frame of the controller's last comparison.
Compared ==
  IF lastDigest["controller"] = <<>> THEN 0 ELSE lastDigest["controller"][1].frame

\* Comparisons, and the checkpoints they are for.
Counted ==
  /\ pc["controller"] \in BeforeStart =>
       pending = <<>> /\ messages = <<>> /\ ~reading
  /\ pc["controller"] \in BeforeStart \cup {"lockstep", "step", "drain"} => Success
  /\ pc["controller"] = "step" => frame >= 1
  /\ pc["controller"] # "over" => 0 <= Acknowledged /\ Compared <= Acknowledged
  /\ Limit["controller"] # NoLimit => frame <= Limit["controller"]
  /\ \A i \in 1 .. Len(pending) :
       pending[i].needsDigest = NeedsDigest("controller", pending[i].frame)
  /\ pc["controller"] = "lockstep" /\ frame > 0 /\ NeedsDigest("controller", frame) =>
       Compared = frame
  /\ Success => checkpoints["controller"] <= checkpoints["display"]
  /\ Success /\ NeedsDigest("display", framesCompleted) /\ Compared < framesCompleted =>
       checkpoints["controller"] + 1 <= checkpoints["display"]

\* Where each phone may be.
Places ==
  /\ pc["controller"] \in
       {"activate", "recvHello", "sendHello", "sendSnapshot", "recvReady", "sendStart",
        "lockstep", "step", "drain", "sendFinish", "recvFinishAck", "over"}
  /\ pc["display"] \in BeforeReady \cup
       {"recvStart", "recvFrame", "step", "sendAck", "sendPassed", "sendFailed", "over"}

JInv ==
  /\ IInv /\ Places
  /\ Arriving /\ Returning
  /\ Verified /\ Ended /\ Counted

(***************************************************************************)
(* What a step may change.                                                 *)
(***************************************************************************)
StepEffects ==
  /\ game' = game
  /\ pc["controller"] # "step" => core'["controller"] = core["controller"]
  /\ pc["display"] \notin {"recvSnapshot", "step"} => core'["display"] = core["display"]
  /\ pc["controller"] # "lockstep" => frame' = frame
  /\ pc["controller"] \notin {"lockstep", "drain"} =>
       /\ UNCHANGED detail
       /\ checkpoints'["controller"] = checkpoints["controller"]
       /\ lastDigest'["controller"] = lastDigest["controller"]
  /\ pc["controller"] \notin {"lockstep", "step", "drain"} => pending' = pending
  /\ pc["display"] # "step" =>
       /\ UNCHANGED framesCompleted
       /\ checkpoints'["display"] = checkpoints["display"]
  /\ \A p \in Phone : pc[p] = "over" => pc'[p] = "over" /\ outcome'[p] = outcome[p]
  /\ pc["controller"] = "sendFinish" =>
       pc'["controller"] \in {"sendFinish", "recvFinishAck", "over"}
  /\ pc["controller"] = "recvFinishAck" =>
       pc'["controller"] \in {"recvFinishAck", "over"}
  /\ pc'["display"] \in BeforeReady => pc["display"] \in BeforeReady

LEMMA RunFrameEffect ==
  ASSUME TypeOK, NEW p \in Phone, RunFrame(p)
  PROVE  \A q \in Phone : q # p => core'[q] = core[q]
BY DEF RunFrame, TypeOK

LEMMA NextEffects == ASSUME TypeOK, [Next]_vars PROVE StepEffects
<1>a. "controller" \in Phone /\ "display" \in Phone /\ Phone = {"controller", "display"}
  BY DEF Phone
<1>1. ASSUME NEW p \in Phone,
             Activate(p) \/ Reject(p) \/ TransportError(p) \/ SnapshotFails(p)
      PROVE  StepEffects
  <2>1. /\ UNCHANGED <<machine, progress, game>>
        /\ pc[p] # "over"
        /\ \E l \in {"over", "recvHello", "sendHello"} : pc' = [pc EXCEPT ![p] = l]
        /\ pc'[p] # "over" => pc[p] = "activate"
        /\ \A q \in Phone : q # p => outcome'[q] = outcome[q]
    BY <1>1 DEF Activate, Reject, TransportError, SnapshotFails, Leave, Goto, Receiving,
                Sending, TypeOK, inbox
  <2> QED
    BY <1>a, <2>1 DEF StepEffects, TypeOK, progress, machine, BeforeReady
<1>2. ASSUME NEW p \in Phone, MainThread(p) PROVE StepEffects
  BY <1>2 DEF MainThread, AppLeaves, CancelSession, StepEffects, progress, machine
<1>3. CASE ControllerThread
  <2>1. ASSUME \/ ControllerHandshake \/ ControllerStarts \/ ControllerCompletes
               \/ ControllerSendsFinish \/ ControllerReturns
        PROVE  StepEffects
    BY <1>a, <2>1
    DEF ControllerHandshake, Receives, Sends, ControllerStarts, ControllerCompletes,
        ControllerSendsFinish, ControllerReturns, Leave, Goto, StepEffects, TypeOK,
        progress, machine, control, BeforeReady
  <2>2. CASE ControllerSendsInput
    BY <1>a, <2>2 DEF ControllerSendsInput, Goto, StepEffects, TypeOK, machine, control,
                      BeforeReady
  <2>3. CASE ControllerSteps
    <3>1. core'["display"] = core["display"]
      BY <1>a, <2>3, RunFrameEffect DEF ControllerSteps
    <3> QED
      BY <1>a, <2>3, <3>1 DEF ControllerSteps, Goto, StepEffects, TypeOK, control,
                              BeforeReady
  <2>4. CASE ControllerTakesAcknowledgement
    BY <1>a, <2>4 DEF ControllerTakesAcknowledgement, Goto, StepEffects, TypeOK, machine,
                      control, BeforeReady
  <2>5. CASE ControllerVerifies
    BY <1>a, <2>5 DEF ControllerVerifies, Goto, StepEffects, TypeOK, machine, control,
                      BeforeReady
  <2> QED
    BY <1>3, <2>1, <2>2, <2>3, <2>4, <2>5 DEF ControllerThread
<1>4. CASE DisplayThread
  <2>1. ASSUME \/ DisplayHandshake \/ DisplayReportsFailure \/ DisplayStarts
               \/ DisplayReceivesInput \/ DisplayAcknowledges
               \/ DisplayReceivesFinish \/ DisplayReturns
        PROVE  StepEffects
    BY <1>a, <2>1
    DEF DisplayHandshake, Receives, Sends, DisplayReportsFailure, DisplayStarts,
        DisplayReceivesInput, DisplayAcknowledges, DisplayReceivesFinish,
        DisplayReturns, Leave, Goto, StepEffects, TypeOK, progress, machine, control,
        BeforeReady
  <2>2. CASE DisplayLoadsSnapshot
    <3>1. /\ core'["controller"] = core["controller"]
          /\ pc["display"] = "recvSnapshot"
          /\ \E l \in Labels : pc' = [pc EXCEPT !["display"] = l]
      BY <1>a, <2>2 DEF DisplayLoadsSnapshot, TypeOK, Goto, AfterLoading, Labels
    <3> QED
      BY <1>a, <2>2, <3>1
      DEF DisplayLoadsSnapshot, StepEffects, TypeOK, progress, control, BeforeReady
  <2>3. CASE DisplaySteps
    <3>1. core'["controller"] = core["controller"]
      BY <1>a, <2>3, RunFrameEffect DEF DisplaySteps
    <3>2. /\ checkpoints'["controller"] = checkpoints["controller"]
          /\ lastDigest'["controller"] = lastDigest["controller"]
      <4>1. CASE NeedsDigest("display", framesCompleted + 1)
        <5>1. /\ checkpoints' = [checkpoints EXCEPT !["display"] = @ + 1]
              /\ \E d : lastDigest' = [lastDigest EXCEPT !["display"] = d]
          BY <2>3, <4>1 DEF DisplaySteps
        <5> QED
          BY <1>a, <5>1 DEF TypeOK
      <4>2. CASE ~NeedsDigest("display", framesCompleted + 1)
        BY <2>3, <4>2 DEF DisplaySteps
      <4> QED
        BY <4>1, <4>2
    <3> QED
      BY <1>a, <2>3, <3>1, <3>2
      DEF DisplaySteps, Goto, StepEffects, TypeOK, control, BeforeReady
  <2> QED
    BY <1>4, <2>1, <2>2, <2>3 DEF DisplayThread
<1>5. CASE Reader \/ LinkFails \/ Over \/ UNCHANGED vars
  BY <1>5 DEF Reader, ReaderReceives, ReaderEnds, LinkFails, Over, vars, StepEffects,
              progress, machine, control
<1> QED
  BY <1>1, <1>2, <1>3, <1>4, <1>5 DEF Next, EmulationThread

\* Once the last frame has run on both phones nothing it left changes.
LEMMA StillRemains ==
  ASSUME IInv, StepEffects, Still, TypeOK'
  PROVE  Still' /\ UNCHANGED <<frame, framesCompleted, core, detail, checkpoints>>
<1>1. pc["display"] # "step"
  BY DEF IInv, Lead, TypeOK, Still
<1>2. UNCHANGED <<frame, framesCompleted, detail>> /\ Still'
  BY <1>1 DEF StepEffects, Still, BeforeReady, Phone
<1>3. UNCHANGED <<core, checkpoints>>
  <2>1. \A p \in Phone : core'[p] = core[p] /\ checkpoints'[p] = checkpoints[p]
    BY <1>1 DEF StepEffects, Still, BeforeReady, Phone
  <2> QED
    BY <2>1 DEF IInv, TypeOK
<1> QED
  BY <1>2, <1>3

LEMMA SettledRemains ==
  ASSUME IInv, StepEffects, Settled, TypeOK'
  PROVE  Settled'
BY StillRemains DEF Settled

\* Messages on their way stay what they were.
LEMMA ForthRemains ==
  ASSUME IInv, Verified, StepEffects, TypeOK', NEW n, NEW m, Forth(n, m)
  PROVE  Forth(n, m)'
<1>1. CASE m.type = "finish"
  <2>1. /\ n = 4 + m.frame /\ m.frame = frame
        /\ pc["controller"] \in {"recvFinishAck", "over"}
        /\ m.success = Success /\ (m.success => Settled)
    BY <1>1 DEF Forth
  <2>2. /\ frame' = frame /\ detail' = detail
        /\ pc'["controller"] \in {"recvFinishAck", "over"}
    BY <2>1 DEF StepEffects, Phone
  <2>3. m.success => Settled'
    BY <2>1, SettledRemains
  <2> QED
    BY <1>1, <2>1, <2>2, <2>3 DEF Forth, Success
<1>2. CASE m.type = "snapshot"
  <2>1. n = 2 /\ (pc["display"] \in BeforeReady =>
                    m.state = core["controller"] /\ m.stateHash = core["controller"])
    BY <1>2 DEF Forth
  <2>2. ASSUME pc'["display"] \in BeforeReady
        PROVE  pc["display"] \in BeforeReady /\ core'["controller"] = core["controller"]
    BY <2>2 DEF StepEffects, Verified, Begun, Agreed
  <2> QED
    BY <1>2, <2>1, <2>2 DEF Forth
<1>3. CASE m.type \notin {"finish", "snapshot"}
  BY <1>3 DEF Forth, StepEffects
<1> QED
  BY <1>1, <1>2, <1>3

LEMMA BackRemains ==
  ASSUME IInv, StepEffects, TypeOK', NEW n, NEW m, Back(n, m)
  PROVE  Back(n, m)'
<1>1. CASE m.type = "finishAcknowledgement"
  <2>1. /\ n = 3 + framesCompleted
        /\ pc["display"] = "over" /\ pc["controller"] \in {"recvFinishAck", "over"}
        /\ \/ outcome["display"] = Verdict
           \/ GivesUp /\ outcome["display"] = "transport"
    BY <1>1 DEF Back
  <2>2. /\ framesCompleted' = framesCompleted /\ detail' = detail
        /\ pc'["display"] = "over" /\ outcome'["display"] = outcome["display"]
        /\ pc'["controller"] \in {"recvFinishAck", "over"}
    BY <2>1 DEF StepEffects, Phone
  <2> QED
    BY <1>1, <2>1, <2>2 DEF Back, Verdict, Success
<1>2. CASE m.type # "finishAcknowledgement"
  BY <1>2 DEF Back, NeedsDigest
<1> QED
  BY <1>1, <1>2

(***************************************************************************)
(* Numbered queues.                                                        *)
(***************************************************************************)
LEMMA CountTypes ==
  ASSUME TypeOK
  PROVE  /\ DisplayTook \in Nat /\ ControllerSent \in Nat /\ DisplaySent \in Int
         /\ ControllerTook \in Int
BY DEF TypeOK, DisplayTook, ControllerSent, DisplaySent, ControllerTook, Acknowledged,
       Announced

LEMMA Taken ==
  ASSUME NEW s \in Seq(Message), s # <<>>
  PROVE  /\ Len(Tail(s)) = Len(s) - 1 /\ Len(s) \in Nat /\ Len(s) >= 1
         /\ \A i \in 1 .. Len(Tail(s)) : Tail(s)[i] = s[i + 1] /\ i + 1 \in 1 .. Len(s)
         /\ Head(s) = s[1] /\ 1 \in 1 .. Len(s)
<1>1. Len(s) \in Nat /\ Len(s) >= 1
  BY EmptySeq
<1>2. Len(Tail(s)) = Len(s) - 1 /\ Head(s) = s[1]
  BY HeadTailProperties
<1>3. \A i \in 1 .. Len(s) - 1 : Tail(s)[i] = s[i + 1]
  BY HeadTailProperties
<1> QED
  BY <1>1, <1>2, <1>3

LEMMA TakenCount ==
  ASSUME NEW s \in Seq(Message), s # <<>>, NEW t \in Int
  PROVE  /\ (t + 1) + Len(Tail(s)) = t + Len(s)
         /\ (t + 1) + 0 + Len(Tail(s)) = t + Len(s)
BY Taken

\* The next message to the display, and those behind it.
LEMMA ForthTaken ==
  ASSUME NEW s \in Seq(Message), NEW n \in Nat, AllForth(s, n), s # <<>>
  PROVE  Forth(n + 1, Head(s)) /\ AllForth(Tail(s), n + 1)
<1>1. Forth(n + 1, Head(s))
  BY Taken DEF AllForth
<1>2. ASSUME NEW i \in 1 .. Len(Tail(s)) PROVE Forth((n + 1) + i, Tail(s)[i])
  <2>1. i + 1 \in 1 .. Len(s) /\ Tail(s)[i] = s[i + 1] /\ i \in Nat
    BY Taken
  <2>2. Forth(n + (i + 1), s[i + 1]) /\ n + (i + 1) = (n + 1) + i
    BY <2>1 DEF AllForth
  <2> QED
    BY <2>1, <2>2
<1> QED
  BY <1>1, <1>2 DEF AllForth

LEMMA BackTaken ==
  ASSUME NEW s \in Seq(Message), NEW n \in Int, AllBack(s, n), s # <<>>
  PROVE  Back(n + 1, Head(s)) /\ AllBack(Tail(s), n + 1)
<1>1. Back(n + 1, Head(s))
  BY Taken DEF AllBack
<1>2. ASSUME NEW i \in 1 .. Len(Tail(s)) PROVE Back((n + 1) + i, Tail(s)[i])
  <2>1. i + 1 \in 1 .. Len(s) /\ Tail(s)[i] = s[i + 1] /\ i \in Nat
    BY Taken
  <2>2. Back(n + (i + 1), s[i + 1]) /\ n + (i + 1) = (n + 1) + i
    BY <2>1 DEF AllBack
  <2> QED
    BY <2>1, <2>2
<1> QED
  BY <1>1, <1>2 DEF AllBack

LEMMA Appended ==
  ASSUME NEW s \in Seq(Message), NEW m \in Message
  PROVE  /\ Len(Append(s, m)) = Len(s) + 1 /\ Len(s) \in Nat
         /\ \A i \in 1 .. Len(Append(s, m)) :
              \/ i \in 1 .. Len(s) /\ Append(s, m)[i] = s[i]
              \/ i = Len(s) + 1 /\ Append(s, m)[i] = m
BY AppendProperties

\* Steps that leave what is on its way to the display alone.
LEMMA ArrivingKept ==
  ASSUME IInv, Verified, Arriving, StepEffects, TypeOK',
         wire'["display"] = wire["display"], broken' = broken,
         pc'["display"] # "over" =>
           pc["display"] # "over" /\ DisplayTook' = DisplayTook,
         pc'["controller"] # "over" =>
           pc["controller"] # "over" /\ ControllerSent' = ControllerSent
  PROVE  Arriving'
<1> SUFFICES ASSUME pc'["display"] # "over"
             PROVE  /\ AllForth(wire["display"], DisplayTook)'
                    /\ ~broken' /\ pc'["controller"] # "over" =>
                         DisplayTook' + Len(wire'["display"]) = ControllerSent'
  BY DEF Arriving
<1>1. \A n, m : Forth(n, m) => Forth(n, m)'
  BY ForthRemains
<1>2. AllForth(wire["display"], DisplayTook)
  BY DEF Arriving
<1>3. AllForth(wire["display"], DisplayTook)'
  BY <1>1, <1>2 DEF AllForth
<1> QED
  BY <1>3 DEF Arriving

\* The controller sends its next message.
LEMMA ArrivingSent ==
  ASSUME IInv, Verified, Arriving, StepEffects, TypeOK',
         NEW m \in Message, Send("controller", m), broken' = broken,
         NEW n, n = ControllerSent + 1, Forth(n, m)',
         pc["controller"] # "over", ControllerSent' = ControllerSent + 1,
         pc'["display"] = pc["display"], DisplayTook' = DisplayTook
  PROVE  Arriving'
<1> SUFFICES ASSUME pc["display"] # "over"
             PROVE  /\ AllForth(wire["display"], DisplayTook)'
                    /\ ~broken' /\ pc'["controller"] # "over" =>
                         DisplayTook' + Len(wire'["display"]) = ControllerSent'
  BY DEF Arriving
<1>1. \A k, l : Forth(k, l) => Forth(k, l)'
  BY ForthRemains
<1>2. /\ AllForth(wire["display"], DisplayTook)
      /\ ~broken => DisplayTook + Len(wire["display"]) = ControllerSent
      /\ DisplayTook \in Nat /\ ControllerSent \in Nat
      /\ wire["display"] \in Seq(Message)
  BY CountTypes DEF Arriving, IInv, TypeOK, Phone
<1>3. CASE broken
  <2>1. wire' = wire
    BY <1>3 DEF Send
  <2> QED
    BY <1>1, <1>2, <1>3, <2>1 DEF AllForth
<1>4. CASE ~broken
  <2>1. wire'["display"] = Append(wire["display"], m)
    BY <1>4 DEF Send, Peer, IInv, TypeOK, Phone
  <2>2. ASSUME NEW i \in 1 .. Len(wire'["display"])
        PROVE  Forth(DisplayTook + i, wire["display"][i])'
    <3>1. CASE i \in 1 .. Len(wire["display"]) /\ wire'["display"][i] = wire["display"][i]
      <4>1. Forth(DisplayTook + i, wire["display"][i])
        BY <1>2, <3>1 DEF AllForth
      <4> QED
        BY <1>1, <3>1, <4>1
    <3>2. CASE i = Len(wire["display"]) + 1 /\ wire'["display"][i] = m
      <4>1. DisplayTook' + i = n
        BY <1>2, <1>4, <3>2
      <4> QED
        BY <3>2, <4>1
    <3> QED
      BY <1>2, <2>1, <3>1, <3>2, Appended
  <2>3. Len(wire'["display"]) = Len(wire["display"]) + 1 /\ Len(wire["display"]) \in Nat
    BY <1>2, <2>1, Appended
  <2> QED
    BY <1>2, <1>4, <2>2, <2>3 DEF AllForth
<1> QED
  BY <1>3, <1>4

\* The display takes its next message.
LEMMA ArrivingTaken ==
  ASSUME IInv, Verified, Arriving, StepEffects, TypeOK',
         TakeFromWire("display"), wire["display"] # <<>>, broken' = broken,
         pc["display"] # "over", DisplayTook' = DisplayTook + 1,
         pc'["controller"] = pc["controller"], ControllerSent' = ControllerSent
  PROVE  Arriving'
<1> DEFINE s == wire["display"]
<1>1. \A k, l : Forth(k, l) => Forth(k, l)'
  BY ForthRemains
<1>2. /\ AllForth(s, DisplayTook)
      /\ ~broken /\ pc["controller"] # "over" => DisplayTook + Len(s) = ControllerSent
      /\ DisplayTook \in Nat /\ ControllerSent \in Nat
      /\ s \in Seq(Message)
  BY CountTypes DEF Arriving, IInv, TypeOK, Phone
<1>3. wire'["display"] = Tail(s)
  BY DEF TakeFromWire, IInv, TypeOK, Phone
<1>4. AllForth(Tail(s), DisplayTook + 1)
  BY <1>2, ForthTaken
<1>5. AllForth(wire["display"], DisplayTook)'
  BY <1>1, <1>3, <1>4 DEF AllForth
<1>7. ~broken /\ pc["controller"] # "over" =>
        (DisplayTook + 1) + Len(Tail(s)) = ControllerSent
  <2>1. DisplayTook \in Int
    BY <1>2
  <2>2. (DisplayTook + 1) + Len(Tail(s)) = DisplayTook + Len(s)
    BY <1>2, <2>1, TakenCount, Zenon
  <2> QED
    BY <1>2, <2>2, Zenon
<1> QED
  BY <1>3, <1>5, <1>7 DEF Arriving

\* What the hypotheses of the lemmas below say of the two queues to the controller.
LEMMA ReturningFacts ==
  ASSUME IInv, Returning, pc["controller"] # "over"
  PROVE  /\ AllBack(messages, ControllerTook)
         /\ AllBack(wire["controller"], ControllerTook + Len(messages))
         /\ ~broken /\ pc["display"] # "over" =>
              ControllerTook + Len(messages) + Len(wire["controller"]) = DisplaySent
         /\ messages \in Seq(Message) /\ wire["controller"] \in Seq(Message)
         /\ Len(messages) \in Nat /\ Len(wire["controller"]) \in Nat
         /\ ControllerTook \in Int /\ DisplaySent \in Int
BY CountTypes DEF Returning, IInv, TypeOK, Phone

LEMMA ReturningKept ==
  ASSUME IInv, Returning, StepEffects, TypeOK',
         wire'["controller"] = wire["controller"], broken' = broken,
         pc'["controller"] # "over" =>
           /\ pc["controller"] # "over" /\ ControllerTook' = ControllerTook
           /\ messages' = messages,
         pc'["display"] # "over" =>
           pc["display"] # "over" /\ DisplaySent' = DisplaySent
  PROVE  Returning'
<1> SUFFICES ASSUME pc'["controller"] # "over"
             PROVE  /\ AllBack(messages, ControllerTook)'
                    /\ AllBack(wire["controller"], ControllerTook + Len(messages))'
                    /\ ~broken' /\ pc'["display"] # "over" =>
                         ControllerTook' + Len(messages') + Len(wire'["controller"])
                           = DisplaySent'
  BY DEF Returning
<1>1. \A n, m : Back(n, m) => Back(n, m)'
  BY BackRemains
<1>2. AllBack(messages, ControllerTook)'
  BY <1>1, ReturningFacts DEF AllBack
<1>3. AllBack(wire["controller"], ControllerTook + Len(messages))'
  BY <1>1, ReturningFacts DEF AllBack
<1> QED
  BY <1>2, <1>3, ReturningFacts

\* The display sends its next message.
LEMMA ReturningSent ==
  ASSUME IInv, Returning, StepEffects, TypeOK',
         NEW m \in Message, Send("display", m), broken' = broken, messages' = messages,
         NEW n, n = DisplaySent + 1, Back(n, m)',
         pc["display"] # "over",
         pc'["display"] # "over" => DisplaySent' = DisplaySent + 1,
         pc'["controller"] = pc["controller"], ControllerTook' = ControllerTook
  PROVE  Returning'
<1> SUFFICES ASSUME pc["controller"] # "over" PROVE Returning'
  BY DEF Returning
<1>1. \A k, l : Back(k, l) => Back(k, l)'
  BY BackRemains
<1>2. AllBack(messages, ControllerTook)'
  BY <1>1, ReturningFacts DEF AllBack
<1>3. CASE broken
  <2>1. wire' = wire
    BY <1>3 DEF Send
  <2>2. AllBack(wire["controller"], ControllerTook + Len(messages))'
    BY <1>1, <2>1, ReturningFacts DEF AllBack
  <2> QED
    BY <1>2, <1>3, <2>2 DEF Returning
<1>4. CASE ~broken
  <2> DEFINE s == wire["controller"]
             from == ControllerTook + Len(messages)
  <2>0. from \in Int /\ from + Len(s) = DisplaySent /\ s \in Seq(Message)
        /\ AllBack(s, from)
    BY <1>4, ReturningFacts
  <2>1. wire'["controller"] = Append(s, m)
    BY <1>4 DEF Send, Peer, IInv, TypeOK, Phone
  <2>a. ControllerTook' + Len(messages') = from
    OBVIOUS
  <2>2. ASSUME NEW i \in 1 .. Len(wire'["controller"])
        PROVE  Back(ControllerTook + Len(messages) + i, wire["controller"][i])'
    <3>1. CASE i \in 1 .. Len(s) /\ wire'["controller"][i] = s[i]
      <4>1. Back(from + i, s[i])
        BY <2>0, <3>1 DEF AllBack
      <4> QED
        BY <1>1, <2>a, <3>1, <4>1
    <3>2. CASE i = Len(s) + 1 /\ wire'["controller"][i] = m
      <4>1. from + i = n
        BY <2>0, <3>2, Appended
      <4> QED
        BY <2>a, <3>2, <4>1
    <3> QED
      BY <2>0, <2>1, <3>1, <3>2, Appended
  <2>3. Len(wire'["controller"]) = Len(s) + 1 /\ Len(s) \in Nat
    BY <2>0, <2>1, Appended
  <2>4. from + Len(wire'["controller"]) = DisplaySent + 1
    BY <2>0, <2>3
  <2> QED
    BY <1>2, <2>2, <2>4 DEF Returning, AllBack
<1> QED
  BY <1>3, <1>4

\* The controller takes a message off the connection, before the reader starts.
LEMMA ReturningTaken ==
  ASSUME IInv, Returning, StepEffects, TypeOK',
         TakeFromWire("controller"), wire["controller"] # <<>>, broken' = broken,
         messages = <<>>, messages' = messages,
         pc["controller"] # "over", ControllerTook' = ControllerTook + 1,
         pc'["display"] = pc["display"], DisplaySent' = DisplaySent
  PROVE  Returning'
<1> DEFINE s == wire["controller"]
<1>1. \A k, l : Back(k, l) => Back(k, l)'
  BY BackRemains
<1>2. /\ AllBack(s, ControllerTook) /\ ControllerTook \in Int /\ DisplaySent \in Int
      /\ ~broken /\ pc["display"] # "over" => ControllerTook + Len(s) = DisplaySent
      /\ s \in Seq(Message) /\ Len(messages) = 0
  BY ReturningFacts
<1>3. wire'["controller"] = Tail(s)
  BY DEF TakeFromWire, IInv, TypeOK, Phone
<1>4. AllBack(Tail(s), ControllerTook + 1)
  BY <1>2, BackTaken
<1>5. AllBack(wire["controller"], ControllerTook + Len(messages))'
  <2>1. ControllerTook' + Len(messages') = ControllerTook + 1
    BY <1>2
  <2> QED
    BY <1>1, <1>3, <1>4, <2>1 DEF AllBack
<1>6. AllBack(messages, ControllerTook)'
  BY <1>2 DEF AllBack
<1>8. ~broken /\ pc["display"] # "over" =>
        (ControllerTook + 1) + Len(messages) + Len(Tail(s)) = DisplaySent
  <2>1. (ControllerTook + 1) + 0 + Len(Tail(s)) = ControllerTook + Len(s)
    BY <1>2, TakenCount, Zenon
  <2> QED
    BY <1>2, <2>1, Zenon
<1> QED
  BY <1>3, <1>5, <1>6, <1>8 DEF Returning

\* The controller takes a message out of its inbox.
LEMMA ReturningUnboxed ==
  ASSUME IInv, Returning, StepEffects, TypeOK',
         TakeFromInbox, messages # <<>>, broken' = broken, wire' = wire,
         pc["controller"] # "over", ControllerTook' = ControllerTook + 1,
         pc'["display"] = pc["display"], DisplaySent' = DisplaySent
  PROVE  Returning'
<1> DEFINE s == wire["controller"]
<1>1. \A k, l : Back(k, l) => Back(k, l)'
  BY BackRemains
<1>2. messages' = Tail(messages)
  BY DEF TakeFromInbox
<1>3. AllBack(Tail(messages), ControllerTook + 1)
  BY ReturningFacts, BackTaken
<1>4. AllBack(messages, ControllerTook)'
  BY <1>1, <1>2, <1>3 DEF AllBack
<1>5. Len(Tail(messages)) = Len(messages) - 1 /\ Len(messages) \in Nat
  BY ReturningFacts, Taken
<1>6. (ControllerTook + 1) + Len(Tail(messages)) = ControllerTook + Len(messages)
  BY <1>5, ReturningFacts
<1>7. AllBack(wire["controller"], ControllerTook + Len(messages))'
  BY <1>1, <1>2, <1>6, ReturningFacts DEF AllBack
<1>8. ~broken /\ pc["display"] # "over" =>
        (ControllerTook + 1) + Len(Tail(messages)) + Len(s) = DisplaySent
  BY <1>6, ReturningFacts
<1> QED
  BY <1>2, <1>4, <1>7, <1>8 DEF Returning

\* The reader moves a message from the connection to the inbox.
LEMMA ReturningRead ==
  ASSUME IInv, Returning, StepEffects, TypeOK',
         TakeFromWire("controller"), wire["controller"] # <<>>, broken' = broken,
         messages' = Append(messages, Head(wire["controller"])),
         pc' = pc, ControllerTook' = ControllerTook, DisplaySent' = DisplaySent
  PROVE  Returning'
<1> DEFINE s == wire["controller"]
<1> SUFFICES ASSUME pc["controller"] # "over" PROVE Returning'
  BY DEF Returning
<1>1. \A k, l : Back(k, l) => Back(k, l)'
  BY BackRemains
<1>2. wire'["controller"] = Tail(s)
  BY DEF TakeFromWire, IInv, TypeOK, Phone
<1>3. PICK m \in Message, n \in Int : m = Head(s) /\ n = ControllerTook + Len(messages)
  BY ReturningFacts, HeadTailProperties
<1>4. Back(n + 1, m) /\ AllBack(Tail(s), n + 1)
  BY <1>3, ReturningFacts, BackTaken
<1>5. Len(messages') = Len(messages) + 1
  BY <1>3, ReturningFacts, Appended
<1>6. ControllerTook' + Len(messages') = n + 1
  BY <1>3, <1>5, ReturningFacts
<1>7. AllBack(wire["controller"], ControllerTook + Len(messages))'
  BY <1>1, <1>2, <1>4, <1>6 DEF AllBack
<1>8. ASSUME NEW i \in 1 .. Len(messages')
      PROVE  Back(ControllerTook + i, messages[i])'
  <2>1. CASE i \in 1 .. Len(messages) /\ messages'[i] = messages[i]
    <3>1. Back(ControllerTook + i, messages[i])
      BY <2>1, ReturningFacts DEF AllBack
    <3> QED
      BY <1>1, <2>1, <3>1
  <2>2. CASE i = Len(messages) + 1 /\ messages'[i] = m
    <3>1. ControllerTook + i = n + 1
      BY <1>3, <2>2, ReturningFacts
    <3> QED
      BY <1>1, <1>4, <2>2, <3>1
  <2> QED
    BY <1>3, <2>1, <2>2, ReturningFacts, Appended
<1>9. Len(Tail(s)) = Len(s) - 1 /\ Len(s) \in Nat
  BY ReturningFacts, Taken
<1>10. ~broken /\ pc["display"] # "over" => (n + 1) + Len(Tail(s)) = DisplaySent
  BY <1>3, <1>9, ReturningFacts
<1> QED
  BY <1>2, <1>6, <1>7, <1>8, <1>10 DEF Returning, AllBack

\* A failing network leaves the beginning of each queue.
LEMMA QueuesCut ==
  ASSUME IInv, Verified, Arriving, Returning, LinkFails, StepEffects, TypeOK'
  PROVE  Arriving' /\ Returning'
<1>1. PICK kept \in [Phone -> 0 .. Capacity] :
        /\ \A p \in Phone : kept[p] <= Len(wire[p])
        /\ wire' = [p \in Phone |-> SubSeq(wire[p], 1, kept[p])]
  BY DEF LinkFails
<1>2. ASSUME NEW p \in Phone
      PROVE  /\ Len(wire'[p]) \in Nat /\ Len(wire'[p]) <= Len(wire[p])
             /\ \A i \in 1 .. Len(wire'[p]) : wire'[p][i] = wire[p][i] /\ i \in 1 .. Len(wire[p])
  <2>1. kept[p] \in Nat /\ kept[p] <= Len(wire[p]) /\ wire[p] \in Seq(Message)
    BY <1>1, CapacityAssumption DEF IInv, TypeOK
  <2>2. wire'[p] = SubSeq(wire[p], 1, kept[p])
    BY <1>1
  <2> QED
    BY <2>1, <2>2
<1>3. /\ UNCHANGED <<pc, messages, frame, framesCompleted, pending>> /\ broken'
      /\ "controller" \in Phone /\ "display" \in Phone
  BY DEF LinkFails, progress, inbox, Phone
<1>4. DisplayTook' = DisplayTook /\ ControllerTook' = ControllerTook
  BY <1>3 DEF DisplayTook, ControllerTook, Acknowledged, Announced
<1>5. Arriving'
  <2>1. \A k, l : Forth(k, l) => Forth(k, l)'
    BY ForthRemains
  <2>2. pc'["display"] # "over" => AllForth(wire["display"], DisplayTook)'
    BY <1>2, <1>3, <1>4, <2>1 DEF Arriving, AllForth
  <2> QED
    BY <1>3, <2>2 DEF Arriving
<1>6. Returning'
  <2>1. \A k, l : Back(k, l) => Back(k, l)'
    BY BackRemains
  <2>2. pc'["controller"] # "over" =>
          /\ AllBack(messages, ControllerTook)'
          /\ AllBack(wire["controller"], ControllerTook + Len(messages))'
    BY <1>2, <1>3, <1>4, <2>1 DEF Returning, AllBack
  <2> QED
    BY <1>3, <2>2 DEF Returning
<1> QED
  BY <1>5, <1>6

(***************************************************************************)
(* Every step keeps the queues numbered.                                   *)
(***************************************************************************)
\* The controller's counts are those of its place, its frames and its window.
LEMMA ControllerCounts ==
  ASSUME pc'["controller"] = pc["controller"], frame' = frame, pending' = pending
  PROVE  ControllerSent' = ControllerSent /\ ControllerTook' = ControllerTook
BY DEF ControllerSent, ControllerTook, Acknowledged, Announced

LEMMA DisplayCounts ==
  ASSUME pc'["display"] = pc["display"], framesCompleted' = framesCompleted
  PROVE  DisplaySent' = DisplaySent /\ DisplayTook' = DisplayTook
BY DEF DisplaySent, DisplayTook

\* No message moves.
LEMMA NoneMoves ==
  ASSUME JInv, StepEffects, TypeOK',
         wire' = wire, messages' = messages, broken' = broken,
         pc'["display"] # "over" =>
           /\ pc["display"] # "over"
           /\ DisplayTook' = DisplayTook /\ DisplaySent' = DisplaySent,
         pc'["controller"] # "over" =>
           /\ pc["controller"] # "over"
           /\ ControllerTook' = ControllerTook /\ ControllerSent' = ControllerSent
  PROVE  Arriving' /\ Returning'
BY ArrivingKept, ReturningKept DEF JInv

LEMMA DisplayTakes ==
  ASSUME JInv, StepEffects, TypeOK',
         TakeFromWire("display"), wire["display"] # <<>>, broken' = broken,
         messages' = messages, frame' = frame, pending' = pending,
         pc["display"] # "over", pc'["controller"] = pc["controller"],
         DisplayTook' = DisplayTook + 1, DisplaySent' = DisplaySent
  PROVE  Arriving' /\ Returning'
<1>1. wire'["controller"] = wire["controller"]
  BY DEF TakeFromWire, JInv, IInv, TypeOK, Phone
<1> QED
  BY <1>1, ControllerCounts, ArrivingTaken, ReturningKept DEF JInv

LEMMA DisplaySends ==
  ASSUME JInv, StepEffects, TypeOK',
         NEW m \in Message, Send("display", m), broken' = broken,
         messages' = messages, frame' = frame, pending' = pending,
         NEW n, n = DisplaySent + 1, Back(n, m)',
         pc["display"] # "over", pc'["controller"] = pc["controller"],
         pc'["display"] # "over" =>
           DisplaySent' = DisplaySent + 1 /\ DisplayTook' = DisplayTook
  PROVE  Arriving' /\ Returning'
<1>1. wire'["display"] = wire["display"]
  BY DEF Send, Peer, JInv, IInv, TypeOK, Phone
<1>2. Returning'
  BY ControllerCounts, ReturningSent DEF JInv
<1>3. Arriving'
  BY <1>1, ControllerCounts, ArrivingKept DEF JInv
<1> QED
  BY <1>2, <1>3

LEMMA ControllerTakes ==
  ASSUME JInv, StepEffects, TypeOK',
         TakeFromWire("controller"), wire["controller"] # <<>>, broken' = broken,
         messages' = messages, framesCompleted' = framesCompleted,
         pc["controller"] \in BeforeStart, pc'["display"] = pc["display"],
         ControllerTook' = ControllerTook + 1, ControllerSent' = ControllerSent
  PROVE  Arriving' /\ Returning'
<1>1. wire'["display"] = wire["display"]
  BY DEF TakeFromWire, JInv, IInv, TypeOK, Phone
<1>2. messages = <<>> /\ pc["controller"] # "over"
  BY DEF JInv, Counted, BeforeStart
<1> QED
  BY <1>1, <1>2, DisplayCounts, ArrivingKept, ReturningTaken DEF JInv

LEMMA ControllerSends ==
  ASSUME JInv, StepEffects, TypeOK',
         NEW m \in Message, Send("controller", m), broken' = broken,
         messages' = messages, framesCompleted' = framesCompleted,
         NEW n, n = ControllerSent + 1, Forth(n, m)',
         pc["controller"] # "over", pc'["display"] = pc["display"],
         ControllerSent' = ControllerSent + 1, ControllerTook' = ControllerTook
  PROVE  Arriving' /\ Returning'
<1>1. wire'["controller"] = wire["controller"]
  BY DEF Send, Peer, JInv, IInv, TypeOK, Phone
<1>2. Arriving'
  BY DisplayCounts, ArrivingSent DEF JInv
<1>3. Returning'
  BY <1>1, DisplayCounts, ReturningKept DEF JInv
<1> QED
  BY <1>2, <1>3

\* Both phones, their main threads, the network and the reader.
LEMMA CommonQueues ==
  ASSUME JInv, StepEffects, TypeOK',
         \/ \E p \in Phone : \/ Activate(p) \/ Reject(p) \/ TransportError(p)
                             \/ SnapshotFails(p) \/ MainThread(p)
         \/ Reader \/ LinkFails \/ Over \/ UNCHANGED vars
  PROVE  Arriving' /\ Returning'
<1>1. ASSUME NEW p \in Phone,
             Activate(p) \/ Reject(p) \/ TransportError(p) \/ SnapshotFails(p)
      PROVE  Arriving' /\ Returning'
  <2>1. /\ UNCHANGED <<wire, messages, broken, frame, pending, framesCompleted>>
        /\ pc[p] # "over" /\ \A q \in Phone : q # p => pc'[q] = pc[q]
        /\ \/ pc'[p] = "over"
           \/ /\ pc[p] = "activate"
              /\ pc'[p] = IF p = "controller" THEN "recvHello" ELSE "sendHello"
    <3>1. pc[p] # "over"
      BY <1>1 DEF Activate, Reject, TransportError, SnapshotFails, Receiving, Sending
    <3>2. UNCHANGED <<wire, messages, broken, frame, pending, framesCompleted>>
      BY <1>1 DEF Activate, Reject, TransportError, SnapshotFails, Leave, progress,
                  machine, inbox
    <3>3. \/ pc' = [pc EXCEPT ![p] = "over"]
          \/ /\ pc[p] = "activate"
             /\ pc' = [pc EXCEPT ![p] =
                         IF p = "controller" THEN "recvHello" ELSE "sendHello"]
      BY <1>1 DEF Activate, Reject, TransportError, SnapshotFails, Leave, Goto
    <3> QED
      BY <3>1, <3>2, <3>3 DEF JInv, IInv, TypeOK
  <2>2. CASE p = "controller"
    <3>1. pc'["controller"] # "over" =>
            ControllerSent' = ControllerSent /\ ControllerTook' = ControllerTook
      BY <2>1, <2>2 DEF ControllerSent, ControllerTook
    <3>2. DisplaySent' = DisplaySent /\ DisplayTook' = DisplayTook
      BY <2>1, <2>2, DisplayCounts DEF Phone
    <3> QED
      BY <2>1, <2>2, <3>1, <3>2, NoneMoves DEF Phone
  <2>3. CASE p = "display"
    <3>1. pc'["display"] # "over" =>
            DisplaySent' = DisplaySent /\ DisplayTook' = DisplayTook
      BY <2>1, <2>3 DEF DisplaySent, DisplayTook
    <3>2. ControllerSent' = ControllerSent /\ ControllerTook' = ControllerTook
      BY <2>1, <2>3, ControllerCounts DEF Phone
    <3> QED
      BY <2>1, <2>3, <3>1, <3>2, NoneMoves DEF Phone
  <2> QED
    BY <2>2, <2>3 DEF Phone
<1>2. ASSUME \/ \E p \in Phone : MainThread(p)
             \/ ReaderEnds \/ Over \/ UNCHANGED vars
      PROVE  Arriving' /\ Returning'
  <2>1. UNCHANGED <<pc, wire, messages, broken, frame, pending, framesCompleted>>
    BY <1>2 DEF MainThread, AppLeaves, CancelSession, ReaderEnds, Over, vars, progress,
                machine, inbox
  <2> QED
    BY <2>1, ControllerCounts, DisplayCounts, NoneMoves
<1>3. CASE ReaderReceives
  <2>1. /\ UNCHANGED <<pc, broken, frame, pending, framesCompleted>>
        /\ TakeFromWire("controller") /\ wire["controller"] # <<>>
        /\ messages' = Append(messages, Head(wire["controller"]))
    BY <1>3 DEF ReaderReceives, Enqueued, progress
  <2>2. wire'["display"] = wire["display"]
    BY <2>1 DEF TakeFromWire, JInv, IInv, TypeOK, Phone
  <2>3. Arriving'
    BY <2>1, <2>2, ControllerCounts, DisplayCounts, ArrivingKept DEF JInv
  <2>4. Returning'
    BY <2>1, ControllerCounts, DisplayCounts, ReturningRead DEF JInv
  <2> QED
    BY <2>3, <2>4
<1>4. CASE LinkFails
  BY <1>4, QueuesCut DEF JInv
<1> QED
  BY <1>1, <1>2, <1>3, <1>4 DEF Reader

\* What a phone accepts is at the head of the queue it receives from.
LEMMA AcceptedHead ==
  ASSUME TypeOK, NEW p \in Phone, Accepted(p)
  PROVE  /\ ~UsesInbox(p) =>
              /\ wire[p] # <<>> /\ Accepts(p, Head(wire[p]))
              /\ Head(wire[p]) \in Message
         /\ UsesInbox(p) =>
              /\ messages # <<>> /\ Accepts(p, Head(messages))
              /\ Head(messages) \in Message
BY OfferedType DEF Accepted, Offered

\* The display.
LEMMA DisplayQueues ==
  ASSUME JInv, StepEffects, TypeOK', DisplayThread
  PROVE  Arriving' /\ Returning'
<1> DEFINE D == "display"
<1>a. D \in Phone /\ TypeOK
  BY DEF Phone, JInv, IInv
<1>b. ASSUME Accepted(D), pc[D] \in {"recvHello", "recvSnapshot", "recvStart", "recvFrame"}
      PROVE  wire[D] # <<>>
  BY <1>a, <1>b, AcceptedHead DEF UsesInbox
<1>c. \A l : Goto(D, l) => pc'[D] = l /\ pc'["controller"] = pc["controller"]
  BY <1>a DEF Goto, TypeOK, Phone
<1>1. CASE DisplayHandshake
  <2>0. UNCHANGED <<frame, pending, framesCompleted, broken, messages>>
    BY <1>1 DEF DisplayHandshake, Sends, Receives, progress, inbox
  <2>1. CASE Sends(D, "sendHello", Hello(D), "recvHello")
    <3>1. /\ pc[D] = "sendHello" /\ pc'[D] = "recvHello"
          /\ pc'["controller"] = pc["controller"] /\ Send(D, Hello(D))
      BY <1>c, <2>1 DEF Sends
    <3>2. /\ DisplaySent = 0 /\ DisplaySent' = 1 /\ DisplayTook' = DisplayTook
      BY <3>1 DEF DisplaySent, DisplayTook
    <3>3. PICK m \in Message : m = Hello(D)
      BY <1>a, MessageTypes
    <3>4. Back(1, m)'
      BY <3>3 DEF Back, Hello
    <3> QED
      BY <2>0, <3>1, <3>2, <3>3, <3>4, DisplaySends
  <2>2. CASE Receives(D, "recvHello", "recvSnapshot")
    <3>1. /\ pc[D] = "recvHello" /\ pc'[D] = "recvSnapshot" /\ TakeFromWire(D)
          /\ pc'["controller"] = pc["controller"] /\ wire[D] # <<>>
      BY <1>b, <1>c, <2>2 DEF Receives
    <3>2. DisplayTook' = DisplayTook + 1 /\ DisplaySent' = DisplaySent
      BY <3>1 DEF DisplaySent, DisplayTook
    <3> QED
      BY <2>0, <3>1, <3>2, DisplayTakes
  <2>3. CASE Sends(D, "sendReady", Signal("ready"), "recvStart")
    <3>1. /\ pc[D] = "sendReady" /\ pc'[D] = "recvStart"
          /\ pc'["controller"] = pc["controller"] /\ Send(D, Signal("ready"))
      BY <1>c, <2>3 DEF Sends
    <3>2. DisplaySent = 1 /\ DisplaySent' = 2 /\ DisplayTook' = DisplayTook
      BY <3>1 DEF DisplaySent, DisplayTook
    <3>3. PICK m \in Message : m = Signal("ready")
      BY <1>a, MessageTypes
    <3>4. Back(2, m)'
      BY <3>3 DEF Back, Signal
    <3> QED
      BY <2>0, <3>1, <3>2, <3>3, <3>4, DisplaySends
  <2> QED
    BY <1>1, <2>1, <2>2, <2>3 DEF DisplayHandshake
<1>2. CASE DisplayLoadsSnapshot
  <2>1. /\ UNCHANGED <<frame, pending, framesCompleted, broken, messages>>
        /\ pc[D] = "recvSnapshot" /\ TakeFromWire(D) /\ wire[D] # <<>>
        /\ pc'[D] \in {"sendReady", "sendFailure"}
        /\ pc'["controller"] = pc["controller"]
    BY <1>b, <1>c, <1>2 DEF DisplayLoadsSnapshot, AfterLoading, progress, inbox
  <2>2. DisplayTook' = DisplayTook + 1 /\ DisplaySent' = DisplaySent
    BY <2>1 DEF DisplaySent, DisplayTook
  <2> QED
    BY <2>1, <2>2, DisplayTakes
<1>3. CASE DisplayReportsFailure
  <2>1. /\ UNCHANGED <<frame, pending, broken, messages>>
        /\ pc[D] = "sendFailure" /\ pc'[D] = "over" /\ Send(D, Signal("failure"))
        /\ pc'["controller"] = pc["controller"]
    BY <1>c, <1>3 DEF DisplayReportsFailure, Leave, progress
  <2>2. DisplaySent = 1
    BY <2>1 DEF DisplaySent
  <2>3. PICK m \in Message : m = Signal("failure")
    BY <1>a, MessageTypes
  <2>4. Back(2, m)'
    BY <2>3 DEF Back, Signal
  <2> QED
    BY <2>1, <2>2, <2>3, <2>4, DisplaySends
<1>4. CASE DisplayStarts
  <2>1. /\ UNCHANGED <<frame, pending, framesCompleted, broken, messages>>
        /\ pc[D] = "recvStart" /\ TakeFromWire(D) /\ wire[D] # <<>>
        /\ pc'[D] = "recvFrame" /\ pc'["controller"] = pc["controller"]
    BY <1>b, <1>c, <1>4 DEF DisplayStarts, progress, inbox
  <2>2. framesCompleted = 0
    BY <2>1 DEF JInv, IInv, Barrier, BeforeStart
  <2>3. DisplayTook' = DisplayTook + 1 /\ DisplaySent' = DisplaySent
    BY <2>1, <2>2 DEF DisplaySent, DisplayTook
  <2> QED
    BY <2>1, <2>3, DisplayTakes
<1>5. CASE DisplayReceivesInput \/ DisplayReceivesFinish
  <2>1. /\ UNCHANGED <<frame, pending, framesCompleted, broken, messages>>
        /\ pc[D] = "recvFrame" /\ TakeFromWire(D) /\ wire[D] # <<>>
        /\ pc'[D] \in {"step", "sendPassed", "sendFailed"}
        /\ pc'["controller"] = pc["controller"]
    BY <1>b, <1>c, <1>5 DEF DisplayReceivesInput, DisplayReceivesFinish, progress, inbox
  <2>2. DisplayTook' = DisplayTook + 1 /\ DisplaySent' = DisplaySent
    BY <1>a, <2>1 DEF DisplaySent, DisplayTook, TypeOK
  <2> QED
    BY <2>1, <2>2, DisplayTakes
<1>6. CASE DisplaySteps
  <2>1. /\ UNCHANGED <<frame, pending, broken, wire, messages>>
        /\ pc[D] = "step" /\ pc'[D] = "sendAck" /\ framesCompleted' = framesCompleted + 1
        /\ pc'["controller"] = pc["controller"]
    BY <1>c, <1>6 DEF DisplaySteps, inbox
  <2>2. DisplayTook' = DisplayTook /\ DisplaySent' = DisplaySent
    BY <1>a, <2>1 DEF DisplaySent, DisplayTook, TypeOK
  <2> QED
    BY <2>1, <2>2, ControllerCounts, NoneMoves
<1>7. CASE DisplayAcknowledges
  <2> DEFINE d == IF NeedsDigest(D, framesCompleted) THEN lastDigest[D] ELSE <<>>
  <2>1. /\ UNCHANGED <<frame, pending, framesCompleted, broken, messages>>
        /\ pc[D] = "sendAck" /\ pc'[D] = "recvFrame"
        /\ Send(D, Acknowledge(framesCompleted, d))
        /\ pc'["controller"] = pc["controller"]
    BY <1>c, <1>7 DEF DisplayAcknowledges, Sends, progress, inbox
  <2>2. d \in Digest /\ framesCompleted \in Nat
    <3>1. <<>> \in Digest
      BY DEF Digest
    <3> QED
      BY <1>a, <3>1 DEF TypeOK
  <2>3. PICK m \in Message, k \in Nat : m = Acknowledge(framesCompleted, d)
                                        /\ k = framesCompleted
    BY <1>a, <2>2, MessageTypes
  <2>4. /\ m.type = "acknowledgement" /\ m.frame = k /\ 1 <= k
        /\ m.digest # <<>> => NeedsDigest(D, k)
    BY <2>1, <2>3 DEF Acknowledge, JInv, IInv, Barrier
  <2>5. Back(2 + k, m)'
    BY <2>4 DEF Back, NeedsDigest
  <2>6. DisplayTook' = DisplayTook /\ DisplaySent' = DisplaySent + 1
        /\ 2 + k = DisplaySent + 1
    BY <2>1, <2>2, <2>3 DEF DisplaySent, DisplayTook
  <2> QED
    BY <2>1, <2>3, <2>5, <2>6, DisplaySends
<1>8. CASE DisplayReturns
  <2>1. /\ UNCHANGED <<frame, pending, framesCompleted, detail, broken, messages>>
        /\ pc[D] \in {"sendPassed", "sendFailed"} /\ pc'[D] = "over"
        /\ Send(D, Signal("finishAcknowledgement"))
        /\ pc'["controller"] = pc["controller"]
    BY <1>c, <1>8 DEF DisplayReturns, Leave, progress
  <2>2. \/ outcome'[D] = (IF pc[D] = "sendPassed" THEN "passed" ELSE "failed")
        \/ GivesUp /\ outcome'[D] = "transport"
    BY <1>a, <1>8 DEF DisplayReturns, Leave, TypeOK
  <2>3. /\ pc["controller"] \in {"recvFinishAck", "over"}
        /\ pc[D] = "sendPassed" => Success
        /\ pc[D] = "sendFailed" => ~Success
    BY <2>1 DEF JInv, Ended
  <2>4. \/ outcome'[D] = Verdict'
        \/ GivesUp /\ outcome'[D] = "transport"
    BY <2>1, <2>2, <2>3 DEF Verdict, Success
  <2>5. PICK m \in Message, n \in Nat :
          m = Signal("finishAcknowledgement") /\ n = 3 + framesCompleted
    BY <1>a, MessageTypes DEF TypeOK
  <2>6. Back(n, m)'
    BY <2>1, <2>3, <2>4, <2>5 DEF Back, Signal
  <2>7. n = DisplaySent + 1
    BY <1>a, <2>1, <2>5 DEF DisplaySent, TypeOK
  <2> QED
    BY <2>1, <2>5, <2>6, <2>7, DisplaySends
<1> QED
  BY <1>1, <1>2, <1>3, <1>4, <1>5, <1>6, <1>7, <1>8 DEF DisplayThread

\* The controller takes an acknowledgement out of its inbox.
LEMMA TakesInbox ==
  ASSUME JInv, ControllerTakesAcknowledgement \/ ControllerVerifies
  PROVE  /\ pc["controller"] \in {"lockstep", "drain"}
         /\ TakeFromInbox /\ messages # <<>> /\ pending' = Tail(pending)
         /\ Head(messages) \in Message /\ Head(messages).type = "acknowledgement"
         /\ Head(messages).frame = Head(pending).frame
         /\ pending # <<>> /\ Head(pending) = pending[1] /\ Len(pending) \in Nat
         /\ 1 <= Len(pending) /\ Len(Tail(pending)) = Len(pending) - 1
         /\ Head(pending).frame = Acknowledged + 1
         /\ UNCHANGED <<wire, broken, frame, framesCompleted, core>>
         /\ pc'["controller"] \in {"lockstep", "drain", "sendFinish"}
         /\ pc'["display"] = pc["display"]
<1>a. "controller" \in Phone /\ TypeOK
  BY DEF Phone, JInv, IInv
<1>1. /\ pc["controller"] \in {"lockstep", "drain"} /\ Accepted("controller")
      /\ TakeFromInbox /\ pending' = Tail(pending)
      /\ UNCHANGED <<wire, broken, frame, framesCompleted, core>>
      /\ \E l \in {"lockstep", "drain", "sendFinish"} :
           pc' = [pc EXCEPT !["controller"] = l]
  BY DEF ControllerTakesAcknowledgement, ControllerVerifies, machine, Goto,
         AfterAcknowledgement
<1>2. messages # <<>> /\ Accepts("controller", Head(messages)) /\ Head(messages) \in Message
  BY <1>a, <1>1, AcceptedHead DEF UsesInbox
<1>3. /\ Head(messages).type = "acknowledgement" /\ pending # <<>>
      /\ Head(messages).frame = Head(pending).frame
  BY <1>1, <1>2 DEF Accepts
<1>4. pending \in Seq(Pending)
  BY <1>a DEF TypeOK
<1>5. /\ Len(pending) \in Nat /\ 1 <= Len(pending) /\ Head(pending) = pending[1]
      /\ Len(Tail(pending)) = Len(pending) - 1
  BY <1>3, <1>4, EmptySeq, HeadTailProperties
<1>6. pending[1].frame = Acknowledged + 1
  BY <1>1, <1>5 DEF JInv, IInv, Lead, Numbered
<1> QED
  BY <1>a, <1>1, <1>2, <1>3, <1>5, <1>6 DEF TypeOK, Phone

\* The controller.
LEMMA ControllerQueues ==
  ASSUME JInv, StepEffects, TypeOK', ControllerThread
  PROVE  Arriving' /\ Returning'
<1> DEFINE C == "controller"
<1>a. C \in Phone /\ TypeOK
  BY DEF Phone, JInv, IInv
<1>b. \A l : Goto(C, l) => pc'[C] = l /\ pc'["display"] = pc["display"]
  BY <1>a DEF Goto, TypeOK, Phone
<1>c. pc[C] \in BeforeStart => frame = 0 /\ pending = <<>> /\ messages = <<>>
  BY DEF JInv, IInv, Barrier, Counted
<1>1. CASE ControllerHandshake
  <2>0. UNCHANGED <<frame, pending, framesCompleted, broken, messages>>
    BY <1>1 DEF ControllerHandshake, Sends, Receives, progress, inbox
  <2>1. CASE Receives(C, "recvHello", "sendHello") \/ Receives(C, "recvReady", "sendStart")
    <3>1. /\ \/ pc[C] = "recvHello" /\ pc'[C] = "sendHello"
             \/ pc[C] = "recvReady" /\ pc'[C] = "sendStart"
          /\ TakeFromWire(C) /\ pc'["display"] = pc["display"] /\ Accepted(C)
      BY <1>b, <2>1 DEF Receives
    <3>2. wire[C] # <<>>
      BY <1>a, <3>1, AcceptedHead DEF UsesInbox
    <3>3. frame = 0 /\ Len(pending) = 0
      BY <1>c, <3>1 DEF BeforeStart
    <3>4. ControllerTook' = ControllerTook + 1 /\ ControllerSent' = ControllerSent
      BY <2>0, <3>1, <3>3 DEF ControllerSent, ControllerTook, Acknowledged, Announced
    <3> QED
      BY <2>0, <3>1, <3>2, <3>4, ControllerTakes DEF BeforeStart
  <2>2. CASE Sends(C, "sendHello", Hello(C), "sendSnapshot")
    <3>1. /\ pc[C] = "sendHello" /\ pc'[C] = "sendSnapshot" /\ Send(C, Hello(C))
          /\ pc'["display"] = pc["display"]
      BY <1>b, <2>2 DEF Sends
    <3>2. /\ ControllerTook' = ControllerTook /\ ControllerSent' = ControllerSent + 1
          /\ ControllerSent = 0
      BY <3>1 DEF ControllerSent, ControllerTook
    <3>3. PICK m \in Message : m = Hello(C)
      BY <1>a, MessageTypes
    <3>4. m.type = "hello" /\ m.identity = game'[C]
      BY <3>3 DEF Hello, StepEffects
    <3>5. Forth(1, m)'
      BY <3>4 DEF Forth
    <3> QED
      BY <2>0, <3>1, <3>2, <3>3, <3>5, ControllerSends
  <2>3. CASE Sends(C, "sendSnapshot", Snapshot(core[C]), "recvReady")
    <3>1. /\ pc[C] = "sendSnapshot" /\ pc'[C] = "recvReady" /\ Send(C, Snapshot(core[C]))
          /\ pc'["display"] = pc["display"]
      BY <1>b, <2>3 DEF Sends
    <3>2. /\ ControllerTook' = ControllerTook /\ ControllerSent' = ControllerSent + 1
          /\ ControllerSent = 1
      BY <3>1 DEF ControllerSent, ControllerTook
    <3>3. PICK m \in Message : m = Snapshot(core[C])
      BY <1>a, MessageTypes DEF TypeOK
    <3>4. m.type = "snapshot" /\ m.state = core'[C] /\ m.stateHash = core'[C]
      BY <3>1, <3>3 DEF Snapshot, StepEffects
    <3>5. Forth(2, m)'
      BY <3>4 DEF Forth
    <3> QED
      BY <2>0, <3>1, <3>2, <3>3, <3>5, ControllerSends
  <2> QED
    BY <1>1, <2>1, <2>2, <2>3 DEF ControllerHandshake
<1>2. CASE ControllerStarts
  <2>1. /\ UNCHANGED <<frame, pending, framesCompleted, broken, messages>>
        /\ pc[C] = "sendStart" /\ pc'[C] = "lockstep" /\ Send(C, Signal("start"))
        /\ pc'["display"] = pc["display"]
    BY <1>b, <1>2 DEF ControllerStarts, progress
  <2>2. frame = 0 /\ Len(pending) = 0
    BY <1>c, <2>1 DEF BeforeStart
  <2>3. /\ ControllerTook' = ControllerTook /\ ControllerSent' = ControllerSent + 1
        /\ ControllerSent = 2
    BY <2>1, <2>2 DEF ControllerSent, ControllerTook, Acknowledged, Announced
  <2>4. PICK m \in Message : m = Signal("start")
    BY <1>a, MessageTypes
  <2>5. Forth(3, m)'
    BY <2>4 DEF Forth, Signal
  <2> QED
    BY <2>1, <2>3, <2>4, <2>5, ControllerSends
<1>3. CASE ControllerSendsInput
  <2>1. PICK i \in Inputs : Send(C, Input(frame + 1, i))
    BY <1>3 DEF ControllerSendsInput
  <2>2. /\ UNCHANGED <<pending, framesCompleted, broken, messages>>
        /\ pc[C] = "lockstep" /\ pc'[C] = "step" /\ frame' = frame + 1
        /\ pc'["display"] = pc["display"] /\ frame \in Nat /\ Len(pending) \in Nat
    BY <1>a, <1>b, <1>3 DEF ControllerSendsInput, inbox, TypeOK
  <2>3. ControllerTook' = ControllerTook /\ ControllerSent' = ControllerSent + 1
    BY <2>2 DEF ControllerSent, ControllerTook, Acknowledged, Announced
  <2>4. PICK m \in Message, k \in Nat : m = Input(frame + 1, i) /\ k = frame + 1
    BY <1>a, <2>2, MessageTypes
  <2>5. m.type = "input" /\ m.frame = k /\ 1 <= k
    BY <2>2, <2>4 DEF Input
  <2>6. Forth(3 + k, m)'
    BY <2>5 DEF Forth
  <2>7. 3 + k = ControllerSent + 1
    BY <2>2, <2>4 DEF ControllerSent
  <2> QED
    BY <2>1, <2>2, <2>3, <2>4, <2>6, <2>7, ControllerSends
<1>4. CASE ControllerSteps
  <2>1. /\ UNCHANGED <<frame, framesCompleted, broken, wire, messages>>
        /\ pc[C] = "step" /\ pc'[C] \in {"lockstep", "drain"}
        /\ pc'["display"] = pc["display"] /\ frame \in Nat
    BY <1>a, <1>b, <1>4 DEF ControllerSteps, inbox, TypeOK
  <2>2. Len(pending') = Len(pending) + 1 /\ Len(pending) \in Nat
    <3>1. \E x : pending' = Append(pending, x)
      BY <1>4 DEF ControllerSteps
    <3> QED
      BY <1>a, <3>1 DEF TypeOK
  <2>3. ControllerTook' = ControllerTook /\ ControllerSent' = ControllerSent
    BY <2>1, <2>2 DEF ControllerSent, ControllerTook, Acknowledged, Announced
  <2> QED
    BY <2>1, <2>3, DisplayCounts, NoneMoves
<1>5. CASE ControllerTakesAcknowledgement \/ ControllerVerifies
  <2>1. /\ pc[C] \in {"lockstep", "drain"} /\ TakeFromInbox /\ messages # <<>>
        /\ UNCHANGED <<wire, broken, frame, framesCompleted>>
        /\ pc'[C] \in {"lockstep", "drain", "sendFinish"}
        /\ pc'["display"] = pc["display"]
        /\ Len(pending') = Len(pending) - 1 /\ Len(pending) \in Nat /\ frame \in Nat
    BY <1>a, <1>5, TakesInbox DEF TypeOK
  <2>2. ControllerTook' = ControllerTook + 1 /\ ControllerSent' = ControllerSent
    BY <2>1 DEF ControllerSent, ControllerTook, Acknowledged, Announced
  <2>3. Arriving'
    BY <2>1, <2>2, DisplayCounts, ArrivingKept DEF JInv
  <2>4. Returning'
    BY <2>1, <2>2, DisplayCounts, ReturningUnboxed DEF JInv
  <2> QED
    BY <2>3, <2>4
<1>6. CASE ControllerCompletes
  <2>1. /\ UNCHANGED <<frame, pending, framesCompleted, broken, wire, messages>>
        /\ pc[C] = "lockstep" /\ pc'[C] = "sendFinish"
        /\ pc'["display"] = pc["display"]
    BY <1>b, <1>6 DEF ControllerCompletes, progress, inbox
  <2>2. ControllerTook' = ControllerTook /\ ControllerSent' = ControllerSent
    BY <2>1 DEF ControllerSent, ControllerTook, Acknowledged, Announced
  <2> QED
    BY <2>1, <2>2, DisplayCounts, NoneMoves
<1>7. CASE ControllerSendsFinish
  <2>1. /\ UNCHANGED <<frame, pending, framesCompleted, detail, broken, messages>>
        /\ pc[C] = "sendFinish" /\ pc'[C] = "recvFinishAck"
        /\ Send(C, Finish(frame, Success)) /\ pc'["display"] = pc["display"]
    BY <1>b, <1>7 DEF ControllerSendsFinish, Sends, progress, inbox
  <2>2. /\ ControllerTook' = ControllerTook /\ ControllerSent' = ControllerSent + 1
        /\ ControllerSent = 3 + frame
    BY <1>a, <2>1 DEF ControllerSent, ControllerTook, Acknowledged, Announced, TypeOK
  <2>3. PICK m \in Message, n \in Nat : m = Finish(frame, Success) /\ n = 4 + frame
    <3>1. frame \in Nat /\ Success \in BOOLEAN
      BY <1>a DEF TypeOK, Success
    <3> QED
      BY <1>a, <3>1, MessageTypes
  <2>4. Success => Settled'
    BY <2>1, SettledRemains DEF JInv, Ended
  <2>5. m.type = "finish" /\ m.frame = frame /\ m.success = Success
    BY <2>3 DEF Finish
  <2>6. Success' = Success /\ n = 4 + frame' /\ m.frame = frame'
    BY <2>1, <2>3, <2>5 DEF Success
  <2>7. m.success = Success' /\ (m.success => Settled')
    BY <2>4, <2>5, <2>6
  <2>8. Forth(n, m)'
    BY <2>1, <2>5, <2>6, <2>7 DEF Forth
  <2> QED
    BY <1>a, <2>1, <2>2, <2>3, <2>8, ControllerSends DEF TypeOK
<1>8. CASE ControllerReturns
  <2>1. /\ UNCHANGED <<broken, wire, framesCompleted>> /\ pc'[C] = "over"
        /\ pc'["display"] = pc["display"]
    BY <1>b, <1>8 DEF ControllerReturns, Leave, progress
  <2>2. Arriving'
    BY <2>1, DisplayCounts, ArrivingKept DEF JInv
  <2> QED
    BY <2>1, <2>2 DEF Returning
<1> QED
  BY <1>1, <1>2, <1>3, <1>4, <1>5, <1>6, <1>7, <1>8 DEF ControllerThread

\* Every step keeps the messages on their way numbered.
LEMMA QueuesKept ==
  ASSUME JInv, [Next]_vars, StepEffects, TypeOK'
  PROVE  Arriving' /\ Returning'
BY CommonQueues, DisplayQueues, ControllerQueues DEF Next, EmulationThread

(***************************************************************************)
(* What a phone is offered.                                                *)
(***************************************************************************)
\* The next message of the controller is the next one by its number.
LEMMA DisplayHead ==
  ASSUME JInv, pc["display"] # "over", wire["display"] # <<>>
  PROVE  /\ Forth(DisplayTook + 1, Head(wire["display"]))
         /\ Head(wire["display"]) \in Message
<1>1. /\ wire["display"] \in Seq(Message) /\ DisplayTook \in Nat
      /\ AllForth(wire["display"], DisplayTook)
  BY CountTypes DEF JInv, IInv, TypeOK, Arriving, Phone
<1> QED
  BY <1>1, ForthTaken, HeadTailProperties

\* So is the next message of the display, in the inbox and on the connection.
LEMMA ControllerHead ==
  ASSUME JInv, pc["controller"] # "over"
  PROVE  /\ messages # <<>> =>
              /\ Back(ControllerTook + 1, Head(messages))
              /\ Head(messages) \in Message /\ Sent(Head(messages))
         /\ messages = <<>> /\ wire["controller"] # <<>> =>
              /\ Back(ControllerTook + 1, Head(wire["controller"]))
              /\ Head(wire["controller"]) \in Message
<1>1. /\ wire["controller"] \in Seq(Message) /\ messages \in Seq(Message)
      /\ ControllerTook \in Int
      /\ AllBack(messages, ControllerTook)
      /\ AllBack(wire["controller"], ControllerTook + Len(messages))
      /\ AllSent(messages)
  BY ReturningFacts DEF JInv, IInv, Lead
<1>2. messages # <<>> => Back(ControllerTook + 1, Head(messages)) /\ Sent(Head(messages))
  BY <1>1, BackTaken, SentQueues
<1>3. ASSUME messages = <<>>, wire["controller"] # <<>>
      PROVE  Back(ControllerTook + 1, Head(wire["controller"]))
  <2>1. ControllerTook + Len(messages) = ControllerTook
    BY <1>1, <1>3
  <2> QED
    BY <1>1, <1>3, <2>1, BackTaken
<1> QED
  BY <1>1, <1>2, <1>3, HeadTailProperties

\* Every step leads from place to place.
LEMMA PlacesKept ==
  ASSUME TypeOK, Places, [Next]_vars
  PROVE  Places'
<1>a. "controller" \in Phone /\ "display" \in Phone /\ Phone = {"controller", "display"}
  BY DEF Phone
<1>b. ASSUME NEW p \in Phone, NEW l, Goto(p, l)
      PROVE  pc'[p] = l /\ \A q \in Phone : q # p => pc'[q] = pc[q]
  BY <1>b DEF Goto, TypeOK
<1>1. ASSUME NEW p \in Phone,
             Activate(p) \/ Reject(p) \/ TransportError(p) \/ SnapshotFails(p)
      PROVE  Places'
  <2>1. \E l : /\ Goto(p, l)
               /\ l \in {"over", IF p = "controller" THEN "recvHello" ELSE "sendHello"}
    BY <1>1 DEF Activate, Reject, TransportError, SnapshotFails, Leave
  <2> QED
    BY <1>a, <1>b, <2>1 DEF Places, BeforeReady
<1>2. ASSUME \/ \E p \in Phone : MainThread(p)
             \/ Reader \/ LinkFails \/ Over \/ UNCHANGED vars
      PROVE  Places'
  BY <1>2 DEF MainThread, AppLeaves, CancelSession, Reader, ReaderReceives, ReaderEnds,
              LinkFails, Over, vars, Places
<1>3. CASE ControllerThread
  <2>1. \E l : /\ Goto("controller", l)
               /\ l \in {"sendHello", "sendSnapshot", "recvReady", "sendStart", "lockstep",
                         "step", "drain", "sendFinish", "recvFinishAck", "over"}
    BY <1>3
    DEF ControllerThread, ControllerHandshake, Receives, Sends, ControllerStarts,
        ControllerSendsInput, ControllerSteps, ControllerTakesAcknowledgement,
        ControllerVerifies, ControllerCompletes, ControllerSendsFinish,
        ControllerReturns, Leave, AfterAcknowledgement
  <2> QED
    BY <1>a, <1>b, <2>1 DEF Places, BeforeReady
<1>4. CASE DisplayThread
  <2>1. \E l : /\ Goto("display", l)
               /\ l \in {"recvHello", "recvSnapshot", "sendReady", "sendFailure",
                         "recvStart", "recvFrame", "step", "sendAck", "sendPassed",
                         "sendFailed", "over"}
    BY <1>4
    DEF DisplayThread, DisplayHandshake, Receives, Sends, DisplayLoadsSnapshot,
        DisplayReportsFailure, DisplayStarts, DisplayReceivesInput, DisplaySteps,
        DisplayAcknowledges, DisplayReceivesFinish, DisplayReturns, Leave, AfterLoading
  <2> QED
    BY <1>a, <1>b, <2>1 DEF Places, BeforeReady
<1> QED
  BY <1>1, <1>2, <1>3, <1>4 DEF Next, EmulationThread

\* The display throws on no message after the snapshot.
LEMMA DisplayRejects ==
  ASSUME JInv, Reject("display")
  PROVE  pc["display"] \in {"recvHello", "recvSnapshot"}
<1> DEFINE D == "display"
<1>1. /\ pc[D] \in {"recvHello", "recvSnapshot", "recvStart", "recvFrame"}
      /\ Offered(D) # <<>> /\ ~Accepts(D, Head(Offered(D)))
  BY DEF Reject, Receiving, JInv, Places, BeforeReady
<1>2. wire[D] # <<>> /\ ~Accepts(D, Head(wire[D]))
  BY <1>1 DEF Offered, UsesInbox
<1>3. PICK m \in Message, n \in Nat : m = Head(wire[D]) /\ n = DisplayTook + 1
  BY <1>1, <1>2, DisplayHead, CountTypes DEF JInv, IInv
<1>4. Forth(n, m)
  BY <1>1, <1>2, <1>3, DisplayHead
<1>5. framesCompleted \in Nat /\ (m.type \in {"input", "finish"} => m.frame \in Nat)
  BY MessageFields DEF JInv, IInv, TypeOK
<1>6. pc[D] # "recvStart"
  <2> SUFFICES ASSUME pc[D] = "recvStart" PROVE FALSE
    OBVIOUS
  <2>1. n = 3
    BY <1>3 DEF DisplayTook
  <2>2. m.type = "start"
    BY <1>4, <1>5, <2>1 DEF Forth
  <2> QED
    BY <1>2, <1>3, <2>2 DEF Accepts
<1>7. pc[D] # "recvFrame"
  <2> SUFFICES ASSUME pc[D] = "recvFrame" PROVE FALSE
    OBVIOUS
  <2>1. n = 4 + framesCompleted
    BY <1>3, <1>5 DEF DisplayTook
  <2>2. \/ m.type = "input" /\ m.frame = framesCompleted + 1
        \/ m.type = "finish" /\ m.frame = framesCompleted
    BY <1>4, <1>5, <2>1 DEF Forth
  <2> QED
    BY <1>2, <1>3, <2>2 DEF Accepts
<1> QED
  BY <1>1, <1>6, <1>7

\* The controller throws on no message after the start.
LEMMA ControllerRejects ==
  ASSUME JInv, Reject("controller")
  PROVE  pc["controller"] \in {"recvHello", "recvReady"}
<1> DEFINE C == "controller"
<1> SUFFICES ASSUME pc[C] \notin {"recvHello", "recvReady"} PROVE FALSE
  OBVIOUS
<1>1. /\ \/ pc[C] \in {"drain", "recvFinishAck"}
         \/ pc[C] = "lockstep" /\ WindowFull
      /\ Offered(C) # <<>> /\ ~Accepts(C, Head(Offered(C)))
  BY DEF Reject, Receiving, JInv, Places
<1>2. messages # <<>> /\ ~Accepts(C, Head(messages))
  BY <1>1 DEF Offered, UsesInbox
<1>3. /\ framesCompleted \in Nat /\ frame \in Nat /\ pending \in Seq(Pending)
      /\ Acknowledged \in Int /\ 0 <= Acknowledged
  BY <1>1 DEF JInv, IInv, TypeOK, Counted, Acknowledged, Announced
<1>4. PICK m \in Message, n \in Int : m = Head(messages) /\ n = 3 + Acknowledged
  BY <1>1, <1>2, <1>3, ControllerHead
<1>5. Back(n, m) /\ Sent(m)
  <2>1. ControllerTook + 1 = 3 + Acknowledged
    BY <1>1, <1>3 DEF ControllerTook
  <2> QED
    BY <1>1, <1>2, <1>4, <2>1, ControllerHead
<1>6. m.type = "acknowledgement" => m.frame \in Nat
  BY MessageFields
<1>7. CASE pc[C] = "recvFinishAck"
  <2>1. pending = <<>> /\ framesCompleted = frame
    BY <1>7 DEF JInv, Ended
  <2>2. Acknowledged = frame
    BY <1>3, <1>7, <2>1 DEF Acknowledged, Announced
  <2>3. m.type # "acknowledgement"
    BY <1>3, <1>4, <1>5, <1>6, <2>1, <2>2 DEF Back, Sent
  <2>4. m.type = "finishAcknowledgement"
    BY <1>3, <1>4, <1>5, <2>3 DEF Back
  <2> QED
    BY <1>2, <1>4, <1>7, <2>4 DEF Accepts
<1>8. CASE pc[C] \in {"lockstep", "drain"}
  <2>1. pending # <<>>
    BY <1>1, <1>3, <1>8, WindowAssumption, EmptySeq DEF JInv, IInv, Draining, WindowFull
  <2>2. Head(pending).frame = Acknowledged + 1
    <3>1. Head(pending) = pending[1] /\ 1 \in 1 .. Len(pending)
      BY <1>3, <2>1, EmptySeq, HeadTailProperties
    <3> QED
      BY <1>3, <1>8, <3>1 DEF JInv, IInv, Lead, Numbered
  <2>3. m.type = "acknowledgement" /\ m.frame = Acknowledged + 1
    BY <1>3, <1>4, <1>5, <1>6, <1>8 DEF Back
  <2> QED
    BY <1>2, <1>4, <1>8, <2>1, <2>2, <2>3 DEF Accepts
<1> QED
  BY <1>1, <1>7, <1>8

(***************************************************************************)
(* Which step changes what.                                                *)
(***************************************************************************)
Counts == <<frame, pending, detail, framesCompleted, checkpoints, lastDigest>>

LEMMA CountsChange ==
  ASSUME [Next]_vars
  PROVE  \/ ControllerSendsInput \/ ControllerSteps \/ ControllerTakesAcknowledgement
         \/ ControllerVerifies \/ DisplaySteps
         \/ UNCHANGED Counts
<1>1. ASSUME NEW p \in Phone,
             \/ Activate(p) \/ Reject(p) \/ TransportError(p) \/ SnapshotFails(p)
             \/ MainThread(p)
      PROVE  UNCHANGED Counts
  BY <1>1 DEF Activate, Reject, TransportError, SnapshotFails, MainThread, AppLeaves,
              CancelSession, Leave, progress, Counts
<1>2. ASSUME Reader \/ LinkFails \/ Over \/ UNCHANGED vars PROVE UNCHANGED Counts
  BY <1>2 DEF Reader, ReaderReceives, ReaderEnds, LinkFails, Over, vars, progress, Counts
<1>3. ASSUME \/ ControllerHandshake \/ ControllerStarts \/ ControllerCompletes
             \/ ControllerSendsFinish \/ ControllerReturns
      PROVE  UNCHANGED Counts
  BY <1>3 DEF ControllerHandshake, Receives, Sends, ControllerStarts, ControllerCompletes,
              ControllerSendsFinish, ControllerReturns, Leave, progress, Counts
<1>4. ASSUME \/ DisplayHandshake \/ DisplayLoadsSnapshot \/ DisplayReportsFailure
             \/ DisplayStarts \/ DisplayReceivesInput \/ DisplayAcknowledges
             \/ DisplayReceivesFinish \/ DisplayReturns
      PROVE  UNCHANGED Counts
  BY <1>4 DEF DisplayHandshake, Receives, Sends, DisplayLoadsSnapshot,
              DisplayReportsFailure, DisplayStarts, DisplayReceivesInput,
              DisplayAcknowledges, DisplayReceivesFinish, DisplayReturns, Leave,
              progress, Counts
<1> QED
  BY <1>1, <1>2, <1>3, <1>4 DEF Next, EmulationThread, ControllerThread, DisplayThread

\* Where a session's outcome comes from.
LEMMA OutcomeChange ==
  ASSUME TypeOK, Places, [Next]_vars, NEW p \in Phone
  PROVE  \/ outcome'[p] = outcome[p] /\ (pc'[p] = "over" <=> pc[p] = "over")
         \/ /\ pc[p] # "over" /\ pc'[p] = "over" /\ outcome'[p] # "none"
            /\ \/ outcome'[p] \in {"cancelled", "transport", "snapshot"}
               \/ Reject(p)
               \/ p = "controller" /\ ControllerReturns
               \/ p = "display" /\ (DisplayReturns \/ DisplayReportsFailure)
<1> DEFINE Same == outcome'[p] = outcome[p] /\ (pc'[p] = "over" <=> pc[p] = "over")
<1>a. /\ \A q \in Phone : q = p \/ q # p
      /\ \A q \in Phone : \A r : Leave(q, r) =>
           /\ pc'[q] = "over" /\ outcome'[q] = r
           /\ q # p => Same
  BY DEF Leave, Goto, TypeOK
<1>1. ASSUME NEW q \in Phone,
             Activate(q) \/ Reject(q) \/ TransportError(q) \/ SnapshotFails(q)
      PROVE  \/ Same
             \/ /\ pc[p] # "over" /\ pc'[p] = "over" /\ outcome'[p] # "none"
                /\ \/ outcome'[p] \in {"cancelled", "transport", "snapshot"}
                   \/ Reject(p)
  <2>0. pc[q] # "over"
    BY <1>1 DEF Activate, Reject, TransportError, SnapshotFails, Receiving, Sending
  <2>1. CASE Activate(q) /\ ~Leave(q, "cancelled")
    BY <2>1 DEF Activate, Goto, TypeOK
  <2>2. CASE ~(Activate(q) /\ ~Leave(q, "cancelled"))
    <3>1. \E r \in {"cancelled", "malformed", "transport", "snapshot"} :
            Leave(q, r) /\ (r = "malformed" => Reject(q))
      BY <1>1, <2>2 DEF Activate, Reject, TransportError, SnapshotFails
    <3> QED
      BY <1>a, <2>0, <3>1
  <2> QED
    BY <2>1, <2>2
<1>2. ASSUME \/ \E q \in Phone : MainThread(q)
             \/ Reader \/ LinkFails \/ Over \/ UNCHANGED vars
      PROVE  Same
  BY <1>2 DEF MainThread, AppLeaves, CancelSession, Reader, ReaderReceives, ReaderEnds,
              LinkFails, Over, vars
<1>3. ASSUME ControllerThread PROVE (p = "controller" /\ ControllerReturns) \/ Same
  <2>1. CASE ControllerReturns
    BY <1>a, <2>1 DEF ControllerReturns, Phone
  <2>2. CASE ~ControllerReturns
    <3>1. /\ outcome' = outcome /\ pc["controller"] # "over"
          /\ \E l \in Labels \ {"over"} : pc' = [pc EXCEPT !["controller"] = l]
      BY <1>3, <2>2
      DEF ControllerThread, ControllerHandshake, Receives, Sends, ControllerStarts,
          ControllerSendsInput, ControllerSteps, ControllerTakesAcknowledgement,
          ControllerVerifies, ControllerCompletes, ControllerSendsFinish, Goto,
          AfterAcknowledgement, Labels, Receiving
    <3> QED
      BY <3>1 DEF TypeOK, Phone
  <2> QED
    BY <2>1, <2>2
<1>4. ASSUME DisplayThread
      PROVE  (p = "display" /\ (DisplayReturns \/ DisplayReportsFailure)) \/ Same
  <2>1. CASE DisplayReturns \/ DisplayReportsFailure
    BY <1>a, <2>1 DEF DisplayReturns, DisplayReportsFailure, Phone
  <2>2. CASE ~(DisplayReturns \/ DisplayReportsFailure)
    <3>1. /\ outcome' = outcome /\ pc["display"] # "over"
          /\ \E l \in Labels \ {"over"} : pc' = [pc EXCEPT !["display"] = l]
      BY <1>4, <2>2
      DEF DisplayThread, DisplayHandshake, Receives, Sends, DisplayLoadsSnapshot,
          DisplayStarts, DisplayReceivesInput, DisplaySteps, DisplayAcknowledges,
          DisplayReceivesFinish, Goto, AfterLoading, Labels
    <3> QED
      BY <3>1 DEF TypeOK, Phone
  <2> QED
    BY <2>1, <2>2
<1>5. ASSUME ControllerReturns, p = "controller"
      PROVE  pc[p] # "over" /\ pc'[p] = "over" /\ outcome'[p] # "none"
  BY <1>5, <1>a DEF ControllerReturns
<1>6. ASSUME DisplayReturns \/ DisplayReportsFailure, p = "display"
      PROVE  pc[p] # "over" /\ pc'[p] = "over" /\ outcome'[p] # "none"
  BY <1>6, <1>a DEF DisplayReturns, DisplayReportsFailure
<1> QED
  BY <1>1, <1>2, <1>3, <1>4, <1>5, <1>6 DEF Next, EmulationThread

\* Where the controller goes.
LEMMA ControllerMoves ==
  ASSUME TypeOK, Places, [Next]_vars
  PROVE  \/ pc'["controller"] \in {pc["controller"], "over"}
         \/ /\ pc["controller"] \in BeforeStart /\ pc'["controller"] \in BeforeStart
            /\ \/ pc'["controller"] \notin {"sendStart"}
               \/ Receives("controller", "recvReady", "sendStart")
         \/ ControllerStarts \/ ControllerSendsInput \/ ControllerSteps
         \/ ControllerTakesAcknowledgement \/ ControllerVerifies \/ ControllerCompletes
         \/ pc["controller"] = "sendFinish" /\ pc'["controller"] = "recvFinishAck"
<1> DEFINE C == "controller"
<1>a. C \in Phone /\ \A q \in Phone : \A l : Goto(q, l) =>
        pc'[q] = l /\ (q # C => pc'[C] = pc[C])
  BY DEF Goto, TypeOK, Phone
<1>1. ASSUME NEW q \in Phone,
             Activate(q) \/ Reject(q) \/ TransportError(q) \/ SnapshotFails(q)
      PROVE  \/ pc'[C] \in {pc[C], "over"}
             \/ pc[C] = "activate" /\ pc'[C] = "recvHello"
  <2>1. \/ \E r : Leave(q, r)
        \/ /\ pc[q] = "activate"
           /\ Goto(q, IF q = C THEN "recvHello" ELSE "sendHello")
    BY <1>1 DEF Activate, Reject, TransportError, SnapshotFails
  <2> QED
    BY <1>a, <2>1 DEF Leave
<1>2. ASSUME \/ \E q \in Phone : MainThread(q)
             \/ Reader \/ LinkFails \/ Over \/ UNCHANGED vars
      PROVE  pc'[C] = pc[C]
  BY <1>2 DEF MainThread, AppLeaves, CancelSession, Reader, ReaderReceives, ReaderEnds,
              LinkFails, Over, vars
<1>3. ASSUME DisplayThread PROVE pc'[C] = pc[C]
  <2>1. \E l : Goto("display", l)
    BY <1>3
    DEF DisplayThread, DisplayHandshake, Receives, Sends, DisplayLoadsSnapshot,
        DisplayReportsFailure, DisplayStarts, DisplayReceivesInput, DisplaySteps,
        DisplayAcknowledges, DisplayReceivesFinish, DisplayReturns, Leave
  <2> QED
    BY <1>a, <2>1 DEF Phone
<1>4. ASSUME ControllerReturns PROVE pc'[C] = "over"
  BY <1>4, <1>a DEF ControllerReturns, Leave
<1>5. ASSUME ControllerSendsFinish PROVE pc[C] = "sendFinish" /\ pc'[C] = "recvFinishAck"
  BY <1>5, <1>a DEF ControllerSendsFinish, Sends
<1>6. ASSUME ControllerHandshake
      PROVE  /\ pc[C] \in BeforeStart /\ pc'[C] \in BeforeStart
             /\ pc'[C] # "sendStart" \/ Receives(C, "recvReady", "sendStart")
  BY <1>6, <1>a DEF ControllerHandshake, Sends, Receives, BeforeStart
<1> QED
  BY <1>1, <1>2, <1>3, <1>4, <1>5, <1>6
  DEF Next, EmulationThread, ControllerThread, BeforeStart

\* Where the display goes.
LEMMA DisplayMoves ==
  ASSUME TypeOK, Places, [Next]_vars
  PROVE  \/ pc'["display"] \in {pc["display"], "over"}
         \/ pc["display"] = "activate" /\ pc'["display"] = "sendHello"
         \/ pc["display"] = "sendHello" /\ pc'["display"] = "recvHello"
         \/ Receives("display", "recvHello", "recvSnapshot")
         \/ DisplayLoadsSnapshot
         \/ Sends("display", "sendReady", Signal("ready"), "recvStart")
         \/ pc["display"] = "recvStart" /\ pc'["display"] = "recvFrame"
         \/ pc["display"] = "recvFrame" /\ pc'["display"] = "step"
         \/ pc["display"] = "step" /\ pc'["display"] = "sendAck"
         \/ pc["display"] = "sendAck" /\ pc'["display"] = "recvFrame"
         \/ DisplayReceivesFinish
<1> DEFINE D == "display"
<1>a. D \in Phone /\ \A q \in Phone : \A l : Goto(q, l) =>
        pc'[q] = l /\ (q # D => pc'[D] = pc[D])
  BY DEF Goto, TypeOK, Phone
<1>1. ASSUME NEW q \in Phone,
             Activate(q) \/ Reject(q) \/ TransportError(q) \/ SnapshotFails(q)
      PROVE  \/ pc'[D] \in {pc[D], "over"}
             \/ pc[D] = "activate" /\ pc'[D] = "sendHello"
  <2>1. \/ \E r : Leave(q, r)
        \/ /\ pc[q] = "activate"
           /\ Goto(q, IF q = "controller" THEN "recvHello" ELSE "sendHello")
    BY <1>1 DEF Activate, Reject, TransportError, SnapshotFails
  <2> QED
    BY <1>a, <2>1 DEF Leave
<1>2. ASSUME \/ \E q \in Phone : MainThread(q)
             \/ Reader \/ LinkFails \/ Over \/ UNCHANGED vars
      PROVE  pc'[D] = pc[D]
  BY <1>2 DEF MainThread, AppLeaves, CancelSession, Reader, ReaderReceives, ReaderEnds,
              LinkFails, Over, vars
<1>3. ASSUME ControllerThread PROVE pc'[D] = pc[D]
  <2>1. \E l : Goto("controller", l)
    BY <1>3
    DEF ControllerThread, ControllerHandshake, Receives, Sends, ControllerStarts,
        ControllerSendsInput, ControllerSteps, ControllerTakesAcknowledgement,
        ControllerVerifies, ControllerCompletes, ControllerSendsFinish,
        ControllerReturns, Leave
  <2> QED
    BY <1>a, <2>1 DEF Phone
<1>4. ASSUME DisplayReturns \/ DisplayReportsFailure PROVE pc'[D] = "over"
  BY <1>4, <1>a DEF DisplayReturns, DisplayReportsFailure, Leave
<1>5. ASSUME DisplayStarts \/ DisplayReceivesInput \/ DisplaySteps \/ DisplayAcknowledges
      PROVE  \/ pc[D] = "recvStart" /\ pc'[D] = "recvFrame"
             \/ pc[D] = "recvFrame" /\ pc'[D] = "step"
             \/ pc[D] = "step" /\ pc'[D] = "sendAck"
             \/ pc[D] = "sendAck" /\ pc'[D] = "recvFrame"
  BY <1>5, <1>a DEF DisplayStarts, DisplayReceivesInput, DisplaySteps,
                    DisplayAcknowledges, Sends
<1>6. ASSUME DisplayHandshake
      PROVE  \/ pc[D] = "sendHello" /\ pc'[D] = "recvHello"
             \/ Receives(D, "recvHello", "recvSnapshot")
             \/ Sends(D, "sendReady", Signal("ready"), "recvStart")
  <2>1. CASE Sends(D, "sendHello", Hello(D), "recvHello")
    BY <2>1, <1>a DEF Sends
  <2> QED
    BY <1>6, <2>1 DEF DisplayHandshake
<1> QED
  BY <1>1, <1>2, <1>3, <1>4, <1>5, <1>6 DEF Next, EmulationThread, DisplayThread

(***************************************************************************)
(* The session begins on two equal states.                                 *)
(***************************************************************************)
\* Queues gain only what is sent.
LEMMA HasQueues ==
  ASSUME NEW s \in Seq(Message), NEW t
  PROVE  /\ s # <<>> /\ Has(Tail(s), t) => Has(s, t)
         /\ \A m \in Message : Has(Append(s, m), t) => Has(s, t) \/ m.type = t
         /\ s # <<>> => Has(s, Head(s).type)
<1>1. ASSUME s # <<>>, Has(Tail(s), t) PROVE Has(s, t)
  BY <1>1, Taken DEF Has
<1>2. ASSUME NEW m \in Message, Has(Append(s, m), t) PROVE Has(s, t) \/ m.type = t
  BY <1>2, Appended DEF Has
<1>3. ASSUME s # <<>> PROVE Has(s, Head(s).type)
  BY <1>3, Taken DEF Has
<1> QED
  BY <1>1, <1>2, <1>3

LEMMA WireGains ==
  ASSUME TypeOK, NEW p \in Phone, NEW q \in Phone, NEW t, Has(wire'[q], t)
  PROVE  /\ TakeFromWire(p) /\ wire[p] # <<>> => Has(wire[q], t)
         /\ \A m \in Message : Send(p, m) => Has(wire[q], t) \/ (q = Peer(p) /\ m.type = t)
         /\ LinkFails => Has(wire[q], t)
<1>a. wire[q] \in Seq(Message) /\ wire[p] \in Seq(Message)
  BY DEF TypeOK
<1>1. ASSUME TakeFromWire(p), wire[p] # <<>> PROVE Has(wire[q], t)
  <2>1. wire'[q] = wire[q] \/ (q = p /\ wire'[q] = Tail(wire[q]))
    BY <1>1 DEF TakeFromWire, TypeOK
  <2> QED
    BY <1>a, <1>1, <2>1, HasQueues
<1>2. ASSUME NEW m \in Message, Send(p, m)
      PROVE  Has(wire[q], t) \/ (q = Peer(p) /\ m.type = t)
  <2>1. wire'[q] = wire[q] \/ (q = Peer(p) /\ wire'[q] = Append(wire[q], m))
    BY <1>2 DEF Send, TypeOK, Peer, Phone
  <2>2. Has(Append(wire[q], m), t) => Has(wire[q], t) \/ m.type = t
    BY <1>a, HasQueues
  <2> QED
    BY <2>1, <2>2
<1>3. ASSUME LinkFails PROVE Has(wire[q], t)
  <2>1. PICK kept \in [Phone -> 0 .. Capacity] :
          /\ \A r \in Phone : kept[r] <= Len(wire[r])
          /\ wire' = [r \in Phone |-> SubSeq(wire[r], 1, kept[r])]
    BY <1>3 DEF LinkFails
  <2>2. kept[q] \in 0 .. Len(wire[q])
    BY <2>1, CapacityAssumption, <1>a
  <2>3. wire'[q] = SubSeq(wire[q], 1, kept[q])
    BY <2>1
  <2>4. /\ Len(wire'[q]) = kept[q]
        /\ \A i \in 1 .. kept[q] : wire'[q][i] = wire[q][i] /\ i \in 1 .. Len(wire[q])
    BY <1>a, <2>2, <2>3, SubSeqProperties
  <2> QED
    BY <2>4 DEF Has
<1> QED
  BY <1>1, <1>2, <1>3

\* Only the display's answer begins a session.
LEMMA BegunBefore ==
  ASSUME JInv, [Next]_vars, ~Begun,
         ~Sends("display", "sendReady", Signal("ready"), "recvStart")
  PROVE  ~Begun'
<1> DEFINE C == "controller"
           D == "display"
<1>a. TypeOK /\ Places /\ C \in Phone /\ D \in Phone
  BY DEF JInv, IInv, Phone
<1>b. /\ pc[C] \in {"activate", "recvHello", "sendHello", "sendSnapshot", "recvReady",
                    "over"}
      /\ pc[D] \in BeforeReady \cup {"over"}
      /\ frame = 0 /\ \A p \in Phone : paused[p]
      /\ ~Has(wire[C], "ready") /\ ~Has(wire[D], "start")
  <2>1. frame = 0 /\ \A p \in Phone : paused[p]
    BY <1>a DEF Begun, TypeOK
  <2> QED
    BY <1>a, <2>1 DEF Begun, Places, BeforeReady
<1>1. ~ Receives(C, "recvReady", "sendStart")
  <2> SUFFICES ASSUME Receives(C, "recvReady", "sendStart") PROVE FALSE
    OBVIOUS
  <2>1. wire[C] # <<>> /\ Head(wire[C]).type = "ready"
    BY <1>a, AcceptedHead DEF Receives, UsesInbox, Accepts
  <2> QED
    BY <1>a, <1>b, <2>1, HasQueues DEF TypeOK
<1>2. /\ ~ ControllerStarts /\ ~ ControllerSendsInput /\ ~ ControllerSteps
      /\ ~ ControllerTakesAcknowledgement /\ ~ ControllerVerifies /\ ~ ControllerCompletes
      /\ ~ ControllerSendsFinish /\ ~ ControllerReturns
  BY <1>b DEF ControllerStarts, ControllerSendsInput, ControllerSteps,
     ControllerTakesAcknowledgement, ControllerVerifies, ControllerCompletes,
     ControllerSendsFinish, ControllerReturns, Sends
<1>3. /\ ~ DisplayStarts /\ ~ DisplayReceivesInput /\ ~ DisplaySteps
      /\ ~ DisplayAcknowledges /\ ~ DisplayReceivesFinish /\ ~ DisplayReturns
  BY <1>b DEF DisplayStarts, DisplayReceivesInput, DisplaySteps, DisplayAcknowledges,
              DisplayReceivesFinish, DisplayReturns, Sends, BeforeReady
<1>4. /\ pc'[C] \in {"activate", "recvHello", "sendHello", "sendSnapshot", "recvReady",
                     "over"}
      /\ frame' = frame
  <2>1. frame' = frame
    BY <1>2, <1>3, CountsChange DEF Counts
  <2>2. \/ pc'[C] \in {pc[C], "over"}
        \/ pc'[C] \in BeforeStart \ {"sendStart"}
    BY <1>a, <1>b, <1>1, <1>2, ControllerMoves
  <2>3. Places'
    BY <1>a, PlacesKept
  <2> QED
    BY <1>b, <2>1, <2>2, <2>3 DEF Places, BeforeStart
<1>5. pc'[D] \in BeforeReady \cup {"over"}
  <2>1. pc'[D] \in {"sendReady", "sendFailure"} \/ ~DisplayLoadsSnapshot
    BY <1>a DEF DisplayLoadsSnapshot, Goto, AfterLoading, TypeOK
  <2>2. pc'[D] = "recvSnapshot" \/ ~Receives(D, "recvHello", "recvSnapshot")
    BY <1>a DEF Receives, Goto, TypeOK
  <2> QED
    BY <1>a, <1>b, <1>3, <2>1, <2>2, DisplayMoves DEF BeforeReady
<1>6. \A p \in Phone : paused'[p]
  <2>1. paused' = paused \/ \E p \in Phone : paused' = [paused EXCEPT ![p] = TRUE]
    <3>1. ASSUME NEW p \in Phone, Activate(p) \/ Reject(p) \/ TransportError(p)
                                  \/ SnapshotFails(p) \/ CancelSession(p)
          PROVE  paused' = paused
      BY <3>1 DEF Activate, Reject, TransportError, SnapshotFails, CancelSession, machine
    <3>2. ASSUME NEW p \in Phone, AppLeaves(p)
          PROVE  paused' = [paused EXCEPT ![p] = TRUE]
      BY <3>2 DEF AppLeaves
    <3>3. ASSUME Reader \/ LinkFails \/ Over \/ UNCHANGED vars PROVE paused' = paused
      BY <3>3 DEF Reader, ReaderReceives, ReaderEnds, LinkFails, Over, vars, machine
    <3>4. ASSUME ControllerHandshake \/ DisplayHandshake \/ DisplayLoadsSnapshot
                 \/ DisplayReportsFailure
          PROVE  paused' = paused
      BY <3>4 DEF ControllerHandshake, DisplayHandshake, Receives, Sends,
                  DisplayLoadsSnapshot, DisplayReportsFailure, machine
    <3> QED
      BY <1>2, <1>3, <3>1, <3>2, <3>3, <3>4
      DEF Next, EmulationThread, MainThread, ControllerThread, DisplayThread
  <2> QED
    BY <1>a, <1>b, <2>1 DEF TypeOK
<1>7. ~Has(wire'[C], "ready") /\ ~Has(wire'[D], "start")
  <2>1. ASSUME wire' = wire PROVE ~Has(wire'[C], "ready") /\ ~Has(wire'[D], "start")
    BY <1>b, <2>1
  <2>2. ASSUME NEW p \in Phone, TakeFromWire(p), wire[p] # <<>>
        PROVE  ~Has(wire'[C], "ready") /\ ~Has(wire'[D], "start")
    BY <1>a, <1>b, <2>2, WireGains
  <2>3. ASSUME NEW p \in Phone, NEW m \in Message, Send(p, m),
               m.type \notin {"ready", "start"}
        PROVE  ~Has(wire'[C], "ready") /\ ~Has(wire'[D], "start")
    BY <1>a, <1>b, <2>3, WireGains
  <2>4. ASSUME LinkFails PROVE ~Has(wire'[C], "ready") /\ ~Has(wire'[D], "start")
    BY <1>a, <1>b, <2>4, WireGains
  <2>5. ASSUME NEW p \in Phone,
               \/ Activate(p) \/ Reject(p) \/ TransportError(p) \/ SnapshotFails(p)
               \/ MainThread(p)
        PROVE  wire' = wire
    BY <2>5 DEF Activate, Reject, TransportError, SnapshotFails, MainThread, AppLeaves,
                CancelSession
  <2>6. ASSUME ReaderReceives PROVE TakeFromWire(C) /\ wire[C] # <<>>
    BY <2>6 DEF ReaderReceives
  <2>7. ASSUME ReaderEnds \/ Over \/ UNCHANGED vars PROVE wire' = wire
    BY <2>7 DEF ReaderEnds, Over, vars
  <2>8. ASSUME ControllerHandshake
        PROVE  \/ TakeFromWire(C) /\ wire[C] # <<>>
               \/ \E m \in Message : Send(C, m) /\ m.type \notin {"ready", "start"}
    <3>1. CASE \E l, n : Receives(C, l, n) /\ l \in BeforeStart
      BY <1>a, <3>1, AcceptedHead DEF Receives, UsesInbox, BeforeStart
    <3>2. /\ Hello(C) \in Message /\ Hello(C).type = "hello"
          /\ Snapshot(core[C]) \in Message /\ Snapshot(core[C]).type = "snapshot"
      BY <1>a, MessageTypes DEF TypeOK, Hello, Snapshot
    <3> QED
      BY <2>8, <3>1, <3>2 DEF ControllerHandshake, Sends, BeforeStart
  <2>9. ASSUME DisplayHandshake
        PROVE  \/ TakeFromWire(D) /\ wire[D] # <<>>
               \/ \E m \in Message : Send(D, m) /\ m.type \notin {"ready", "start"}
    <3>1. CASE Receives(D, "recvHello", "recvSnapshot")
      BY <1>a, <3>1, AcceptedHead DEF Receives, UsesInbox
    <3>2. Hello(D) \in Message /\ Hello(D).type = "hello"
      BY <1>a, MessageTypes DEF Hello
    <3> QED
      BY <2>9, <3>1, <3>2 DEF DisplayHandshake, Sends
  <2>10. ASSUME DisplayLoadsSnapshot PROVE TakeFromWire(D) /\ wire[D] # <<>>
    BY <1>a, <2>10, AcceptedHead DEF DisplayLoadsSnapshot, UsesInbox
  <2>11. ASSUME DisplayReportsFailure
         PROVE  \E m \in Message : Send(D, m) /\ m.type \notin {"ready", "start"}
    <3>1. Signal("failure") \in Message /\ Signal("failure").type = "failure"
      BY <1>a, MessageTypes DEF Signal
    <3> QED
      BY <2>11, <3>1 DEF DisplayReportsFailure
  <2> HIDE DEF C, D
  <2>12. CASE ControllerThread
    BY <1>a, <1>2, <2>2, <2>3, <2>8, <2>12 DEF ControllerThread, C
  <2>13. CASE DisplayThread
    BY <1>a, <1>3, <2>2, <2>3, <2>9, <2>10, <2>11, <2>13 DEF DisplayThread
  <2> QED
    BY <1>a, <2>1, <2>2, <2>4, <2>5, <2>6, <2>7, <2>12, <2>13
    DEF Next, EmulationThread, Reader
<1> QED
  BY <1>4, <1>5, <1>6, <1>7, <1>b DEF Begun, BeforeReady

\* Frames only go on.
LEMMA FrameGrows ==
  ASSUME TypeOK, [Next]_vars
  PROVE  frame' = frame \/ (frame' = frame + 1 /\ ControllerSendsInput)
BY CountsChange DEF Counts, ControllerSendsInput, ControllerSteps,
                    ControllerTakesAcknowledgement, ControllerVerifies, DisplaySteps

\* What the phones agreed on they do not lose.
LEMMA AgreedStays ==
  ASSUME JInv, [Next]_vars, StepEffects, TypeOK', Begun
  PROVE  Agreed'
<1> DEFINE C == "controller"
           D == "display"
<1>a. TypeOK /\ Places /\ C \in Phone /\ D \in Phone /\ frame \in Nat /\ Agreed
  BY DEF JInv, IInv, TypeOK, Phone, Verified
<1>1. game'[C] = game'[D] /\ pc'[D] \notin BeforeReady
  BY <1>a DEF Agreed, StepEffects
<1>2. outcome'[D] # "malformed"
  <2>1. ~Reject(D)
    BY <1>a, DisplayRejects DEF Agreed, BeforeReady
  <2>2. ~DisplayReportsFailure
    BY <1>a DEF DisplayReportsFailure, Agreed, BeforeReady
  <2>3. DisplayReturns => outcome'[D] # "malformed"
    BY <1>a DEF DisplayReturns, Leave, TypeOK
  <2>4. \/ outcome'[D] = outcome[D]
        \/ outcome'[D] \in {"cancelled", "transport", "snapshot"}
        \/ DisplayReturns
    BY <1>a, <2>1, <2>2, OutcomeChange
  <2> QED
    BY <1>a, <2>3, <2>4 DEF Agreed
<1>3. ASSUME frame' = 0 PROVE core'[C] = core'[D]
  <2>1. frame = 0
    BY <1>a, <1>3, FrameGrows
  <2>2. pc[C] # "step" /\ pc[D] # "step" /\ pc[D] # "recvSnapshot"
    BY <1>a, <2>1 DEF JInv, IInv, Lead, TypeOK, Counted, Agreed, BeforeReady
  <2>3. core'[C] = core[C] /\ core'[D] = core[D]
    BY <2>2 DEF StepEffects
  <2> QED
    BY <1>a, <2>1, <2>3 DEF Agreed
<1> QED
  BY <1>1, <1>2, <1>3 DEF Agreed

LEMMA VerifiedKept ==
  ASSUME JInv, [Next]_vars, StepEffects, TypeOK'
  PROVE  Verified'
<1> DEFINE C == "controller"
           D == "display"
<1>a. TypeOK /\ Places /\ C \in Phone /\ D \in Phone /\ Verified
  BY DEF JInv, IInv, Phone
<1>b. DisplayLoadsSnapshot =>
        /\ pc[D] = "recvSnapshot" /\ pc'[D] \in {"sendReady", "sendFailure"}
        /\ pc'[D] = "sendReady" => core'[D] = core[C]
        /\ pc'[C] = pc[C] /\ core'[C] = core[C]
  <2> SUFFICES ASSUME DisplayLoadsSnapshot
               PROVE  /\ pc[D] = "recvSnapshot" /\ pc'[D] \in {"sendReady", "sendFailure"}
                      /\ pc'[D] = "sendReady" => core'[D] = core[C]
                      /\ pc'[C] = pc[C] /\ core'[C] = core[C]
    OBVIOUS
  <2>1. PICK loaded :
           /\ core' = [core EXCEPT !["display"] = loaded]
           /\ Goto("display", AfterLoading(loaded, Head(wire["display"]).stateHash))
    BY DEF DisplayLoadsSnapshot
  <2>2. pc[D] = "recvSnapshot" /\ Accepted(D)
    BY DEF DisplayLoadsSnapshot
  <2>3. wire[D] # <<>> /\ Accepts(D, Head(wire[D]))
    BY <1>a, <2>2, AcceptedHead DEF UsesInbox
  <2>4. Forth(2, Head(wire[D]))
    <3>1. Forth(DisplayTook + 1, Head(wire[D])) /\ DisplayTook = 1
      BY <2>2, <2>3, DisplayHead DEF DisplayTook
    <3> QED
      BY <3>1
  <2>5. Head(wire[D]).type = "snapshot"
    BY <2>2, <2>3 DEF Accepts
  <2>6. Head(wire[D]).stateHash = core[C]
    BY <2>2, <2>4, <2>5 DEF Forth, BeforeReady
  <2> QED
    BY <1>a, <2>1, <2>2, <2>6 DEF Goto, AfterLoading, TypeOK
<1>c. Receives(D, "recvHello", "recvSnapshot") => game[C] = game[D]
  <2> SUFFICES ASSUME Receives(D, "recvHello", "recvSnapshot") PROVE game[C] = game[D]
    OBVIOUS
  <2>1. pc[D] = "recvHello" /\ Accepted(D)
    BY DEF Receives
  <2>2. wire[D] # <<>> /\ Accepts(D, Head(wire[D]))
    BY <1>a, <2>1, AcceptedHead DEF UsesInbox
  <2>3. Forth(1, Head(wire[D]))
    <3>1. Forth(DisplayTook + 1, Head(wire[D])) /\ DisplayTook = 0
      BY <2>1, <2>2, DisplayHead DEF DisplayTook
    <3> QED
      BY <3>1
  <2>4. Head(wire[D]).type = "hello" /\ Head(wire[D]).identity = game[D]
    BY <2>1, <2>2 DEF Accepts
  <2> QED
    BY <2>3, <2>4 DEF Forth
<1>d. /\ Receives(D, "recvHello", "recvSnapshot") => pc'[D] = "recvSnapshot"
      /\ Sends(D, "sendReady", Signal("ready"), "recvStart") =>
           pc[D] = "sendReady" /\ pc'[D] = "recvStart"
      /\ DisplayReceivesFinish => pc'[D] \in {"sendPassed", "sendFailed"}
  BY <1>a DEF Receives, Sends, DisplayReceivesFinish, Goto, TypeOK
<1>1. ASSUME pc'[D] \in {"recvSnapshot", "sendReady", "sendFailure"}
      PROVE  game'[C] = game'[D]
  <2>1. \/ pc[D] \in {"recvSnapshot", "sendReady", "sendFailure"}
        \/ Receives(D, "recvHello", "recvSnapshot")
    BY <1>1, <1>a, <1>b, <1>d, DisplayMoves
  <2> QED
    BY <1>a, <1>c, <2>1 DEF Verified, StepEffects
<1>2. ASSUME pc'[D] = "sendReady" PROVE core'[C] = core'[D]
  <2>1. pc[D] = "sendReady" \/ DisplayLoadsSnapshot
    BY <1>2, <1>a, <1>d, DisplayMoves
  <2>2. CASE pc[D] = "sendReady"
    <3>1. pc[C] # "step"
      BY <1>a, <2>2 DEF Verified, Begun, Agreed, BeforeReady
    <3>2. core'[C] = core[C] /\ core'[D] = core[D]
      BY <2>2, <3>1 DEF StepEffects
    <3> QED
      BY <1>a, <2>2, <3>2 DEF Verified
  <2> QED
    BY <1>2, <1>b, <2>1, <2>2
<1>3. ASSUME Begun' PROVE Agreed'
  <2>1. CASE Begun
    BY <2>1, AgreedStays
  <2>2. CASE ~Begun
    <3>1. Sends(D, "sendReady", Signal("ready"), "recvStart")
      BY <1>3, <2>2, BegunBefore
    <3>2. /\ pc[D] = "sendReady" /\ pc'[D] = "recvStart" /\ UNCHANGED <<core, game, outcome>>
      BY <1>d, <3>1 DEF Sends, machine, control
    <3>3. game[C] = game[D] /\ core[C] = core[D] /\ outcome[D] = "none"
      BY <1>a, <3>2 DEF Verified, JInv, Ended
    <3> QED
      BY <3>2, <3>3 DEF Agreed, BeforeReady
  <2> QED
    BY <2>1, <2>2
<1> QED
  BY <1>1, <1>2, <1>3 DEF Verified

(***************************************************************************)
(* How sessions end.                                                       *)
(***************************************************************************)
\* The comparison of a checkpoint is one of the two present states.
LEMMA CheckpointTaken ==
  ASSUME JInv, ControllerVerifies
  PROVE  /\ pc["controller"] = "drain" /\ pending' = <<>>
         /\ Acknowledged = frame - 1 /\ framesCompleted = frame /\ 1 <= frame
         /\ pending[1].frame = frame /\ pending[1].needsDigest
         /\ detail' \in {"matched", "missing", "mismatch"}
         /\ detail' = "matched" => NeedsDigest("display", frame)
         /\ detail' = "mismatch" => core["controller"] # core["display"]
         /\ pc'["controller"] = IF detail' = "matched" THEN "lockstep" ELSE "sendFinish"
         /\ lastDigest'["controller"] =
              <<[frame |-> frame, state |-> core["controller"]]>>
         /\ checkpoints' = [checkpoints EXCEPT !["controller"] = @ + 1]
<1> DEFINE C == "controller"
           D == "display"
<1>a. /\ TypeOK /\ C \in Phone /\ frame \in Nat /\ framesCompleted \in Nat
      /\ pending \in Seq(Pending)
  BY DEF JInv, IInv, TypeOK, Phone
<1>1. /\ pc[C] \in {"lockstep", "drain"} /\ messages # <<>> /\ pending' = Tail(pending)
      /\ Head(messages).type = "acknowledgement"
      /\ Head(messages).frame = Head(pending).frame
      /\ pending # <<>> /\ Head(pending) = pending[1] /\ Len(pending) \in Nat
      /\ 1 <= Len(pending) /\ Len(Tail(pending)) = Len(pending) - 1
      /\ Head(pending).frame = Acknowledged + 1
  BY TakesInbox
<1>2. /\ 1 = Len(pending) /\ pc[C] = "drain" /\ pending[1].needsDigest
      /\ pending[1].digest = <<[frame |-> frame, state |-> core[C]]>>
  <2>1. pending[1].needsDigest /\ 1 \in 1 .. Len(pending)
    BY <1>1 DEF ControllerVerifies
  <2> QED
    BY <1>1, <2>1 DEF JInv, IInv, Draining
<1>3. Tail(pending) = <<>>
  BY <1>a, <1>1, <1>2, HeadTailProperties, EmptySeq
<1>4. Acknowledged = frame - 1
  <2>1. Announced = 0 /\ Len(pending) = 1
    BY <1>2 DEF Announced
  <2> QED
    BY <1>a, <2>1 DEF Acknowledged
<1>5. PICK m \in Message : m = Head(messages)
  BY <1>1, ControllerHead
<1>6. /\ m.type = "acknowledgement" /\ m.frame = frame /\ Sent(m)
      /\ Back(ControllerTook + 1, m)
  BY <1>a, <1>1, <1>4, <1>5, ControllerHead
<1>7. framesCompleted = frame /\ 1 <= frame
  BY <1>a, <1>6 DEF Sent, JInv, IInv, Lead
<1>8. m.digest # <<>> =>
        /\ m.digest = <<[frame |-> frame, state |-> core[D]]>>
        /\ NeedsDigest(D, frame)
  <2>1. m.digest # <<>> => NeedsDigest(D, m.frame)
    BY <1>6 DEF Back
  <2> QED
    BY <1>6, <1>7, <2>1 DEF Sent
<1>9. detail' = Comparison(pending[1].digest, m.digest)
  BY <1>1, <1>5 DEF ControllerVerifies
<1>10. /\ detail' \in {"matched", "missing", "mismatch"}
       /\ detail' = "matched" => NeedsDigest(D, frame)
       /\ detail' = "mismatch" => core[C] # core[D]
  BY <1>2, <1>8, <1>9 DEF Comparison
<1>11. pc'[C] = IF detail' = "matched" THEN "lockstep" ELSE "sendFinish"
  BY <1>a, <1>2, <1>3 DEF ControllerVerifies, Goto, AfterAcknowledgement, TypeOK
<1>12. /\ lastDigest'[C] = <<[frame |-> frame, state |-> core[C]]>>
       /\ checkpoints' = [checkpoints EXCEPT ![C] = @ + 1]
  BY <1>a, <1>1, <1>2 DEF ControllerVerifies, TypeOK
<1>13. pending[1].frame = frame /\ pending' = <<>>
  BY <1>a, <1>1, <1>3, <1>4
<1> QED
  BY <1>2, <1>4, <1>7, <1>10, <1>11, <1>12, <1>13, Zenon

\* Where the controller stops, both phones have run the same frames.
LEMMA CompletesSettled ==
  ASSUME JInv, ControllerCompletes
  PROVE  /\ pending = <<>> /\ framesCompleted = frame /\ Success
         /\ pc["display"] \notin BeforeReady /\ frame = Limit["controller"]
         /\ core["controller"] = core["display"]
         /\ checkpoints["controller"] <= checkpoints["display"]
<1> DEFINE C == "controller"
           D == "display"
<1>a. /\ TypeOK /\ frame \in Nat /\ framesCompleted \in Nat /\ pending \in Seq(Pending)
      /\ pc[C] = "lockstep" /\ ~MoreFrames /\ Limit[C] \in Nat \cup {NoLimit}
  BY LimitAssumption DEF JInv, IInv, TypeOK, Phone, ControllerCompletes
<1>1. frame = Limit[C]
  BY <1>a DEF MoreFrames, JInv, Counted, NoLimit
<1>2. Agreed /\ Success /\ checkpoints[C] <= checkpoints[D]
  BY <1>a DEF JInv, Verified, Begun, Counted
<1>3. CASE frame = 0
  <2>1. Len(pending) = 0
    BY <1>a, <1>3 DEF JInv, Counted, Acknowledged, Announced
  <2>2. framesCompleted = 0
    BY <1>a, <1>3 DEF JInv, IInv, Lead
  <2> QED
    BY <1>a, <1>1, <1>2, <1>3, <2>1, <2>2, EmptySeq DEF Agreed
<1>4. CASE frame > 0
  <2>1. NeedsDigest(C, frame)
    BY <1>1 DEF NeedsDigest
  <2> QED
    BY <1>a, <1>1, <1>2, <1>4, <2>1 DEF JInv, IInv, Barrier, Agreed
<1> QED
  BY <1>a, <1>3, <1>4

\* The display takes the end of the session for what it is.
LEMMA FinishTaken ==
  ASSUME JInv, DisplayReceivesFinish
  PROVE  /\ pc["controller"] \in {"recvFinishAck", "over"} /\ framesCompleted = frame
         /\ pc'["controller"] = pc["controller"]
         /\ pc'["display"] = "sendPassed" => Success /\ Settled
         /\ pc'["display"] = "sendFailed" => ~Success
<1> DEFINE D == "display"
<1>a. /\ TypeOK /\ D \in Phone /\ framesCompleted \in Nat /\ pc[D] = "recvFrame"
      /\ Accepted(D)
  BY DEF JInv, IInv, TypeOK, Phone, DisplayReceivesFinish
<1>1. wire[D] # <<>> /\ Accepts(D, Head(wire[D]))
  BY <1>a, AcceptedHead DEF UsesInbox
<1>2. PICK m \in Message, n \in Nat : m = Head(wire[D]) /\ n = DisplayTook + 1
  BY <1>a, <1>1, DisplayHead, CountTypes
<1>3. Forth(n, m) /\ m.type = "finish" /\ m.frame = framesCompleted
  BY <1>a, <1>1, <1>2, DisplayHead DEF DisplayReceivesFinish, Accepts
<1>4. /\ m.frame = frame /\ pc["controller"] \in {"recvFinishAck", "over"}
      /\ m.success = Success /\ (m.success => Settled)
  BY <1>3 DEF Forth
<1>5. /\ pc'["controller"] = pc["controller"]
      /\ pc'[D] = IF m.success THEN "sendPassed" ELSE "sendFailed"
  BY <1>a, <1>2 DEF DisplayReceivesFinish, Goto, TypeOK, Phone
<1> QED
  BY <1>3, <1>4, <1>5

\* The controller returns what the display has confirmed.
LEMMA ControllerConfirmed ==
  ASSUME JInv, ControllerReturns
  PROVE  /\ outcome'["controller"] = Verdict
         /\ outcome'["display"] = outcome["display"] /\ pc["controller"] = "recvFinishAck"
         /\ \/ outcome["display"] = Verdict
            \/ GivesUp /\ outcome["display"] = "transport"
<1> DEFINE C == "controller"
<1>a. TypeOK /\ C \in Phone /\ pc[C] = "recvFinishAck" /\ Accepted(C)
  BY DEF JInv, IInv, Phone, ControllerReturns
<1>1. messages # <<>> /\ Accepts(C, Head(messages))
  BY <1>a, AcceptedHead DEF UsesInbox
<1>2. Back(ControllerTook + 1, Head(messages))
  BY <1>a, <1>1, ControllerHead
<1>3. Head(messages).type = "finishAcknowledgement"
  BY <1>a, <1>1 DEF Accepts
<1>4. \/ outcome["display"] = Verdict
      \/ GivesUp /\ outcome["display"] = "transport"
  BY <1>2, <1>3 DEF Back
<1> QED
  BY <1>a, <1>4 DEF ControllerReturns, Leave, Verdict, TypeOK, Phone

LEMMA EndedKept ==
  ASSUME JInv, [Next]_vars, StepEffects, TypeOK'
  PROVE  Ended'
<1> DEFINE C == "controller"
           D == "display"
<1>a. /\ TypeOK /\ Places /\ IInv /\ Ended /\ C \in Phone /\ D \in Phone
      /\ Phone = {C, D} /\ frame \in Nat
  BY DEF JInv, IInv, TypeOK, Phone
<1>b. Success' = Success \/ ControllerVerifies
  BY CountsChange
  DEF Counts, Success, ControllerSendsInput, ControllerSteps,
      ControllerTakesAcknowledgement, DisplaySteps
<1>c. ControllerVerifies => pc[C] = "drain"
  BY CheckpointTaken
<1>d. pc[D] \notin BeforeReady => pc'[D] \notin BeforeReady
  BY DEF StepEffects
<1>1. \A p \in Phone : pc'[p] = "over" <=> outcome'[p] # "none"
  BY <1>a, OutcomeChange DEF Ended
<1>2. ASSUME outcome'[C] = "malformed" PROVE frame' = 0
  <2>1. outcome[C] = "malformed" \/ Reject(C)
    <3>1. ControllerReturns => outcome'[C] # "malformed"
      BY ControllerConfirmed DEF Verdict
    <3> QED
      BY <1>2, <1>a, <3>1, OutcomeChange
  <2>2. frame = 0 /\ pc[C] # "lockstep"
    <3>1. CASE outcome[C] = "malformed"
      BY <1>a, <3>1 DEF Ended
    <3>2. CASE Reject(C)
      BY <1>a, <3>2, ControllerRejects DEF IInv, Barrier, BeforeStart
    <3> QED
      BY <2>1, <3>1, <3>2
  <2> QED
    BY <2>2 DEF StepEffects
<1>3. ASSUME pc'[C] \in {"sendFinish", "recvFinishAck"}
      PROVE  pending' = <<>> /\ framesCompleted' = frame' /\ (Success' => Settled')
  <2>1. CASE pc[C] \in {"sendFinish", "recvFinishAck"}
    <3>1. Still
      BY <1>a, <2>1 DEF Ended, Still, JInv, Verified, Begun, Agreed
    <3>2. pending' = <<>> /\ framesCompleted' = frame'
      BY <1>a, <2>1, <3>1, StillRemains DEF Ended, StepEffects, Still
    <3>3. Success' = Success
      BY <1>b, <1>c, <2>1
    <3> QED
      BY <1>a, <2>1, <3>2, <3>3, SettledRemains DEF Ended
  <2>2. CASE ControllerCompletes
    <3>1. UNCHANGED <<frame, framesCompleted, pending, core, checkpoints>>
          /\ pc'[D] = pc[D] /\ pc'[C] = "sendFinish"
      BY <1>a, <2>2 DEF ControllerCompletes, progress, machine, Goto, TypeOK, Phone
    <3> QED
      BY <2>2, <3>1, CompletesSettled DEF Settled, Still
  <2>3. CASE ControllerVerifies
    <3>1. /\ detail' \notin {"none", "matched"} /\ pending' = <<>>
          /\ framesCompleted = frame
      BY <1>3, <2>3, CheckpointTaken
    <3>2. framesCompleted' = framesCompleted /\ frame' = frame
      BY <2>3 DEF ControllerVerifies
    <3> QED
      BY <3>1, <3>2 DEF Success
  <2>4. \/ pc[C] \in {"sendFinish", "recvFinishAck"}
        \/ ControllerCompletes \/ ControllerVerifies
    <3>1. /\ ~ ControllerStarts /\ ~ ControllerSendsInput /\ ~ ControllerSteps
      BY <1>3, <1>a
      DEF ControllerStarts, ControllerSendsInput, ControllerSteps, Goto, TypeOK
    <3>2. ControllerTakesAcknowledgement => pc'[C] \in {"lockstep", "drain"}
      BY <1>a DEF ControllerTakesAcknowledgement, Goto, TypeOK, AfterAcknowledgement
    <3> QED
      BY <1>3, <1>a, <3>1, <3>2, ControllerMoves DEF BeforeStart
  <2> QED
    BY <2>1, <2>2, <2>3, <2>4
<1>4. ASSUME pc'[D] \in {"sendPassed", "sendFailed"}
      PROVE  /\ pc'[C] \in {"recvFinishAck", "over"} /\ framesCompleted' = frame'
             /\ pc'[D] = "sendPassed" => Success' /\ Settled'
             /\ pc'[D] = "sendFailed" => ~Success'
  <2>1. /\ pc[C] \in {"recvFinishAck", "over"} /\ framesCompleted = frame
        /\ pc'[D] = "sendPassed" => Success /\ Settled
        /\ pc'[D] = "sendFailed" => ~Success
        /\ pc[D] # "step"
    <3>1. CASE pc[D] = pc'[D]
      BY <1>4, <1>a, <3>1 DEF Ended
    <3>2. CASE DisplayReceivesFinish
      BY <3>2, FinishTaken DEF DisplayReceivesFinish
    <3>3. /\ ~ Receives(D, "recvHello", "recvSnapshot") /\ ~ DisplayLoadsSnapshot
          /\ ~ Sends(D, "sendReady", Signal("ready"), "recvStart")
      BY <1>4, <1>a DEF Receives, Sends, DisplayLoadsSnapshot, Goto, AfterLoading, TypeOK
    <3> QED
      BY <1>4, <1>a, <3>1, <3>2, <3>3, DisplayMoves
  <2>2. /\ pc'[C] \in {"recvFinishAck", "over"} /\ frame' = frame
        /\ framesCompleted' = framesCompleted
    BY <2>1, <1>a DEF StepEffects
  <2>3. Success' = Success
    BY <1>b, <1>c, <2>1
  <2> QED
    BY <1>a, <2>1, <2>2, <2>3, SettledRemains
<1>5. ASSUME NEW p \in Phone, outcome'[p] = "passed" PROVE Settled'
  <2>1. Settled
    <3>1. CASE outcome[p] = "passed"
      BY <1>a, <3>1 DEF Ended
    <3>2. CASE p = C /\ ControllerReturns
      BY <1>5, <1>a, <3>2, ControllerConfirmed DEF Ended, Verdict
    <3>3. CASE p = D /\ DisplayReturns
      BY <1>5, <1>a, <3>3 DEF DisplayReturns, Leave, TypeOK, Ended
    <3>4. p = D /\ DisplayReportsFailure => outcome'[p] = "malformed"
      BY <1>a DEF DisplayReportsFailure, Leave, TypeOK
    <3>5. Reject(p) => outcome'[p] = "malformed"
      BY <1>a DEF Reject, Leave, TypeOK
    <3> QED
      BY <1>5, <1>a, <3>1, <3>2, <3>3, <3>4, <3>5, OutcomeChange
  <2> QED
    BY <1>a, <2>1, SettledRemains
<1>6. ASSUME outcome'[C] \in {"passed", "failed"}
      PROVE  \/ outcome'[D] = outcome'[C]
             \/ GivesUp /\ outcome'[D] = "transport"
  <2>1. CASE outcome[C] \in {"passed", "failed"}
    <3>1. /\ pc[C] = "over" /\ outcome[D] # "none"
          /\ \/ outcome[D] = outcome[C]
             \/ GivesUp /\ outcome[D] = "transport"
      BY <1>a, <2>1 DEF Ended
    <3>2. pc[D] = "over"
      BY <1>a, <3>1 DEF Ended
    <3> QED
      BY <1>a, <3>1, <3>2 DEF StepEffects
  <2>2. CASE ControllerReturns
    BY <2>2, ControllerConfirmed
  <2>3. Reject(C) => outcome'[C] = "malformed"
    BY <1>a DEF Reject, Leave, TypeOK
  <2> QED
    BY <1>6, <1>a, <2>1, <2>2, <2>3, OutcomeChange
<1>7. ASSUME detail' = "mismatch" PROVE Still' /\ core'[C] # core'[D]
  <2>1. CASE detail = "mismatch"
    BY <1>a, <2>1, StillRemains DEF Ended
  <2>2. CASE ControllerVerifies
    <3>1. /\ pc'[C] = "sendFinish" /\ framesCompleted = frame /\ core[C] # core[D]
          /\ pc[C] = "drain"
      BY <1>7, <2>2, CheckpointTaken
    <3>2. framesCompleted' = framesCompleted /\ frame' = frame /\ core' = core
      BY <2>2 DEF ControllerVerifies, machine
    <3>3. pc'[D] \notin BeforeReady
      BY <1>d, <3>1 DEF JInv, Verified, Begun, Agreed
    <3> QED
      BY <3>1, <3>2, <3>3 DEF Still
  <2>3. detail' = detail \/ ControllerVerifies
    BY CountsChange
    DEF Counts, ControllerSendsInput, ControllerSteps, ControllerTakesAcknowledgement,
        DisplaySteps
  <2> QED
    BY <1>7, <2>1, <2>2, <2>3
<1> QED
  BY <1>1, <1>2, <1>3, <1>4, <1>5, <1>6, <1>7 DEF Ended

(***************************************************************************)
(* What the controller has counted.                                        *)
(***************************************************************************)
\* Before the start nothing is pending, in the inbox, or read.
LEMMA NothingBeforeStart ==
  ASSUME JInv, [Next]_vars, StepEffects, TypeOK', pc'["controller"] \in BeforeStart
  PROVE  pending' = <<>> /\ messages' = <<>> /\ ~reading'
<1> DEFINE C == "controller"
<1>a. /\ TypeOK /\ Places /\ C \in Phone
  BY DEF JInv, IInv, Phone
<1>1. /\ ~ ControllerStarts /\ ~ ControllerSendsInput /\ ~ ControllerSteps
      /\ ~ ControllerTakesAcknowledgement /\ ~ ControllerVerifies /\ ~ ControllerCompletes
  <2>1. ControllerStarts \/ ControllerSendsInput \/ ControllerSteps \/ ControllerCompletes
          => pc'[C] \in {"lockstep", "step", "drain", "sendFinish"}
    BY <1>a DEF ControllerStarts, ControllerSendsInput, ControllerSteps,
                ControllerCompletes, Goto, TypeOK
  <2>2. ControllerTakesAcknowledgement \/ ControllerVerifies
          => pc'[C] \in {"lockstep", "drain", "sendFinish"}
    BY TakesInbox
  <2> QED
    BY <2>1, <2>2 DEF BeforeStart
<1>2. pc[C] \in BeforeStart
  BY <1>a, <1>1, ControllerMoves DEF BeforeStart
<1>3. pending = <<>> /\ messages = <<>> /\ ~reading
  BY <1>2 DEF JInv, Counted
<1>4. pending' = pending
  BY <1>1, CountsChange DEF Counts, DisplaySteps
<1>5. UNCHANGED <<messages, reading>>
  <2>1. ASSUME NEW p \in Phone,
               \/ Activate(p) \/ Reject(p) \/ TransportError(p) \/ SnapshotFails(p)
               \/ MainThread(p)
        PROVE  UNCHANGED <<messages, reading>>
    BY <2>1 DEF Activate, Reject, TransportError, SnapshotFails, MainThread, AppLeaves,
                CancelSession, Leave, inbox
  <2>2. ASSUME LinkFails \/ Over \/ UNCHANGED vars PROVE UNCHANGED <<messages, reading>>
    BY <2>2 DEF LinkFails, Over, vars, inbox
  <2>3. ~Reader
    BY <1>3 DEF Reader, ReaderReceives, ReaderEnds
  <2>4. ASSUME DisplayThread PROVE UNCHANGED <<messages, reading>>
    BY <2>4
    DEF DisplayThread, DisplayHandshake, Receives, Sends, DisplayLoadsSnapshot,
        DisplayReportsFailure, DisplayStarts, DisplayReceivesInput, DisplaySteps,
        DisplayAcknowledges, DisplayReceivesFinish, DisplayReturns, Leave, inbox
  <2>5. ASSUME ControllerHandshake \/ ControllerSendsFinish
        PROVE  UNCHANGED <<messages, reading>>
    BY <2>5 DEF ControllerHandshake, ControllerSendsFinish, Receives, Sends, inbox
  <2>6. ~ControllerReturns
    BY <1>2 DEF ControllerReturns, BeforeStart
  <2> QED
    BY <1>1, <2>1, <2>2, <2>3, <2>4, <2>5, <2>6
    DEF Next, EmulationThread, ControllerThread
<1> QED
  BY <1>3, <1>4, <1>5

\* The number of acknowledgements taken, step by step.
LEMMA AcknowledgedGrows ==
  ASSUME JInv, [Next]_vars, StepEffects, TypeOK',
         pc'["controller"] # "over"
  PROVE  /\ ControllerTakesAcknowledgement \/ ControllerVerifies =>
              Acknowledged' = Acknowledged + 1
         /\ ~(ControllerTakesAcknowledgement \/ ControllerVerifies) =>
              Acknowledged' = Acknowledged
<1> DEFINE C == "controller"
<1>a. /\ TypeOK /\ Places /\ C \in Phone /\ frame \in Nat /\ Len(pending) \in Nat
  BY DEF JInv, IInv, TypeOK, Phone
<1>1. CASE ControllerTakesAcknowledgement \/ ControllerVerifies
  <2>1. /\ Len(pending') = Len(pending) - 1 /\ frame' = frame
        /\ pc[C] # "step" /\ pc'[C] # "step"
    BY <1>1, TakesInbox
  <2> QED
    BY <1>1, <1>a, <2>1 DEF Acknowledged, Announced
<1>2. CASE ControllerSendsInput
  <2>1. /\ frame' = frame + 1 /\ pc[C] = "lockstep" /\ pc'[C] = "step"
        /\ pending' = pending
    BY <1>2, <1>a DEF ControllerSendsInput, Goto, TypeOK
  <2>2. ~(ControllerTakesAcknowledgement \/ ControllerVerifies)
    BY <2>1, TakesInbox
  <2> QED
    BY <1>a, <2>1, <2>2 DEF Acknowledged, Announced
<1>3. CASE ControllerSteps
  <2>1. /\ frame' = frame /\ pc[C] = "step" /\ pc'[C] \in {"lockstep", "drain"}
        /\ \E x : pending' = Append(pending, x)
    BY <1>3, <1>a DEF ControllerSteps, Goto, TypeOK
  <2>2. Len(pending') = Len(pending) + 1
    BY <1>a, <2>1 DEF TypeOK
  <2>3. ~(ControllerTakesAcknowledgement \/ ControllerVerifies)
    BY <2>1, TakesInbox
  <2> QED
    BY <1>a, <2>1, <2>2, <2>3 DEF Acknowledged, Announced
<1>4. CASE ~ \/ ControllerTakesAcknowledgement \/ ControllerVerifies
             \/ ControllerSendsInput \/ ControllerSteps
  <2>1. frame' = frame /\ pending' = pending
    BY <1>4, CountsChange DEF Counts, DisplaySteps
  <2>2. pc'[C] = "step" <=> pc[C] = "step"
    <3>1. ControllerStarts \/ ControllerCompletes => pc'[C] # "step" /\ pc[C] # "step"
      BY <1>a DEF ControllerStarts, ControllerCompletes, Goto, TypeOK
    <3> QED
      BY <1>4, <1>a, <3>1, ControllerMoves DEF BeforeStart
  <2> QED
    BY <1>4, <2>1, <2>2 DEF Acknowledged, Announced
<1> QED
  BY <1>1, <1>2, <1>3, <1>4

LEMMA ComparedType == ASSUME TypeOK PROVE Compared \in Nat
<1>1. PICK d \in Digest : d = lastDigest["controller"]
  BY DEF TypeOK, Phone
<1>2. d # <<>> => d[1] \in [frame : Nat, state : State]
  <2> DEFINE R == [frame : Nat, state : State]
  <2>1. d \in Seq(R)
    BY DEF Digest
  <2> HIDE DEF R
  <2>2. d # <<>> => d[1] \in R
    BY <2>1
  <2> QED
    BY <2>2 DEF R
<1>3. d # <<>> => d[1].frame \in Nat
  BY <1>2
<1> QED
  BY <1>1, <1>3 DEF Compared

LEMMA CountedKept ==
  ASSUME JInv, [Next]_vars, StepEffects, TypeOK'
  PROVE  Counted'
<1> DEFINE C == "controller"
           D == "display"
<1>a. /\ TypeOK /\ Places /\ IInv /\ Counted /\ C \in Phone /\ D \in Phone
      /\ Phone = {C, D} /\ frame \in Nat /\ framesCompleted \in Nat
      /\ pending \in Seq(Pending) /\ Len(pending) \in Nat
      /\ checkpoints \in [Phone -> Nat]
  BY DEF JInv, IInv, TypeOK, Phone
<1>b. ControllerVerifies \/ (detail' = detail /\ lastDigest'[C] = lastDigest[C]
                             /\ checkpoints'[C] = checkpoints[C])
  <2>1. DisplaySteps => /\ detail' = detail /\ lastDigest'[C] = lastDigest[C]
                        /\ checkpoints'[C] = checkpoints[C]
    <3>1. CASE NeedsDigest(D, framesCompleted + 1)
      <4>1. DisplaySteps =>
              /\ checkpoints' = [checkpoints EXCEPT ![D] = @ + 1]
              /\ \E d : lastDigest' = [lastDigest EXCEPT ![D] = d]
        BY <3>1 DEF DisplaySteps
      <4> QED
        BY <1>a, <4>1 DEF DisplaySteps, TypeOK
    <3>2. CASE ~NeedsDigest(D, framesCompleted + 1)
      BY <3>2 DEF DisplaySteps
    <3> QED
      BY <3>1, <3>2
  <2> QED
    BY <2>1, CountsChange
    DEF Counts, ControllerSendsInput, ControllerSteps, ControllerTakesAcknowledgement
<1>c. ControllerVerifies =>
        /\ pc[C] = "drain" /\ Compared' = frame /\ Acknowledged = frame - 1
        /\ frame' = frame /\ framesCompleted' = framesCompleted
        /\ framesCompleted = frame
        /\ pending' = <<>>
        /\ checkpoints' = [checkpoints EXCEPT ![C] = @ + 1]
  <2> SUFFICES ASSUME ControllerVerifies
               PROVE  /\ pc[C] = "drain" /\ Compared' = frame /\ Acknowledged = frame - 1
                      /\ frame' = frame /\ framesCompleted' = framesCompleted
                      /\ framesCompleted = frame
                      /\ pending' = <<>>
                      /\ checkpoints' = [checkpoints EXCEPT ![C] = @ + 1]
    OBVIOUS
  <2>1. lastDigest'[C] = <<[frame |-> frame, state |-> core[C]]>>
    BY CheckpointTaken
  <2>2. Compared' = frame
    BY <2>1 DEF Compared
  <2>3. frame' = frame /\ framesCompleted' = framesCompleted
    BY DEF ControllerVerifies
  <2> QED
    BY <2>2, <2>3, CheckpointTaken, Zenon
<1>d. ControllerVerifies \/ Compared' = Compared
  BY <1>b DEF Compared
<1>1. pc'[C] \in BeforeStart => pending' = <<>> /\ messages' = <<>> /\ ~reading'
  BY NothingBeforeStart
<1>2. ASSUME pc'[C] \in BeforeStart \cup {"lockstep", "step", "drain"} PROVE Success'
  <2>1. CASE ControllerVerifies
    BY <1>2, <2>1, CheckpointTaken DEF Success, BeforeStart
  <2>2. CASE ~ControllerVerifies
    <3>1. pc[C] \in BeforeStart \cup {"lockstep", "step", "drain"}
      <4>1. ControllerTakesAcknowledgement => pc[C] \in {"lockstep", "drain"}
        BY TakesInbox
      <4> QED
        BY <1>2, <1>a, <2>2, <4>1, ControllerMoves
        DEF ControllerStarts, ControllerSendsInput, ControllerSteps, ControllerCompletes,
            BeforeStart
    <3> QED
      BY <1>a, <1>b, <2>2, <3>1 DEF Counted, Success
  <2> QED
    BY <2>1, <2>2
<1>3. ASSUME pc'[C] = "step" PROVE frame' >= 1
  <2>1. pc[C] = "step" \/ ControllerSendsInput
    <3>1. ~ ControllerStarts /\ ~ ControllerSteps /\ ~ ControllerCompletes
      BY <1>3, <1>a DEF ControllerStarts, ControllerSteps, ControllerCompletes, Goto,
                        TypeOK
    <3>2. ~ ControllerTakesAcknowledgement /\ ~ ControllerVerifies
      BY <1>3, TakesInbox
    <3> QED
      BY <1>3, <1>a, <3>1, <3>2, ControllerMoves DEF BeforeStart
  <2>2. CASE pc[C] = "step"
    BY <1>a, <2>2 DEF Counted, StepEffects
  <2>3. CASE ControllerSendsInput
    BY <1>a, <2>3 DEF ControllerSendsInput
  <2> QED
    BY <2>1, <2>2, <2>3
<1>4. ASSUME pc'[C] # "over" PROVE 0 <= Acknowledged' /\ Compared' <= Acknowledged'
  <2>1. pc[C] # "over" /\ 0 <= Acknowledged /\ Compared <= Acknowledged
    BY <1>4, <1>a DEF StepEffects, Counted
  <2>2. Acknowledged \in Int /\ Compared \in Int
    BY <1>a, ComparedType DEF Acknowledged, Announced
  <2>3. CASE ControllerVerifies
    <3>1. Compared' = frame /\ Acknowledged = frame - 1
      BY <1>c, <2>3
    <3> QED
      BY <1>4, <1>a, <2>1, <2>2, <2>3, <3>1, AcknowledgedGrows
  <2>4. CASE ~ControllerVerifies
    <3>1. Compared' = Compared /\ Acknowledged' \in {Acknowledged, Acknowledged + 1}
      BY <1>4, <1>d, <2>4, AcknowledgedGrows
    <3> QED
      BY <2>1, <2>2, <3>1
  <2> QED
    BY <2>3, <2>4
<1>5. ASSUME Limit[C] # NoLimit PROVE frame' <= Limit[C]
  <2>1. Limit[C] \in Nat /\ frame <= Limit[C]
    BY <1>5, <1>a, LimitAssumption DEF Counted, NoLimit
  <2>2. ControllerSendsInput => frame < Limit[C]
    BY <1>5 DEF ControllerSendsInput, MoreFrames
  <2>3. frame' = frame \/ (frame' = frame + 1 /\ ControllerSendsInput)
    BY <1>a, FrameGrows
  <2> QED
    BY <1>a, <2>1, <2>2, <2>3
<1>6. \A i \in 1 .. Len(pending') :
        pending'[i].needsDigest = NeedsDigest(C, pending'[i].frame)
  <2>1. CASE ControllerSteps
    <3> DEFINE x == [frame |-> frame, needsDigest |-> NeedsDigest(C, frame),
                     digest |-> DigestOf(C, frame, core'[C])]
    <3>1. pending' = Append(pending, x)
      BY <2>1 DEF ControllerSteps
    <3>2. x.needsDigest = NeedsDigest(C, x.frame)
      OBVIOUS
    <3> HIDE DEF x
    <3>3. ASSUME NEW i \in 1 .. Len(pending')
          PROVE  pending'[i] = x \/ (i \in 1 .. Len(pending) /\ pending'[i] = pending[i])
      BY <1>a, <3>1
    <3> QED
      BY <1>a, <3>2, <3>3, Zenon DEF Counted
  <2>2. CASE ControllerTakesAcknowledgement \/ ControllerVerifies
    <3>1. pending' = Tail(pending) /\ pending # <<>>
      BY <2>2, TakesInbox
    <3>2. ASSUME NEW i \in 1 .. Len(pending')
          PROVE  i + 1 \in 1 .. Len(pending) /\ pending'[i] = pending[i + 1]
      BY <1>a, <3>1, HeadTailProperties
    <3> QED
      BY <1>a, <3>2, Zenon DEF Counted
  <2>3. pending' = pending \/ ControllerSteps
        \/ ControllerTakesAcknowledgement \/ ControllerVerifies
    BY CountsChange DEF Counts, ControllerSendsInput, DisplaySteps
  <2> QED
    BY <1>a, <2>1, <2>2, <2>3 DEF Counted
<1>7. ASSUME pc'[C] = "lockstep", frame' > 0, NeedsDigest(C, frame')
      PROVE  Compared' = frame'
  <2>1. CASE ControllerVerifies
    BY <1>c, <2>1
  <2>2. CASE ControllerTakesAcknowledgement
    <3>1. pc[C] = "lockstep" /\ frame' = frame
      <4>1. pc[C] \in {"lockstep", "drain"} /\ frame' = frame /\ pending # <<>>
            /\ Len(Tail(pending)) = Len(pending) - 1 /\ Head(pending) = pending[1]
        BY <2>2, TakesInbox
      <4>2. ASSUME pc[C] = "drain" PROVE FALSE
        <5>1. Tail(pending) = <<>>
          BY <1>7, <1>a, <2>2, <4>2
          DEF ControllerTakesAcknowledgement, Goto, AfterAcknowledgement, TypeOK
        <5>2. Len(pending) = 1
          <6>1. Len(<<>>) = 0
            OBVIOUS
          <6>2. Len(Tail(pending)) = 0
            BY <5>1, <6>1, Zenon
          <6> QED
            BY <1>a, <4>1, <6>2
        <5>3. pending[1].needsDigest
          BY <1>a, <4>2, <5>2 DEF IInv, Draining
        <5>4. ~pending[1].needsDigest
          BY <2>2, <4>1 DEF ControllerTakesAcknowledgement
        <5> QED
          BY <5>3, <5>4
      <4> QED
        BY <4>1, <4>2
    <3>2. Compared' = Compared
      BY <1>d, <2>2, <3>1, <1>c
    <3> QED
      BY <1>7, <1>a, <3>1, <3>2 DEF Counted
  <2>3. CASE ControllerStarts
    BY <1>7, <1>a, <2>3 DEF ControllerStarts, IInv, Barrier, BeforeStart, progress
  <2>4. CASE ControllerSteps
    BY <1>7, <1>a, <2>4 DEF ControllerSteps, Goto, TypeOK
  <2>5. CASE pc[C] = "lockstep" /\ ~ControllerVerifies /\ ~ControllerSendsInput
    <3>1. frame' = frame /\ Compared' = Compared
      BY <1>a, <1>d, <2>5, FrameGrows
    <3> QED
      BY <1>7, <1>a, <2>5, <3>1 DEF Counted
  <2>6. ~ControllerSendsInput /\ ~ControllerCompletes
    BY <1>7, <1>a DEF ControllerSendsInput, ControllerCompletes, Goto, TypeOK
  <2> QED
    BY <1>7, <1>a, <2>1, <2>2, <2>3, <2>4, <2>5, <2>6, ControllerMoves DEF BeforeStart
<1>e. PICK c \in Nat, d \in Nat, e \in Nat :
        /\ c = checkpoints[C] /\ d = checkpoints[D] /\ e = checkpoints'[D] /\ d <= e
        /\ ~DisplaySteps => e = d /\ framesCompleted' = framesCompleted
  <2>1. \/ checkpoints' = checkpoints
        \/ ControllerVerifies /\ checkpoints' = [checkpoints EXCEPT ![C] = @ + 1]
        \/ DisplaySteps /\ checkpoints' = [checkpoints EXCEPT ![D] = @ + 1]
    BY CountsChange
    DEF Counts, ControllerSendsInput, ControllerSteps, ControllerTakesAcknowledgement,
        ControllerVerifies, DisplaySteps
  <2>2. ~DisplaySteps => framesCompleted' = framesCompleted
    BY CountsChange
    DEF Counts, ControllerSendsInput, ControllerSteps, ControllerTakesAcknowledgement,
        ControllerVerifies
  <2> QED
    BY <1>a, <2>1, <2>2
<1>f. /\ Success => c <= d
      /\ Success /\ NeedsDigest(D, framesCompleted) /\ Compared < framesCompleted =>
           c + 1 <= d
  BY <1>a, <1>e DEF Counted
<1>8. ASSUME Success' PROVE checkpoints'[C] <= checkpoints'[D]
  <2>1. CASE ControllerVerifies
    <3>1. detail' = "matched"
      BY <1>8, <2>1, CheckpointTaken DEF Success
    <3>2. /\ NeedsDigest(D, framesCompleted) /\ pc[C] = "drain"
          /\ Acknowledged = framesCompleted - 1
      BY <1>c, <2>1, <3>1, CheckpointTaken
    <3>3. Success /\ Compared < framesCompleted
      <4>1. Compared <= Acknowledged /\ Compared \in Nat /\ Success
        BY <1>a, <3>2, ComparedType DEF Counted
      <4> QED
        BY <1>a, <3>2, <4>1
    <3>4. c + 1 <= e
      BY <1>e, <1>f, <3>2, <3>3
    <3>5. checkpoints'[C] = c + 1
      BY <1>a, <1>c, <1>e, <2>1
    <3> QED
      BY <1>e, <3>4, <3>5, Zenon
  <2>2. CASE ~ControllerVerifies
    <3>1. Success /\ checkpoints'[C] = c
      BY <1>8, <1>b, <1>e, <2>2 DEF Success
    <3>2. c <= e
      BY <1>e, <1>f, <3>1
    <3> QED
      BY <1>e, <3>1, <3>2, Zenon
  <2> QED
    BY <2>1, <2>2
<1>9. ASSUME Success', NeedsDigest(D, framesCompleted'), Compared' < framesCompleted'
      PROVE  checkpoints'[C] + 1 <= checkpoints'[D]
  <2>1. ~ControllerVerifies
    BY <1>9, <1>a, <1>c
  <2>2. Success /\ checkpoints'[C] = c /\ Compared' = Compared
    BY <1>9, <1>b, <1>d, <1>e, <2>1 DEF Success
  <2>3. c + 1 <= e
    <3>1. CASE DisplaySteps
      <4>1. checkpoints' = [checkpoints EXCEPT ![D] = @ + 1]
        BY <1>9, <3>1 DEF DisplaySteps
      <4>2. e = d + 1
        BY <1>a, <1>e, <4>1
      <4> QED
        BY <1>e, <1>f, <2>2, <4>2
    <3>2. CASE ~DisplaySteps
      BY <1>9, <1>e, <1>f, <2>2, <3>2
    <3> QED
      BY <3>1, <3>2
  <2> QED
    BY <1>e, <2>2, <2>3, Zenon
<1>10. ASSUME NEW n PROVE NeedsDigest(C, n)' = NeedsDigest(C, n)
                          /\ NeedsDigest(D, n)' = NeedsDigest(D, n)
  BY DEF NeedsDigest
<1> QED
  BY <1>1, <1>2, <1>3, <1>4, <1>5, <1>6, <1>7, <1>8, <1>9, <1>10 DEF Counted, NeedsDigest

(***************************************************************************)
(* The invariant holds.                                                    *)
(***************************************************************************)
LEMMA SessionInit == Init => JInv
<1> SUFFICES ASSUME Init PROVE JInv
  OBVIOUS
<1>a. /\ "controller" \in Phone /\ "display" \in Phone
      /\ \A p \in Phone : /\ pc[p] = "activate" /\ wire[p] = <<>> /\ outcome[p] = "none"
                          /\ paused[p] = TRUE /\ checkpoints[p] = 0 /\ lastDigest[p] = <<>>
      /\ frame = 0 /\ framesCompleted = 0 /\ pending = <<>> /\ messages = <<>>
      /\ detail = "none" /\ reading = FALSE
  BY DEF Init, Phone
<1>1. IInv
  BY InvInit
<1>b. /\ pc["controller"] = "activate" /\ pc["display"] = "activate"
      /\ wire["controller"] = <<>> /\ wire["display"] = <<>>
  BY <1>a
<1>2. Places
  BY <1>b DEF Places, BeforeReady
<1>3. Arriving
  BY <1>b DEF Arriving, AllForth, DisplayTook, ControllerSent
<1>4. Returning
  BY <1>a, <1>b DEF Returning, AllBack, ControllerTook, DisplaySent
<1>5. Verified
  BY <1>a DEF Verified, Begun, Has, BeforeReady
<1>6. Ended
  BY <1>a DEF Ended
<1>7. Counted
  <2>1. Limit["controller"] # NoLimit => 0 <= Limit["controller"]
    BY <1>a, LimitAssumption DEF NoLimit
  <2> QED
    BY <1>a, <2>1 DEF Counted, BeforeStart, Success, Acknowledged, Announced, Compared
<1> QED
  BY <1>1, <1>2, <1>3, <1>4, <1>5, <1>6, <1>7 DEF JInv

LEMMA SessionStep == JInv /\ [Next]_vars => JInv'
<1> SUFFICES ASSUME JInv, [Next]_vars PROVE JInv'
  OBVIOUS
<1>1. IInv' /\ TypeOK /\ TypeOK' /\ Places
  BY InvStep DEF JInv, IInv
<1>2. StepEffects
  BY <1>1, NextEffects
<1> QED
  BY <1>1, <1>2, PlacesKept, QueuesKept, VerifiedKept, EndedKept, CountedKept DEF JInv

\* What two phones in a session have sent and received, counted and agreed on is
\* always consistent (TwoPhoneSession.swift).
THEOREM SessionInvariance == Spec => []JInv
  BY SessionInit, SessionStep, PTL DEF Spec

LEMMA JInvImplies == JInv => InSequence /\ StartsVerified
<1> SUFFICES ASSUME JInv PROVE InSequence /\ StartsVerified
  OBVIOUS
<1>1. InSequence
  <2>1. frame > 0 => Agreed
    BY DEF JInv, Verified, Begun
  <2> QED
    BY <2>1 DEF JInv, IInv, TypeOK, Ended, Agreed, InSequence, Phone
<1>2. StartsVerified
  <2>1. frame > 0 \/ (\E p \in Phone : ~paused[p]) => Agreed
    BY DEF JInv, Verified, Begun
  <2> QED
    BY <2>1 DEF Agreed, StartsVerified
<1> QED
  BY <1>1, <1>2

\* Once the first input is sent neither phone throws on a message: what the other
\* one sends comes in the order, and with the frame numbers, it expects
\* (runController, runDisplay and the inbox of TwoPhoneSession.swift).
THEOREM MessagesInSequence == Spec => []InSequence
  BY SessionInvariance, JInvImplies, PTL

\* No emulator is resumed and no frame begins before both phones hold the same game
\* in the same state (performControllerHandshake, performDisplayHandshake).
THEOREM StartsAreVerified == Spec => []StartsVerified
  BY SessionInvariance, JInvImplies, PTL

(***************************************************************************)
(* The session implements the lockstep of two emulators.                   *)
(***************************************************************************)
LEMMA CoreChange ==
  ASSUME TypeOK, [Next]_vars
  PROVE  /\ core'["display"] = core["display"] \/ DisplaySteps \/ DisplayLoadsSnapshot
         /\ core'["controller"] = core["controller"] \/ ControllerSteps
<1>a. "controller" \in Phone /\ "display" \in Phone /\ "controller" # "display"
  BY DEF Phone
<1>1. ASSUME NEW p \in Phone,
             \/ Activate(p) \/ Reject(p) \/ TransportError(p) \/ SnapshotFails(p)
             \/ MainThread(p)
      PROVE  core' = core
  BY <1>1 DEF Activate, Reject, TransportError, SnapshotFails, MainThread, AppLeaves,
              CancelSession, machine
<1>2. ASSUME Reader \/ LinkFails \/ Over \/ UNCHANGED vars PROVE core' = core
  BY <1>2 DEF Reader, ReaderReceives, ReaderEnds, LinkFails, Over, vars, machine
<1>3. ASSUME ControllerThread, ~ControllerSteps PROVE core' = core
  BY <1>3 DEF ControllerThread, ControllerHandshake, Receives, Sends, ControllerStarts,
              ControllerSendsInput, ControllerTakesAcknowledgement, ControllerVerifies,
              ControllerCompletes, ControllerSendsFinish, ControllerReturns, machine
<1>4. ASSUME DisplayThread, ~DisplaySteps, ~DisplayLoadsSnapshot PROVE core' = core
  BY <1>4 DEF DisplayThread, DisplayHandshake, Receives, Sends, DisplayReportsFailure,
              DisplayStarts, DisplayReceivesInput, DisplayAcknowledges,
              DisplayReceivesFinish, DisplayReturns, machine
<1>5. ControllerSteps => core'["display"] = core["display"]
  BY <1>a, RunFrameEffect DEF ControllerSteps
<1>6. DisplaySteps => core'["controller"] = core["controller"]
  BY <1>a, RunFrameEffect DEF DisplaySteps
<1>7. DisplayLoadsSnapshot => core'["controller"] = core["controller"]
  BY <1>a DEF DisplayLoadsSnapshot, TypeOK
<1> QED
  BY <1>1, <1>2, <1>3, <1>4, <1>5, <1>6, <1>7 DEF Next, EmulationThread

LEMMA AbstractInit == Init => Abstract!Init
<1> SUFFICES ASSUME Init PROVE Abstract!Init
  OBVIOUS
<1>1. TypeOK
  BY TypeInit
<1>2. lastDigest["controller"] = <<>> /\ pc["controller"] = "activate"
  BY DEF Init, Phone
<1> QED
  BY <1>1, <1>2 DEF Abstract!Init, Abstract!Phone, Phone, Init, TypeOK, Success

\* Every step is one of the lockstep, or none.
LEMMA AbstractStep ==
  ASSUME JInv, JInv', [Next]_vars
  PROVE  [Abstract!Next]_(Abstract!vars)
<1> DEFINE C == "controller"
           D == "display"
           Ran == IF pc[C] = "step" THEN frame - 1 ELSE frame
<1>a. /\ TypeOK /\ Places /\ IInv /\ C \in Phone /\ D \in Phone /\ Phone = {C, D}
      /\ frame \in Nat /\ framesCompleted \in Nat /\ Compared \in Nat
      /\ core \in [Phone -> State] /\ core' \in [Phone -> State]
      /\ pending \in Seq(Pending) /\ Len(pending) \in Nat /\ StepEffects
  BY ComparedType, NextEffects DEF JInv, IInv, TypeOK, Phone
<1>1. CASE ControllerSendsInput
  <2>1. /\ pc[C] = "lockstep" /\ pc'[C] = "step" /\ frame' = frame + 1
        /\ ~WindowFull
        /\ UNCHANGED <<framesCompleted, detail, lastDigest, core>>
    BY <1>1, <1>a DEF ControllerSendsInput, Goto, TypeOK, machine
  <2>2. frame - framesCompleted < Window
    <3>1. Len(pending) < Window
      BY <2>1, <1>a, WindowAssumption DEF WindowFull
    <3>2. Acknowledged <= framesCompleted /\ Acknowledged = frame - Len(pending)
      BY <1>a, <2>1 DEF IInv, Lead, Numbered, Acknowledged, Announced
    <3> QED
      BY <1>a, <3>1, <3>2, WindowAssumption
  <2>3. Success /\ Agreed
    BY <2>1 DEF JInv, Counted, Verified, Begun
  <2>4. frame > 0 /\ NeedsDigest(C, frame) => Compared = frame /\ core[C] = core[D]
    BY <1>a, <2>1 DEF JInv, Counted, IInv, Barrier
  <2>5. Success' = Success /\ Compared' = Compared
    BY <2>1 DEF Success, Compared
  <2>6. Abstract!Lead
    BY <1>a, <2>1, <2>2, <2>3, <2>4, <2>5
    DEF Abstract!Lead, Abstract!Synchronised, Compared, Agreed
  <2> QED
    BY <2>6 DEF Abstract!Next
<1>2. CASE ControllerSteps
  <2>1. /\ pc[C] = "step" /\ pc'[C] # "step"
        /\ UNCHANGED <<frame, framesCompleted, detail, lastDigest>>
    BY <1>2, <1>a DEF ControllerSteps, Goto, TypeOK
  <2>2. core'[D] = core[D]
    BY <1>2, <1>a, RunFrameEffect DEF ControllerSteps
  <2>3. Abstract!RunController
    BY <1>a, <2>1, <2>2
    DEF Abstract!RunController, Abstract!Runs, Abstract!Phone, Success
  <2> QED
    BY <2>3 DEF Abstract!Next
<1>3. CASE ControllerTakesAcknowledgement
  <2>1. /\ pc[C] \in {"lockstep", "drain"} /\ pc'[C] \in {"lockstep", "drain"}
        /\ UNCHANGED <<frame, framesCompleted, detail, lastDigest, core>>
    BY <1>3, <1>a DEF ControllerTakesAcknowledgement, Goto, AfterAcknowledgement, TypeOK,
                      machine
  <2> QED
    BY <2>1 DEF Abstract!vars, Success
<1>4. CASE ControllerVerifies
  <2>1. /\ pc[C] = "drain" /\ pc'[C] # "step" /\ framesCompleted = frame
        /\ Acknowledged = frame - 1 /\ 1 <= frame
        /\ UNCHANGED <<frame, framesCompleted, core>>
        /\ pc'[C] = IF detail' = "matched" THEN "lockstep" ELSE "sendFinish"
        /\ detail' # "none"
    BY <1>4, CheckpointTaken DEF ControllerVerifies, machine
  <2>2. NeedsDigest(C, frame)
    <3>1. pending[1].needsDigest /\ pending[1].frame = frame /\ 1 \in 1 .. Len(pending)
      BY <1>4, CheckpointTaken, TakesInbox
    <3>2. pending[1].needsDigest = NeedsDigest(C, pending[1].frame)
      BY <3>1, Zenon DEF JInv, Counted
    <3> QED
      BY <3>1, <3>2, Zenon
  <2>3. Compared < frame
    <3>1. Compared <= Acknowledged
      BY <2>1 DEF JInv, Counted
    <3> QED
      BY <1>a, <2>1, <3>1
  <2>4. Compared' = frame
    <3>1. lastDigest'[C] = <<[frame |-> frame, state |-> core[C]]>>
      BY <1>4, CheckpointTaken
    <3> QED
      BY <3>1 DEF Compared
  <2>5. Success' \in {FALSE, core[C] = core[D]}
    <3>1. CASE detail' = "matched"
      <4>1. NeedsDigest(C, frame)'
        BY <2>1, <2>2 DEF NeedsDigest
      <4>2. core'[C] = core'[D]
        BY <1>a, <2>1, <3>1, <4>1 DEF JInv, IInv, Barrier
      <4>3. Success' = TRUE /\ (core[C] = core[D]) = TRUE
        BY <2>1, <3>1, <4>2 DEF Success
      <4> QED
        BY <4>3, Zenon
    <3>2. CASE detail' # "matched"
      <4>1. Success' = FALSE
        BY <2>1, <3>2, CheckpointTaken, <1>4 DEF Success
      <4> QED
        BY <4>1, Zenon
    <3> QED
      BY <3>1, <3>2, Zenon
  <2>6. Abstract!Compare
    BY <1>a, <2>1, <2>2, <2>3, <2>4, <2>5
    DEF Abstract!Compare, Abstract!Synchronised, Compared
  <2> QED
    BY <2>6 DEF Abstract!Next
<1>5. CASE DisplaySteps
  <2>1. /\ pc[D] = "step" /\ pc'[C] = pc[C] /\ framesCompleted' = framesCompleted + 1
        /\ UNCHANGED <<frame, detail>>
    BY <1>5, <1>a DEF DisplaySteps, Goto, TypeOK, Phone
  <2>2. core'[C] = core[C]
    BY <1>5, <1>a, RunFrameEffect DEF DisplaySteps
  <2>3. lastDigest'[C] = lastDigest[C]
    <3>1. \/ lastDigest' = lastDigest
          \/ \E d : lastDigest' = [lastDigest EXCEPT ![D] = d]
      BY <1>5 DEF DisplaySteps
    <3> QED
      BY <1>a, <3>1 DEF TypeOK
  <2>4. framesCompleted < frame
    BY <1>a, <2>1 DEF IInv, Lead
  <2>5. Abstract!RunDisplay
    BY <1>a, <2>1, <2>2, <2>3, <2>4
    DEF Abstract!RunDisplay, Abstract!Runs, Abstract!Phone, Success
  <2> QED
    BY <2>5 DEF Abstract!Next
<1>6. CASE UNCHANGED Counts /\ ~ControllerSteps /\ ~DisplaySteps
  <2>0. core'[C] = core[C] /\ Success' = Success /\ Compared' = Compared
        /\ UNCHANGED <<frame, framesCompleted, lastDigest>>
    BY <1>6, <1>a, CoreChange DEF Counts, Success, Compared
  <2>1. CASE DisplayLoadsSnapshot
    <3>1. pc[D] = "recvSnapshot" /\ pc'[C] = pc[C]
      BY <1>a, <2>1 DEF DisplayLoadsSnapshot, Goto, TypeOK, Phone
    <3>2. frame = 0
      BY <1>a, <3>1 DEF JInv, Verified, Begun, Agreed, BeforeReady
    <3>3. Abstract!Load
      BY <1>a, <2>0, <3>1, <3>2 DEF Abstract!Load, Abstract!Phone, Compared
    <3> QED
      BY <3>3 DEF Abstract!Next
  <2>2. CASE ~DisplayLoadsSnapshot
    <3>1. core' = core
      <4>1. \A p \in Phone : core'[p] = core[p]
        BY <1>6, <1>a, <2>0, <2>2, CoreChange
      <4> QED
        BY <1>a, <4>1
    <3>2. CASE pc[C] = "step" /\ pc'[C] # "step"
      <4>1. Abstract!RunController
        BY <1>a, <2>0, <3>1, <3>2
        DEF Abstract!RunController, Abstract!Runs, Abstract!Phone, Compared
      <4> QED
        BY <4>1 DEF Abstract!Next
    <3>3. CASE pc[C] = "step" <=> pc'[C] = "step"
      BY <2>0, <3>1, <3>3 DEF Abstract!vars, Compared
    <3>4. pc'[C] = "step" => pc[C] = "step"
      <4> SUFFICES ASSUME pc'[C] = "step", pc[C] # "step" PROVE FALSE
        OBVIOUS
      <4>1. /\ ~ ControllerStarts /\ ~ ControllerCompletes
        BY <1>a DEF ControllerStarts, ControllerCompletes, Goto, TypeOK
      <4>2. /\ ~ ControllerTakesAcknowledgement /\ ~ ControllerVerifies
        BY TakesInbox
      <4>3. ~ ControllerSendsInput
        BY <1>a, <2>0 DEF ControllerSendsInput
      <4> QED
        BY <1>6, <1>a, <4>1, <4>2, <4>3, ControllerMoves DEF BeforeStart
    <3> QED
      BY <3>2, <3>3, <3>4
  <2> QED
    BY <2>1, <2>2
<1> QED
  BY <1>1, <1>2, <1>3, <1>4, <1>5, <1>6, CountsChange

\* A session is the lockstep of Lockstep.tla: the emulators are led, run and compared
\* as it says, whatever the messages and threads in between do.
THEOREM ImplementsLockstep == Spec => Implements
<1>1. JInv /\ JInv' /\ [Next]_vars => [Abstract!Next]_(Abstract!vars)
  BY AbstractStep
<1> QED
  BY <1>1, AbstractInit, SessionInvariance, PTL DEF Spec, Implements, Abstract!Spec

(***************************************************************************)
(* What a passed proof rests on.                                           *)
(***************************************************************************)
\* The outcomes of a passed proof report digests of the last frame on both phones,
\* each of that phone's final state; so the display was configured to make one.
FinalDigest ==
  frame > 0 /\ (\E p \in Phone : outcome[p] = "passed") =>
    /\ NeedsDigest("display", frame)
    /\ \A q \in Phone : lastDigest[q] = <<[frame |-> frame, state |-> core[q]]>>

\* The digests that the phones keep.
Kept ==
  /\ framesCompleted > 0 /\ NeedsDigest("display", framesCompleted) =>
       lastDigest["display"] =
         <<[frame |-> framesCompleted, state |-> core["display"]]>>
  /\ Success /\ lastDigest["controller"] # <<>> => NeedsDigest("display", Compared)
  /\ pc["controller"] # "step" /\ lastDigest["controller"] # <<>> /\ Compared = frame =>
       lastDigest["controller"] = <<[frame |-> frame, state |-> core["controller"]]>>

\* The last frame was compared, where one was run.
LastCompared == frame > 0 => Compared = frame

\* The controller ends a good session by comparing its last frame, and this is what
\* the display's end, and both outcomes, come from.
Concluded ==
  /\ Success /\ pc["controller"] \in {"sendFinish", "recvFinishAck"} => LastCompared
  /\ Success /\ pc["display"] # "over" /\ Has(wire["display"], "finish") => LastCompared
  /\ pc["display"] = "sendPassed" => LastCompared
  /\ (\E p \in Phone : outcome[p] = "passed") => Success /\ LastCompared

DInv == Kept /\ Concluded

LEMMA KeptInit == Init => DInv
<1> SUFFICES ASSUME Init PROVE DInv
  OBVIOUS
<1>1. /\ \A p \in Phone : /\ pc[p] = "activate" /\ wire[p] = <<>>
                          /\ outcome[p] = "none" /\ lastDigest[p] = <<>>
      /\ frame = 0 /\ framesCompleted = 0
      /\ "controller" \in Phone /\ "display" \in Phone
  BY DEF Init, Phone
<1> QED
  BY <1>1 DEF DInv, Kept, Concluded, LastCompared, Has

\* The digests that phones hold change with their frames and comparisons only.
LEMMA DigestChange ==
  ASSUME TypeOK, [Next]_vars
  PROVE  /\ DisplaySteps \/ (framesCompleted' = framesCompleted
                             /\ lastDigest'["display"] = lastDigest["display"])
         /\ ControllerVerifies \/ (detail' = detail
                                   /\ lastDigest'["controller"] = lastDigest["controller"])
<1>a. "controller" \in Phone /\ "display" \in Phone
  BY DEF Phone
<1>1. CASE ControllerSendsInput \/ ControllerSteps \/ ControllerTakesAcknowledgement
  BY <1>1 DEF ControllerSendsInput, ControllerSteps, ControllerTakesAcknowledgement
<1>2. CASE ControllerVerifies
  <2>1. /\ framesCompleted' = framesCompleted
        /\ \E d : lastDigest' = [lastDigest EXCEPT !["controller"] = d]
    BY <1>2 DEF ControllerVerifies
  <2> QED
    BY <1>a, <1>2, <2>1 DEF TypeOK
<1>3. CASE DisplaySteps
  <2>1. /\ detail' = detail
        /\ \/ lastDigest' = lastDigest
           \/ \E d : lastDigest' = [lastDigest EXCEPT !["display"] = d]
    BY <1>3 DEF DisplaySteps
  <2> QED
    BY <1>a, <1>3, <2>1 DEF TypeOK
<1>4. CASE UNCHANGED Counts
  BY <1>4 DEF Counts
<1> QED
  BY <1>1, <1>2, <1>3, <1>4, CountsChange

LEMMA KeptStep ==
  ASSUME JInv, JInv', Kept, [Next]_vars
  PROVE  Kept'
<1> DEFINE C == "controller"
           D == "display"
<1>a. /\ TypeOK /\ TypeOK' /\ C \in Phone /\ D \in Phone
      /\ frame \in Nat /\ framesCompleted \in Nat /\ frame' \in Nat
  BY DEF JInv, IInv, TypeOK, Phone
<1>b. StepEffects
  BY <1>a, NextEffects
<1>1. ASSUME framesCompleted' > 0, NeedsDigest(D, framesCompleted')
      PROVE  lastDigest'[D] = <<[frame |-> framesCompleted', state |-> core'[D]]>>
  <2>1. CASE DisplaySteps
    <3>1. /\ framesCompleted' = framesCompleted + 1
          /\ lastDigest' = [lastDigest EXCEPT ![D] =
               DigestOf(D, framesCompleted + 1, core'[D])]
      BY <1>1, <2>1 DEF DisplaySteps
    <3>2. lastDigest'[D] = DigestOf(D, framesCompleted', core'[D])
      BY <1>a, <3>1 DEF TypeOK
    <3> QED
      BY <1>1, <3>2 DEF DigestOf
  <2>2. CASE ~DisplaySteps
    <3>1. framesCompleted' = framesCompleted /\ lastDigest'[D] = lastDigest[D]
      BY <1>a, <2>2, DigestChange
    <3>2. pc[D] # "recvSnapshot"
      BY <1>1, <3>1 DEF JInv, IInv, Barrier, BeforeStart
    <3>3. ~ DisplayLoadsSnapshot
      BY <3>2 DEF DisplayLoadsSnapshot
    <3>4. core'[D] = core[D]
      BY <1>a, <2>2, <3>3, CoreChange
    <3> QED
      BY <1>1, <3>1, <3>4 DEF Kept
  <2> QED
    BY <2>1, <2>2
<1>2. CASE ControllerVerifies
  <2>1. /\ lastDigest'[C] = <<[frame |-> frame, state |-> core[C]]>>
        /\ detail' \in {"matched", "missing", "mismatch"}
        /\ detail' = "matched" => NeedsDigest(D, frame)
    BY <1>2, CheckpointTaken
  <2>2. Compared' = frame
    BY <2>1 DEF Compared
  <2>3. frame' = frame /\ core' = core
    BY <1>2 DEF ControllerVerifies, machine
  <2>4. Success' => NeedsDigest(D, Compared')
    BY <2>1, <2>2 DEF Success
  <2> QED
    BY <1>1, <2>1, <2>3, <2>4 DEF Kept
<1>3. CASE ~ControllerVerifies
  <2>1. /\ lastDigest'[C] = lastDigest[C] /\ Compared' = Compared
        /\ Success' = Success
    BY <1>a, <1>3, DigestChange DEF Compared, Success
  <2>2. ASSUME pc'[C] # "step", Compared' = frame', lastDigest[C] # <<>>
        PROVE  lastDigest[C] = <<[frame |-> frame', state |-> core'[C]]>>
    <3>1. Compared \in Nat /\ Len(pending) \in Nat
      <4>1. pending \in Seq(Pending)
        BY <1>a DEF TypeOK
      <4> QED
        BY <1>a, <4>1, ComparedType, LenProperties
    <3>2. pc[C] # "over" => Compared <= frame - Announced - Len(pending)
      BY DEF JInv, Counted, Acknowledged
    <3>3. ~ ControllerSendsInput
      BY <1>a, <2>2 DEF ControllerSendsInput, Goto, TypeOK
    <3>4. frame' = frame
      BY <1>a, <3>3, FrameGrows
    <3>5. pc[C] # "step"
      BY <1>a, <2>1, <2>2, <3>1, <3>2, <3>4 DEF Announced
    <3>6. core'[C] = core[C]
      BY <1>b, <3>5 DEF StepEffects
    <3> QED
      BY <2>1, <2>2, <3>4, <3>5, <3>6 DEF Kept
  <2> QED
    BY <1>1, <2>1, <2>2 DEF Kept
<1> QED
  BY <1>2, <1>3

\* Only the controller's own send puts an end of the session on its way.
LEMMA FinishSent ==
  ASSUME JInv, [Next]_vars, Has(wire'["display"], "finish")
  PROVE  Has(wire["display"], "finish") \/ ControllerSendsFinish
<1> DEFINE C == "controller"
           D == "display"
           Before == Has(wire[D], "finish")
<1>a. TypeOK /\ C \in Phone /\ D \in Phone /\ frame \in Nat
      /\ Peer(D) # D /\ Peer(C) = D
  BY DEF JInv, IInv, TypeOK, Phone, Peer
<1>1. ASSUME wire' = wire PROVE Before
  BY <1>1
<1>2. ASSUME NEW p \in Phone, TakeFromWire(p), wire[p] # <<>> PROVE Before
  BY <1>a, <1>2, WireGains
<1>3. ASSUME NEW p \in Phone, NEW m \in Message, Send(p, m),
             p = D \/ m.type # "finish"
      PROVE  Before
  BY <1>a, <1>3, WireGains
<1>4. ASSUME LinkFails PROVE Before
  BY <1>a, <1>4, WireGains
<1>5. ASSUME NEW p \in Phone,
             \/ Activate(p) \/ Reject(p) \/ TransportError(p) \/ SnapshotFails(p)
             \/ MainThread(p)
      PROVE  wire' = wire
  BY <1>5 DEF Activate, Reject, TransportError, SnapshotFails, MainThread, AppLeaves,
              CancelSession
<1>6. ASSUME ReaderReceives PROVE TakeFromWire(C) /\ wire[C] # <<>>
  BY <1>6 DEF ReaderReceives
<1>7. ASSUME \/ ReaderEnds \/ Over \/ UNCHANGED vars \/ ControllerSteps
             \/ ControllerTakesAcknowledgement \/ ControllerVerifies
             \/ ControllerCompletes \/ ControllerReturns \/ DisplaySteps
      PROVE  wire' = wire
  BY <1>7 DEF ReaderEnds, Over, vars, ControllerSteps, ControllerTakesAcknowledgement,
     ControllerVerifies, ControllerCompletes, ControllerReturns, DisplaySteps
<1>m. /\ \A t \in {"ready", "start", "failure", "finishAcknowledgement"} :
           Signal(t) \in Message /\ Signal(t).type = t
      /\ \A p \in Phone : Hello(p) \in Message /\ Hello(p).type = "hello"
      /\ Snapshot(core[C]) \in Message /\ Snapshot(core[C]).type = "snapshot"
      /\ \A i \in Inputs : /\ Input(frame + 1, i) \in Message
                           /\ Input(frame + 1, i).type = "input"
  <2>1. core[C] \in State /\ frame + 1 \in Nat
    BY <1>a DEF TypeOK
  <2> QED
    BY <1>a, <2>1, MessageTypes DEF Signal, Hello, Snapshot, Input
<1>8. ASSUME ControllerHandshake \/ ControllerStarts \/ ControllerSendsInput
      PROVE  \/ TakeFromWire(C) /\ wire[C] # <<>>
             \/ \E m \in Message : Send(C, m) /\ m.type # "finish"
  <2>1. CASE \E l, n : Receives(C, l, n) /\ l \in BeforeStart
    BY <1>a, <2>1, AcceptedHead DEF Receives, UsesInbox, BeforeStart
  <2>2. CASE ControllerSendsInput
    BY <1>m, <2>2 DEF ControllerSendsInput
  <2>3. CASE ControllerStarts
    BY <1>m, <2>3 DEF ControllerStarts
  <2> QED
    BY <1>a, <1>m, <1>8, <2>1, <2>2, <2>3 DEF ControllerHandshake, Sends, BeforeStart
<1>9. ASSUME \/ DisplayHandshake \/ DisplayLoadsSnapshot \/ DisplayReportsFailure
             \/ DisplayStarts \/ DisplayReceivesInput \/ DisplayAcknowledges
             \/ DisplayReceivesFinish \/ DisplayReturns
      PROVE  \/ TakeFromWire(D) /\ wire[D] # <<>>
             \/ \E m \in Message : Send(D, m)
  <2>1. CASE Receives(D, "recvHello", "recvSnapshot")
    BY <1>a, <2>1, AcceptedHead DEF Receives, UsesInbox
  <2>2. CASE DisplayLoadsSnapshot \/ DisplayStarts \/ DisplayReceivesInput
             \/ DisplayReceivesFinish
    BY <1>a, <2>2, AcceptedHead
    DEF DisplayLoadsSnapshot, DisplayStarts, DisplayReceivesInput,
        DisplayReceivesFinish, UsesInbox
  <2>3. CASE DisplayAcknowledges
    <3>1. \A d \in Digest : Acknowledge(framesCompleted, d) \in Message
      BY <1>a, MessageTypes DEF TypeOK
    <3>2. lastDigest[D] \in Digest
      BY <1>a DEF TypeOK
    <3>3. <<>> \in Digest
      BY DEF Digest
    <3> QED
      BY <2>3, <3>1, <3>2, <3>3 DEF DisplayAcknowledges, Sends
  <2>4. CASE DisplayReportsFailure \/ DisplayReturns
    BY <1>m, <2>4 DEF DisplayReportsFailure, DisplayReturns
  <2>5. CASE DisplayHandshake
    BY <1>a, <1>m, <2>1, <2>5 DEF DisplayHandshake, Sends
  <2> QED
    BY <1>9, <2>2, <2>3, <2>4, <2>5
<1> HIDE DEF Before, C, D
<1>10. CASE ControllerThread
  BY <1>a, <1>1, <1>2, <1>3, <1>7, <1>8, <1>10 DEF ControllerThread, Before, D
<1>11. CASE DisplayThread
  BY <1>a, <1>1, <1>2, <1>3, <1>7, <1>9, <1>11 DEF DisplayThread, Before, D
<1>12. CASE ~ControllerThread /\ ~DisplayThread
  BY <1>a, <1>1, <1>2, <1>4, <1>5, <1>6, <1>7, <1>12
  DEF Next, EmulationThread, Reader, Before, D
<1> QED
  BY <1>10, <1>11, <1>12

LEMMA ConcludedStep ==
  ASSUME JInv, JInv', Concluded, [Next]_vars
  PROVE  Concluded'
<1> DEFINE C == "controller"
           D == "display"
           Ending == {"sendFinish", "recvFinishAck"}
<1>a. /\ TypeOK /\ Places /\ C \in Phone /\ D \in Phone /\ Phone = {C, D}
  BY DEF JInv, IInv, Phone
<1>b. StepEffects
  BY <1>a, NextEffects
<1>c. pc[C] \in Ending \cup {"over"} =>
        /\ Success' = Success /\ LastCompared' = LastCompared
  BY <1>b DEF StepEffects, Success, LastCompared, Compared
<1>d. Success /\ pc[D] # "over" /\ Has(wire[D], "finish") =>
        pc[C] \in {"recvFinishAck", "over"}
  BY DEF JInv, Arriving, AllForth, Has, Forth
<1>1. ASSUME Success', pc'[C] \in Ending PROVE LastCompared'
  <2>1. CASE pc[C] \in Ending
    BY <1>c, <1>1, <2>1 DEF Concluded
  <2>2. CASE ControllerCompletes
    <3>1. UNCHANGED progress /\ pc[C] = "lockstep" /\ frame = Limit[C]
      BY <2>2, CompletesSettled DEF ControllerCompletes
    <3>2. frame > 0 => Compared = frame
      BY <3>1 DEF NeedsDigest, JInv, Counted
    <3> QED
      BY <3>1, <3>2 DEF progress, LastCompared, Compared
  <2>3. ~ ControllerVerifies
    <3> SUFFICES ASSUME ControllerVerifies PROVE FALSE
      OBVIOUS
    <3> QED
      BY <1>1, CheckpointTaken DEF Success
  <2>4. ~ ControllerTakesAcknowledgement
    BY <1>a, <1>1 DEF ControllerTakesAcknowledgement, Goto, TypeOK, AfterAcknowledgement
  <2>5. ~ ControllerStarts /\ ~ ControllerSendsInput /\ ~ ControllerSteps
    BY <1>a, <1>1 DEF ControllerStarts, ControllerSendsInput, ControllerSteps, Goto, TypeOK
  <2> QED
    BY <1>a, <1>1, <2>1, <2>2, <2>3, <2>4, <2>5, ControllerMoves DEF BeforeStart
<1>2. ASSUME Success', pc'[D] # "over", Has(wire'[D], "finish") PROVE LastCompared'
  <2>1. pc[D] # "over"
    BY <1>a, <1>b, <1>2 DEF StepEffects
  <2>2. CASE Has(wire[D], "finish")
    <3>1. pc[C] \in {"recvFinishAck", "over"}
      BY <2>1, <2>2 DEF JInv, Arriving, AllForth, Has, Forth
    <3> QED
      BY <1>c, <1>2, <2>1, <2>2, <3>1 DEF Concluded
  <2>3. CASE ControllerSendsFinish
    <3>1. pc[C] = "sendFinish"
      BY <2>3 DEF ControllerSendsFinish, Sends
    <3> QED
      BY <1>c, <1>2, <3>1 DEF Concluded
  <2> QED
    BY <1>2, <2>2, <2>3, FinishSent
<1>3. ASSUME pc'[D] = "sendPassed" PROVE LastCompared'
  <2>1. CASE pc[D] = "sendPassed"
    <3>1. pc[C] \in {"recvFinishAck", "over"}
      BY <2>1 DEF JInv, Ended
    <3> QED
      BY <1>c, <2>1, <3>1 DEF Concluded
  <2>2. CASE DisplayReceivesFinish
    <3>1. pc[C] \in {"recvFinishAck", "over"} /\ Success
      BY <1>3, <2>2, FinishTaken
    <3>2. pc[D] = "recvFrame" /\ Accepted(D) /\ Head(wire[D]).type = "finish"
      BY <2>2 DEF DisplayReceivesFinish
    <3>3. wire[D] # <<>> /\ wire[D] \in Seq(Message)
      <4>1. ~UsesInbox(D) /\ wire[D] \in Seq(Message)
        BY <1>a, <3>2 DEF UsesInbox, TypeOK
      <4> QED
        BY <1>a, <3>2, <4>1, AcceptedHead
    <3>4. Has(wire[D], "finish")
      BY <3>2, <3>3, HasQueues
    <3> QED
      BY <1>c, <3>1, <3>2, <3>4 DEF Concluded
  <2>3. ~ DisplayLoadsSnapshot
    BY <1>a, <1>3 DEF DisplayLoadsSnapshot, Goto, TypeOK, AfterLoading
  <2>4. ~Receives(D, "recvHello", "recvSnapshot")
        /\ ~Sends(D, "sendReady", Signal("ready"), "recvStart")
    BY <1>a, <1>3 DEF Receives, Sends, Goto, TypeOK
  <2> QED
    BY <1>a, <1>3, <2>1, <2>2, <2>3, <2>4, DisplayMoves
<1>4. ASSUME NEW p \in Phone, outcome'[p] = "passed" PROVE Success' /\ LastCompared'
  <2>1. CASE outcome[p] = "passed"
    <3>1. pc[C] \in Ending \cup {"over"}
      BY <2>1 DEF JInv, Ended, Settled, Still
    <3> QED
      BY <1>c, <2>1, <3>1 DEF Concluded
  <2>2. CASE p = C /\ ControllerReturns
    <3>1. pc[C] = "recvFinishAck" /\ Success
      BY <1>4, <2>2, ControllerConfirmed DEF Verdict
    <3> QED
      BY <1>c, <3>1 DEF Concluded
  <2>3. CASE p = D /\ DisplayReturns
    <3>1. pc[D] = "sendPassed"
      BY <1>a, <1>4, <2>3 DEF DisplayReturns, Leave, TypeOK
    <3>2. pc[C] \in {"recvFinishAck", "over"} /\ Success
      BY <3>1 DEF JInv, Ended
    <3> QED
      BY <1>c, <3>1, <3>2 DEF Concluded
  <2>4. ~ DisplayReportsFailure \/ p # D
    BY <1>a, <1>4 DEF DisplayReportsFailure, Leave, TypeOK
  <2>5. ~ Reject(p)
    BY <1>a, <1>4 DEF Reject, Leave, TypeOK
  <2> QED
    BY <1>a, <1>4, <2>1, <2>2, <2>3, <2>4, <2>5, OutcomeChange
<1> QED
  BY <1>1, <1>2, <1>3, <1>4 DEF Concluded

LEMMA DInvImplies == JInv /\ DInv => FinalDigest
<1> SUFFICES ASSUME JInv, DInv, frame > 0, NEW p \in Phone, outcome[p] = "passed"
             PROVE  /\ NeedsDigest("display", frame)
                    /\ \A q \in Phone :
                         lastDigest[q] = <<[frame |-> frame, state |-> core[q]]>>
  BY DEF FinalDigest
<1>1. Still /\ frame = framesCompleted /\ pc["controller"] # "step"
  BY DEF JInv, Ended, Settled, Still
<1>2. Compared = frame /\ lastDigest["controller"] # <<>>
  BY DEF DInv, Concluded, LastCompared, Compared
<1>3. Success
  BY DEF DInv, Concluded
<1>4. NeedsDigest("display", frame)
  BY <1>2, <1>3 DEF DInv, Kept
<1> QED
  BY <1>1, <1>2, <1>4 DEF DInv, Kept, Phone

\* A passed proof rests on a comparison of the final states: the digest each phone
\* reports is of the last frame and of the state it was left in (finishController,
\* runDisplay).
THEOREM PassesOnFinalDigest == Spec => []FinalDigest
<1>1. JInv /\ DInv /\ [Next]_vars /\ JInv' => DInv'
  BY KeptStep, ConcludedStep DEF DInv
<1> QED
  BY <1>1, KeptInit, SessionInit, SessionStep, DInvImplies, PTL DEF Spec

(***************************************************************************)
(* The frames that were run.                                               *)
(*                                                                         *)
(* A phone that has not left the foreground is resumed before its first    *)
(* frame and never paused again, so that it has run what it counts.  Its   *)
(* last digest is then of a state with as many frames as the digest names. *)
(***************************************************************************)
ControllerRan ==
  app["controller"] = "here" =>
    /\ pc["controller"] \in {"lockstep", "step", "drain"} => ~paused["controller"]
    /\ pc["controller"] \in {"lockstep", "drain"} => Len(core["controller"]) = frame
    /\ pc["controller"] = "step" => Len(core["controller"]) = frame - 1

DisplayRan ==
  app["display"] = "here" =>
    /\ pc["display"] \in {"recvFrame", "step", "sendAck"} => ~paused["display"]
    /\ pc["display"] \in {"sendReady", "recvStart", "recvFrame", "step", "sendAck"} =>
         Len(core["display"]) = framesCompleted

DigestRan(p) ==
  app[p] = "here" /\ lastDigest[p] # <<>> =>
    Len(lastDigest[p][1].state) = lastDigest[p][1].frame

Ran ==
  /\ frame = 0 => core["controller"] = <<>>
  /\ ControllerRan /\ DisplayRan
  /\ \A p \in Phone : DigestRan(p)

\* An app that is in the foreground has not left it.
LEMMA AppChange ==
  ASSUME TypeOK, [Next]_vars, NEW p \in Phone
  PROVE  /\ app'[p] = "here" => app[p] = "here" /\ ~AppLeaves(p)
         /\ app'[p] = app[p] \/ AppLeaves(p) \/ CancelSession(p)
<1>1. app' = app \/ (\E q \in Phone : MainThread(q))
  BY DEF Next, EmulationThread, Activate, Reject, TransportError, SnapshotFails, Leave,
     ControllerThread, ControllerHandshake, Receives, Sends, ControllerStarts,
     ControllerSendsInput, ControllerSteps, ControllerTakesAcknowledgement,
     ControllerVerifies, ControllerCompletes, ControllerSendsFinish, ControllerReturns,
     DisplayThread, DisplayHandshake, DisplayLoadsSnapshot, DisplayReportsFailure,
     DisplayStarts, DisplayReceivesInput, DisplaySteps, DisplayAcknowledges,
     DisplayReceivesFinish, DisplayReturns, Reader, ReaderReceives, ReaderEnds,
     LinkFails, Over, vars, control
<1>2. app'[p] = app[p] \/ AppLeaves(p) \/ CancelSession(p)
  BY <1>1 DEF MainThread, AppLeaves, CancelSession, TypeOK
<1>3. /\ AppLeaves(p) => app'[p] = "pausing"
      /\ CancelSession(p) => app'[p] = "away"
  BY DEF AppLeaves, CancelSession, TypeOK
<1>4. app' = app => ~AppLeaves(p)
  BY <1>3 DEF AppLeaves
<1> QED
  BY <1>2, <1>3, <1>4

LEMMA PausedChange ==
  ASSUME TypeOK, [Next]_vars, NEW p \in Phone
  PROVE  \/ paused'[p] = paused[p] \/ AppLeaves(p)
         \/ p = "display" /\ DisplayStarts
         \/ p = "controller" /\ ControllerStarts
<1>1. ASSUME NEW q \in Phone,
             Activate(q) \/ Reject(q) \/ TransportError(q) \/ SnapshotFails(q)
      PROVE  paused' = paused
  BY <1>1 DEF Activate, Reject, TransportError, SnapshotFails, machine
<1>2. ASSUME ControllerThread, ~ControllerStarts PROVE paused' = paused
  BY <1>2
     DEF ControllerThread, ControllerHandshake, Receives, Sends,
         ControllerSendsInput, ControllerSteps, ControllerTakesAcknowledgement,
         ControllerVerifies, ControllerCompletes, ControllerSendsFinish,
         ControllerReturns, machine
<1>3. ASSUME DisplayThread, ~DisplayStarts PROVE paused' = paused
  BY <1>3
     DEF DisplayThread, DisplayHandshake, Receives, Sends, DisplayLoadsSnapshot,
         DisplayReportsFailure, DisplayReceivesInput, DisplaySteps, DisplayAcknowledges,
         DisplayReceivesFinish, DisplayReturns, machine
<1>4. ASSUME NEW q \in Phone, MainThread(q)
      PROVE  paused'[p] = paused[p] \/ AppLeaves(p)
  <2>1. CASE CancelSession(q)
    BY <2>1 DEF CancelSession, machine
  <2>2. CASE AppLeaves(q) /\ q # p
    BY <2>2 DEF AppLeaves, TypeOK
  <2> QED
    BY <1>4, <2>1, <2>2 DEF MainThread
<1>5. ASSUME Reader \/ LinkFails \/ Over \/ UNCHANGED vars PROVE paused' = paused
  BY <1>5 DEF Reader, ReaderReceives, ReaderEnds, LinkFails, Over, vars, machine
<1>6. /\ DisplayStarts => paused'["controller"] = paused["controller"]
      /\ ControllerStarts => paused'["display"] = paused["display"]
  BY DEF DisplayStarts, ControllerStarts, TypeOK, Phone
<1> QED
  BY <1>1, <1>2, <1>3, <1>4, <1>5, <1>6 DEF Next, EmulationThread, Phone

LEMMA DisplayLeavesStart ==
  ASSUME TypeOK, [Next]_vars, pc["display"] = "recvStart",
         pc'["display"] \notin {"recvStart", "over"}
  PROVE  DisplayStarts
<1> DEFINE D == "display"
<1>a. D \in Phone /\ "controller" \in Phone /\ D # "controller"
  BY DEF Phone
<1>1. ASSUME NEW p \in Phone,
             Activate(p) \/ Reject(p) \/ TransportError(p) \/ SnapshotFails(p)
      PROVE  FALSE
  <2>1. \/ \E r : Leave(p, r)
        \/ pc[p] = "activate" /\ p # D /\ \E l : Goto(p, l)
    BY <1>1 DEF Activate, Reject, TransportError, SnapshotFails
  <2> QED
    BY <1>a, <2>1 DEF Leave, Goto, TypeOK
<1>2. ASSUME ControllerThread PROVE FALSE
  <2>1. \E l : Goto("controller", l)
    BY <1>2
    DEF ControllerThread, ControllerHandshake, Receives, Sends, ControllerStarts,
        ControllerSendsInput, ControllerSteps, ControllerTakesAcknowledgement,
        ControllerVerifies, ControllerCompletes, ControllerSendsFinish,
        ControllerReturns, Leave
  <2> QED
    BY <1>a, <2>1 DEF Goto, TypeOK
<1>3. ASSUME DisplayThread PROVE DisplayStarts
  BY <1>3 DEF DisplayThread, DisplayHandshake, Receives, Sends, DisplayLoadsSnapshot,
              DisplayReportsFailure, DisplayReceivesInput, DisplaySteps,
              DisplayAcknowledges, DisplayReceivesFinish, DisplayReturns
<1>4. ASSUME (\E p \in Phone : MainThread(p)) \/ Reader \/ LinkFails \/ Over \/ UNCHANGED vars
      PROVE  FALSE
  BY <1>4 DEF MainThread, AppLeaves, CancelSession, Reader, ReaderReceives, ReaderEnds,
              LinkFails, Over, vars
<1> QED
  BY <1>1, <1>2, <1>3, <1>4 DEF Next, EmulationThread

\* A phone that runs a frame while it is not paused adds one to its state.
LEMMA RunFrameGrows ==
  ASSUME TypeOK, NEW p \in Phone, RunFrame(p), ~paused[p]
  PROVE  core'[p] \in Seq(Effects) /\ Len(core'[p]) = Len(core[p]) + 1
<1>1. core[p] \in Seq(Effects) /\ current[p] \in Effects
  BY DEF TypeOK, State, Effects
<1>2. PICK e \in {current[p]} \cup (Faulty \cap {p}) :
        core' = [core EXCEPT ![p] = Append(@, e)]
  BY DEF RunFrame
<1>3. e \in Effects /\ core'[p] = Append(core[p], e)
  BY <1>1, <1>2 DEF TypeOK, Effects
<1> QED
  BY <1>1, <1>3, AppendProperties

LEMMA RanInit == Init => Ran
BY DEF Init, Ran, ControllerRan, DisplayRan, DigestRan, Phone

\* Before its first frame the controller's emulator holds what it booted.
LEMMA BootKept ==
  ASSUME JInv, JInv', [Next]_vars, Ran, frame' = 0
  PROVE  frame = 0 /\ core'["controller"] = <<>>
<1>a. TypeOK /\ frame \in Nat
  BY DEF JInv, IInv, TypeOK
<1>1. frame = 0
  BY <1>a, FrameGrows
<1>2. ~ControllerSteps
  BY <1>1 DEF ControllerSteps, JInv, Counted
<1> QED
  BY <1>1, <1>2, <1>a, CoreChange DEF Ran

LEMMA ControllerRanKept ==
  ASSUME JInv, JInv', [Next]_vars, Ran
  PROVE  ControllerRan'
<1> DEFINE C == "controller"
           Loop == {"lockstep", "step", "drain"}
<1>a. /\ TypeOK /\ TypeOK' /\ Places /\ C \in Phone /\ frame \in Nat
      /\ core[C] \in Seq(Effects)
  BY DEF JInv, IInv, Phone, TypeOK, State
<1> SUFFICES ASSUME app'[C] = "here", pc'[C] \in Loop
             PROVE  /\ ~paused'[C]
                    /\ Len(core'[C]) = IF pc'[C] = "step" THEN frame' - 1 ELSE frame'
  BY DEF ControllerRan
<1>b. app[C] = "here" /\ ~AppLeaves(C)
  BY <1>a, AppChange
<1>1. CASE ControllerStarts
  <2>1. /\ pc[C] = "sendStart" /\ paused' = [paused EXCEPT ![C] = FALSE]
        /\ pc' = [pc EXCEPT ![C] = "lockstep"] /\ frame' = frame /\ core' = core
    BY <1>1 DEF ControllerStarts, Goto, progress
  <2>2. frame = 0
    BY <2>1 DEF JInv, IInv, Barrier, BeforeStart
  <2>3. core[C] = <<>> /\ Len(core[C]) = 0
    BY <2>2 DEF Ran
  <2> QED
    BY <1>a, <2>1, <2>2, <2>3 DEF TypeOK
<1>2. CASE ~ControllerStarts
  <2>1. pc[C] \in Loop
    BY <1>a, <1>2, ControllerMoves
    DEF BeforeStart, ControllerSendsInput, ControllerSteps,
        ControllerTakesAcknowledgement, ControllerVerifies, ControllerCompletes
  <2>2. /\ ~paused[C]
        /\ Len(core[C]) = IF pc[C] = "step" THEN frame - 1 ELSE frame
    BY <1>b, <2>1 DEF Ran, ControllerRan
  <2>3. ~paused'[C]
    BY <1>2, <1>a, <1>b, <2>2, PausedChange
  <2>4. CASE ControllerSteps
    <3>1. /\ pc[C] = "step" /\ pc'[C] # "step" /\ frame' = frame /\ RunFrame(C)
      BY <1>a, <2>4 DEF ControllerSteps, Goto, TypeOK
    <3>2. Len(core'[C]) = Len(core[C]) + 1
      BY <1>a, <2>2, <3>1, RunFrameGrows
    <3> QED
      BY <1>a, <2>2, <2>3, <3>1, <3>2
  <2>5. CASE ControllerSendsInput
    <3>1. /\ pc[C] = "lockstep" /\ pc'[C] = "step" /\ frame' = frame + 1 /\ core' = core
      BY <1>a, <2>5 DEF ControllerSendsInput, Goto, TypeOK, machine
    <3> QED
      BY <1>a, <2>2, <2>3, <3>1
  <2>6. CASE ~ControllerSteps /\ ~ControllerSendsInput
    <3>1. core'[C] = core[C] /\ frame' = frame
      BY <1>a, <2>6, CoreChange, FrameGrows
    <3>2. pc'[C] = "step" <=> pc[C] = "step"
      <4>1. ASSUME ControllerTakesAcknowledgement \/ ControllerVerifies
                     \/ ControllerCompletes
            PROVE  pc'[C] # "step" /\ pc[C] # "step"
        BY <1>a, <4>1
        DEF ControllerTakesAcknowledgement, ControllerVerifies, ControllerCompletes,
            Goto, AfterAcknowledgement, TypeOK
      <4> QED
        BY <1>a, <1>2, <2>1, <2>6, <4>1, ControllerMoves DEF BeforeStart
    <3> QED
      BY <2>2, <2>3, <3>1, <3>2
  <2> QED
    BY <2>4, <2>5, <2>6
<1> QED
  BY <1>1, <1>2

LEMMA DisplayRanKept ==
  ASSUME JInv, JInv', [Next]_vars, Ran
  PROVE  DisplayRan'
<1> DEFINE C == "controller"
           D == "display"
<1>a. /\ TypeOK /\ TypeOK' /\ Places /\ C \in Phone /\ D \in Phone
      /\ frame \in Nat /\ framesCompleted \in Nat /\ core[D] \in Seq(Effects)
  BY DEF JInv, IInv, Phone, TypeOK, State
<1> SUFFICES ASSUME app'[D] = "here" PROVE DisplayRan'
  BY DEF DisplayRan
<1>b. app[D] = "here" /\ ~AppLeaves(D)
  BY <1>a, AppChange
<1>1. ASSUME pc'[D] \in {"recvFrame", "step", "sendAck"} PROVE ~paused'[D]
  <2>1. CASE DisplayStarts
    BY <1>a, <2>1 DEF DisplayStarts, TypeOK
  <2>2. CASE ~DisplayStarts
    <3>1. pc[D] \in {"recvFrame", "step", "sendAck"}
      <4>1. \/ pc'[D] = pc[D]
            \/ pc[D] \in {"recvStart", "recvFrame", "step", "sendAck"}
        <5>1. \A l : Goto(D, l) => pc'[D] = l
          BY <1>a DEF Goto, TypeOK
        <5>2. DisplayReceivesFinish => pc[D] = "recvFrame"
          BY DEF DisplayReceivesFinish
        <5>3. /\ ~ Receives(D, "recvHello", "recvSnapshot")
              /\ ~ DisplayLoadsSnapshot
              /\ ~ Sends(D, "sendReady", Signal("ready"), "recvStart")
          BY <1>1, <5>1 DEF Receives, Sends, DisplayLoadsSnapshot, AfterLoading
        <5> QED
          BY <1>1, <1>a, <5>2, <5>3, DisplayMoves
      <4>2. pc[D] = "recvStart" /\ pc'[D] # pc[D] /\ pc'[D] # "over" => DisplayStarts
        BY <1>a, DisplayLeavesStart
      <4> QED
        BY <1>1, <2>2, <4>1, <4>2
    <3> QED
      BY <1>a, <1>b, <2>2, <3>1, PausedChange DEF Ran, DisplayRan
  <2> QED
    BY <2>1, <2>2
<1>2. ASSUME pc'[D] \in {"sendReady", "recvStart", "recvFrame", "step", "sendAck"}
      PROVE  Len(core'[D]) = framesCompleted'
  <2>1. CASE DisplaySteps
    <3>1. /\ pc[D] = "step" /\ framesCompleted' = framesCompleted + 1 /\ RunFrame(D)
          /\ ~paused[D] /\ Len(core[D]) = framesCompleted
      BY <1>b, <2>1 DEF DisplaySteps, Ran, DisplayRan
    <3>2. Len(core'[D]) = Len(core[D]) + 1
      BY <1>a, <3>1, RunFrameGrows
    <3> QED
      BY <3>1, <3>2
  <2>2. CASE DisplayLoadsSnapshot
    <3>1. pc[D] = "recvSnapshot" /\ pc'[D] \in {"sendReady", "sendFailure"}
          /\ framesCompleted' = framesCompleted
      BY <1>a, <2>2 DEF DisplayLoadsSnapshot, Goto, AfterLoading, TypeOK, progress
    <3>2. core'[C] = core'[D]
      BY <1>2, <3>1 DEF JInv, Verified
    <3>3. ~Begun
      BY <3>1 DEF JInv, Verified, Agreed, BeforeReady
    <3>4. frame = 0 /\ framesCompleted = 0
      BY <1>a, <3>1, <3>3 DEF Begun, JInv, IInv, Barrier, BeforeStart
    <3>5. frame' = 0
      BY <2>2, <3>4 DEF DisplayLoadsSnapshot, progress
    <3> QED
      BY BootKept, <3>1, <3>2, <3>4, <3>5
  <2>3. CASE ~DisplaySteps /\ ~DisplayLoadsSnapshot
    <3>1. core'[D] = core[D]
      BY <1>a, <2>3, CoreChange
    <3>2. framesCompleted' = framesCompleted
      BY <2>3, CountsChange DEF Counts, ControllerSendsInput, ControllerSteps,
         ControllerTakesAcknowledgement, ControllerVerifies
    <3>3. pc[D] \in {"sendReady", "recvStart", "recvFrame", "step", "sendAck"}
      BY <1>2, <1>a, <2>3, DisplayMoves DEF Receives, Sends, DisplayReceivesFinish, Goto,
                                            TypeOK
    <3> QED
      BY <1>b, <3>1, <3>2, <3>3 DEF Ran, DisplayRan
  <2> QED
    BY <2>1, <2>2, <2>3
<1> QED
  BY <1>1, <1>2 DEF DisplayRan

\* A digest is made of the state after the frame it names.
LEMMA DigestRanKept ==
  ASSUME JInv, JInv', [Next]_vars, Ran, NEW p \in Phone
  PROVE  DigestRan(p)'
<1> DEFINE C == "controller"
           D == "display"
<1>a. /\ TypeOK /\ TypeOK' /\ C \in Phone /\ D \in Phone /\ p \in {C, D}
      /\ frame \in Nat /\ framesCompleted \in Nat
  BY DEF JInv, IInv, Phone, TypeOK
<1> SUFFICES ASSUME app'[p] = "here", lastDigest'[p] # <<>>
             PROVE  Len(lastDigest'[p][1].state) = lastDigest'[p][1].frame
  BY DEF DigestRan
<1>b. app[p] = "here" /\ ~AppLeaves(p)
  BY <1>a, AppChange
<1>1. CASE lastDigest'[p] = lastDigest[p]
  BY <1>b, <1>1 DEF Ran, DigestRan
<1>2. CASE p = C /\ ControllerVerifies
  <2>1. /\ pc[C] = "drain"
        /\ lastDigest'[C] = <<[frame |-> frame, state |-> core[C]]>>
    BY <1>2, CheckpointTaken
  <2>2. Len(core[C]) = frame
    BY <1>2, <1>b, <2>1 DEF Ran, ControllerRan
  <2> QED
    BY <1>2, <2>1, <2>2
<1>3. CASE p = D /\ DisplaySteps /\ lastDigest'[p] # lastDigest[p]
  <2>1. lastDigest'[D] = DigestOf(D, framesCompleted + 1, core'[D])
    BY <1>a, <1>3 DEF DisplaySteps, TypeOK
  <2>2. /\ framesCompleted' = framesCompleted + 1 /\ pc'[D] = "sendAck"
    BY <1>a, <1>3 DEF DisplaySteps, Goto, TypeOK
  <2>3. Len(core'[D]) = framesCompleted'
    BY <1>3, <2>2, DisplayRanKept DEF DisplayRan
  <2>4. lastDigest'[D] = <<[frame |-> framesCompleted + 1, state |-> core'[D]]>>
    BY <1>3, <2>1 DEF DigestOf
  <2> QED
    BY <1>3, <2>2, <2>3, <2>4
<1> QED
  BY <1>a, <1>1, <1>2, <1>3, DigestChange

LEMMA RanStep == JInv /\ JInv' /\ [Next]_vars /\ Ran => Ran'
<1> SUFFICES ASSUME JInv, JInv', [Next]_vars, Ran PROVE Ran'
  OBVIOUS
<1>1. (frame = 0 => core["controller"] = <<>>)'
  BY BootKept
<1>2. ControllerRan' /\ DisplayRan'
  BY ControllerRanKept, DisplayRanKept
<1>3. \A p \in Phone : DigestRan(p)'
  BY DigestRanKept
<1> QED
  BY <1>1, <1>2, <1>3 DEF Ran

THEOREM RanInvariance == Spec => []Ran
  BY RanInit, RanStep, SessionInvariance, PTL DEF Spec

\* A phone of a passed session that is in the foreground has run all frames, and
\* the other one is in the same state.
LEMMA PassedFramesRan ==
  ASSUME JInv, FinalDigest, Ran,
         NEW r \in Phone, outcome[r] = "passed", NEW p \in Phone, app[p] = "here"
  PROVE  \A q \in Phone : Len(core[q]) = frame
<1>1. core["controller"] = core["display"]
  BY DEF JInv, Ended, Settled
<1>2. frame = 0 => Len(core["controller"]) = frame
  BY DEF Ran
<1>3. frame > 0 => Len(core[p]) = frame
  <2> SUFFICES ASSUME frame > 0 PROVE Len(core[p]) = frame
    OBVIOUS
  <2>1. lastDigest[p] = <<[frame |-> frame, state |-> core[p]]>>
    BY DEF FinalDigest
  <2>2. /\ lastDigest[p] # <<>>
        /\ lastDigest[p][1].state = core[p] /\ lastDigest[p][1].frame = frame
    BY <2>1
  <2>3. DigestRan(p)
    BY DEF Ran
  <2> QED
    BY <2>2, <2>3 DEF DigestRan
<1>4. frame \in Nat
  BY DEF JInv, IInv, TypeOK
<1> QED
  BY <1>1, <1>2, <1>3, <1>4 DEF Phone

\* Where a session reports a passed proof, both phones have counted all its frames
\* and are in one state, and a phone that stayed in the foreground makes sure that
\* the frames ran on both; a reported mismatch is one; and the two reports do not
\* contradict each other (finishController, runDisplay).
THEOREM VerdictsAreTrue == Spec => []VerdictIsTrue
<1>1. JInv /\ FinalDigest /\ Ran => VerdictIsTrue
  <2> SUFFICES ASSUME JInv, FinalDigest, Ran PROVE VerdictIsTrue
    OBVIOUS
  <2>1. (\E r \in Phone : outcome[r] = "passed") /\ (\E p \in Phone : app[p] = "here")
        => \A q \in Phone : Len(core[q]) = frame
    BY PassedFramesRan
  <2> QED
    BY <2>1 DEF JInv, Ended, VerdictIsTrue, Settled, Still, Phone
<1> QED
  BY <1>1, SessionInvariance, PassesOnFinalDigest, RanInvariance, PTL

\* The phones decide from their own arguments which frames need a digest
\* (shouldCreateDigest).  If the display makes none for the controller's last frame,
\* no schedule makes either phone report a passed proof.
THEOREM DisagreementNeverPasses ==
  ASSUME Limit["controller"] \in Nat \ {0}, ~NeedsDigest("display", Limit["controller"])
  PROVE  Spec => [](\A p \in Phone : outcome[p] # "passed")
<1>1. JInv /\ FinalDigest => \A p \in Phone : outcome[p] # "passed"
  BY DEF FinalDigest, JInv, Ended, Settled
<1> QED
  BY <1>1, SessionInvariance, PassesOnFinalDigest, PTL

(***************************************************************************)
(* The constants of a session.                                             *)
(***************************************************************************)
\* Whatever the launch arguments read as, they give a session constants for which
\* the theorems hold (TwoPhoneConfiguration.swift).
THEOREM SessionConstants ==
  ASSUME NEW given \in Given
  PROVE  /\ frameWindow(given) \in 1 .. 8
         /\ checkpointInterval(given) \in Nat \ {0}
         /\ testFrameLimit(given) \in Nat \cup {NoLimit}
<1>1. CASE given = <<>>
  BY <1>1 DEF frameWindow, checkpointInterval, testFrameLimit, Or, Unsigned, AtLeast,
              AtMost, NoLimit
<1>2. ASSUME NEW n \in Int, given = <<n>> PROVE given # <<>> /\ given[1] = n
  BY <1>2
<1>3. CASE given # <<>>
  <2>1. PICK n \in Int : given = <<n>>
    BY <1>3 DEF Given
  <2> QED
    BY <1>2, <2>1 DEF frameWindow, checkpointInterval, testFrameLimit, Or, Unsigned,
                      AtLeast, AtMost, NoLimit
<1> QED
  BY <1>1, <1>3
=============================================================================
