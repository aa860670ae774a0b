--------------------------- MODULE Reconnect_proofs ---------------------------
(***************************************************************************)
(* Proofs about Reconnect, whichever phones may leave and whether or not   *)
(* receives time out.                                                      *)
(***************************************************************************)
EXTENDS Reconnect, TLAPS

Labels ==
  {"loop", "begin", "prepare", "searching", "activate", "handshake", "playing",
   "running", "drawing", "ending", "deregister", "retry"}

TypeOK ==
  /\ pc \in [Phone -> Labels]
  /\ app \in [Phone -> {"here", "marked", "pausing", "cancelling", "away",
                        "returning"}]
  /\ backgrounded \in [Phone -> BOOLEAN]
  /\ isForeground \in [Phone -> BOOLEAN]
  /\ paused \in [Phone -> BOOLEAN]
  /\ registered \in [Phone -> BOOLEAN]
  /\ isCancelled \in [Phone -> BOOLEAN]
  /\ up \in [Phone -> BOOLEAN]
  /\ suspended \in [Phone -> BOOLEAN]

\* From its first flag to the return, the app is marked as in the background.
Marked ==
  \A p \in Phone :
    app[p] \in {"marked", "pausing", "cancelling", "away"} => backgrounded[p]

\* A session is registered before it looks for a transport, and until it has
\* closed it: cancel() finds it.
Findable ==
  \A p \in Phone :
    Active(p) \/ pc[p] \in {"prepare", "searching", "activate"} => registered[p]

\* A phone that plays over an open connection is paused only between
\* pauseEmulation and cancel().
Running ==
  \A p \in Phone :
    pc[p] \in Playing /\ up[p] /\ app[p] # "cancelling" => ~paused[p]

IInv ==
  TypeOK /\ Marked /\ Findable /\ Running /\ NoDrawingAway /\ CancelTakesHold

\* Both loops start in the foreground, without a session.
LEMMA InvInit == Init => IInv
  BY DEF Init, IInv, TypeOK, Labels, Marked, Findable, Running, NoDrawingAway,
         CancelTakesHold, Active, InSession, Playing

\* The steps that no more than move the emulation thread on.
LEMMA MovesKeep ==
  ASSUME IInv, NEW p \in Phone,
         \/ BeginsAttempt(p) \/ SearchFails(p) \/ StepsFrame(p)
         \/ ChecksBackground(p) \/ Draws(p) \/ SessionEnds(p) \/ SessionFails(p)
         \/ Retries(p)
  PROVE  IInv'
  BY DEF IInv, TypeOK, Labels, Marked, Findable, Running, NoDrawingAway,
         CancelTakesHold, Active, InSession, Playing, BeginsAttempt,
         SearchFails, StepsFrame, ChecksBackground, Draws, SessionEnds,
         SessionFails, Retries, Goto, phoneFlags, sessionFlags

\* The steps of an attempt that register, pause, connect, resume and close.
LEMMA AttemptKeeps ==
  ASSUME IInv, NEW p \in Phone,
         \/ Registers(p) \/ Prepares(p) \/ Activates(p) \/ Synchronises(p)
         \/ Closes(p) \/ Deregisters(p)
  PROVE  IInv'
<1>1. CASE Registers(p)
  BY <1>1 DEF IInv, TypeOK, Labels, Marked, Findable, Running, NoDrawingAway,
     CancelTakesHold, Active, InSession, Playing, Registers, Goto, phoneFlags
<1>2. CASE Prepares(p)
  BY <1>2 DEF IInv, TypeOK, Labels, Marked, Findable, Running, NoDrawingAway,
     CancelTakesHold, Active, InSession, Playing, Prepares, Goto, phoneFlags,
     sessionFlags
<1>3. CASE Activates(p)
  <2>1. CASE isCancelled[p]
    <3>1. /\ pc' = [pc EXCEPT ![p] = "deregister"]
          /\ up' = [up EXCEPT ![p] = FALSE]
      BY <1>3, <2>1 DEF Activates, Cancelled, Goto
    <3>2. QED
      BY <1>3, <3>1
      DEF IInv, TypeOK, Labels, Marked, Findable, Running, NoDrawingAway,
          CancelTakesHold, Active, InSession, Playing,
          Activates, phoneFlags, sessionFlags
  <2>2. CASE ~isCancelled[p]
    <3>1. /\ pc[p] = "activate"
          /\ pc' = [pc EXCEPT ![p] = "handshake"]
          /\ up' = up
      BY <1>3, <2>2 DEF Activates, Cancelled, Goto
    <3>2. QED
      BY <1>3, <2>2, <3>1
      DEF IInv, TypeOK, Labels, Marked, Findable, Running, NoDrawingAway,
          CancelTakesHold, Active, InSession, Playing,
          Activates, phoneFlags, sessionFlags
  <2>3. QED
    BY <2>1, <2>2
<1>4. CASE Synchronises(p)
  BY <1>4 DEF IInv, TypeOK, Labels, Marked, Findable, Running, NoDrawingAway,
     CancelTakesHold, Active, InSession, Playing, Synchronises, Resumed, Goto,
     phoneFlags, sessionFlags
<1>5. CASE Closes(p)
  BY <1>5 DEF IInv, TypeOK, Labels, Marked, Findable, Running, NoDrawingAway,
     CancelTakesHold, Active, InSession, Playing, Closes, Goto, phoneFlags,
     sessionFlags
<1>6. CASE Deregisters(p)
  BY <1>6 DEF IInv, TypeOK, Labels, Marked, Findable, Running, NoDrawingAway,
     CancelTakesHold, Active, InSession, Playing, Deregisters, Goto, phoneFlags
<1>7. QED
  BY <1>1, <1>2, <1>3, <1>4, <1>5, <1>6

\* Leaving: each step of appDidEnterBackground prepares the ground of the next.
LEMMA LeavingKeeps ==
  ASSUME IInv, NEW p \in Phone,
         \/ EntersBackground(p) \/ StopsLoop(p) \/ PausesEmulation(p)
         \/ CancelsSession(p) \/ Suspends(p)
  PROVE  IInv'
<1>1. CASE EntersBackground(p)
  BY <1>1 DEF IInv, TypeOK, Labels, Marked, Findable, Running, NoDrawingAway,
     CancelTakesHold, Active, InSession, Playing, EntersBackground, At,
     sessionFlags
<1>2. CASE StopsLoop(p)
  BY <1>2 DEF IInv, TypeOK, Labels, Marked, Findable, Running, NoDrawingAway,
     CancelTakesHold, Active, InSession, Playing, StopsLoop, At, sessionFlags
<1>3. CASE Suspends(p)
  BY <1>3 DEF IInv, TypeOK, Labels, Marked, Findable, Running, NoDrawingAway,
     CancelTakesHold, Active, InSession, Playing, Suspends, sessionFlags
\* pauseEmulation waits for the frame in progress, so none is drawing.
<1>4. CASE PausesEmulation(p)
  BY <1>4 DEF IInv, TypeOK, Labels, Marked, Findable, Running, NoDrawingAway,
     CancelTakesHold, Active, InSession, Playing, PausesEmulation, LockFree,
     Locked, At, phoneFlags, sessionFlags
\* A session in play is registered, so cancel() finds and closes it.
<1>5. CASE CancelsSession(p)
  BY <1>5 DEF IInv, TypeOK, Labels, Marked, Findable, Running, NoDrawingAway,
     CancelTakesHold, Active, InSession, Playing, CancelsSession, At, phoneFlags
<1>6. QED
  BY <1>1, <1>2, <1>3, <1>4, <1>5

\* Returning touches flags only.
LEMMA ReturningKeeps ==
  ASSUME IInv, NEW p \in Phone, EntersForeground(p) \/ StartsLoop(p)
  PROVE  IInv'
<1>1. CASE EntersForeground(p)
  BY <1>1 DEF IInv, TypeOK, Labels, Marked, Findable, Running, NoDrawingAway,
     CancelTakesHold, Active, InSession, Playing, EntersForeground, At,
     sessionFlags
<1>2. CASE StartsLoop(p)
  BY <1>2 DEF IInv, TypeOK, Labels, Marked, Findable, Running, NoDrawingAway,
     CancelTakesHold, Active, InSession, Playing, StartsLoop, LoopTold, At,
     sessionFlags
<1>3. QED
  BY <1>1, <1>2

\* A new connection is not yet in a session; a broken one does no more harm.
LEMMA NetworkKeeps ==
  ASSUME IInv, Meet \/ LinkFails \/ Settles
  PROVE  IInv'
<1>1. CASE Meet
  BY <1>1 DEF IInv, TypeOK, Labels, Marked, Findable, Running, NoDrawingAway,
     CancelTakesHold, Active, InSession, Playing, Meet, phoneFlags, sessionFlags
<1>2. CASE LinkFails \/ Settles
  BY <1>2 DEF IInv, TypeOK, Marked, Findable, Running, NoDrawingAway,
     CancelTakesHold, Active, LinkFails, Settles, phoneFlags, sessionFlags
<1>3. QED
  BY <1>1, <1>2

\* Every step of a phone or of the network keeps the invariant.
LEMMA InvStep == IInv /\ [Next]_vars => IInv'
<1> SUFFICES ASSUME IInv, [Next]_vars PROVE IInv'
  OBVIOUS
<1>1. CASE UNCHANGED vars
  BY <1>1 DEF IInv, TypeOK, Marked, Findable, Running, NoDrawingAway,
     CancelTakesHold, Active, vars, phoneFlags, sessionFlags
<1>2. CASE Meet \/ LinkFails \/ Settles
  BY <1>2, NetworkKeeps
<1>3. ASSUME NEW p \in Phone,
             \/ EmulationThread(p) \/ MainThread(p) \/ SessionFails(p)
             \/ EntersBackground(p) \/ Suspends(p) \/ EntersForeground(p)
      PROVE  IInv'
  BY <1>3, MovesKeep, AttemptKeeps, LeavingKeeps, ReturningKeeps
  DEF EmulationThread, MainThread
<1>4. QED
  BY <1>1, <1>2, <1>3 DEF Next

\* The inductive invariant of the two reconnect loops and main threads.
THEOREM Invariance == Spec => []IInv
  BY InvInit, InvStep, PTL DEF Spec

\* Nothing is drawn once appDidEnterBackground is past pauseEmulation, whichever
\* phones leave and whether or not receives time out.
THEOREM NothingIsDrawnAway == Spec => []NoDrawingAway
<1>1. IInv => NoDrawingAway
  BY DEF IInv
<1>2. QED
  BY Invariance, <1>1, PTL

\* A session in play over an open connection has a running emulator once its
\* phone is back, whatever the interleaving of its pause, cancel and handshake.
THEOREM PlayIsNotFrozen == Spec => []NoFrozenPlay
<1>1. IInv => NoFrozenPlay
  BY DEF IInv, Running, NoFrozenPlay
<1>2. QED
  BY Invariance, <1>1, PTL

\* No cancelled session keeps an open connection.
THEOREM CancelsTakeHold == Spec => []CancelTakesHold
<1>1. IInv => CancelTakesHold
  BY DEF IInv
<1>2. QED
  BY Invariance, <1>1, PTL

(***************************************************************************)
(* What a suspension may catch.                                            *)
(***************************************************************************)
\* The loop's flag is down from appDidEnterBackground to the return, and only an
\* app that is away is suspended.
Stopped ==
  \A p \in Phone :
    /\ app[p] \in {"pausing", "cancelling", "away", "returning"} => ~isForeground[p]
    /\ suspended[p] => app[p] = "away"

\* An attempt that goes on while its phone is away was cancelled.
Cut ==
  \A p \in Phone : app[p] = "away" =>
    /\ pc[p] # "begin"
    /\ pc[p] \in {"prepare", "searching", "activate"} \cup InSession => isCancelled[p]

\* The cancel of the main thread comes between the attempt's beginning and its
\* registration, and finds no session.
ComesTooEarly(p) == pc[p] = "begin" /\ CancelsSession(p)

NeverTooEarly == [][\A p \in Phone : ~ComesTooEarly(p)]_vars

LEMMA StoppedStep == TypeOK /\ Stopped /\ [Next]_vars => Stopped'
<1> SUFFICES ASSUME TypeOK, Stopped, [Next]_vars PROVE Stopped'
  OBVIOUS
<1>1. CASE UNCHANGED vars
  BY <1>1 DEF Stopped, vars, phoneFlags
<1>2. CASE Meet \/ LinkFails \/ Settles
  BY <1>2 DEF Stopped, Meet, LinkFails, Settles, phoneFlags
<1>3. ASSUME NEW p \in Phone, EmulationThread(p) \/ SessionFails(p) PROVE Stopped'
  <2>1. UNCHANGED <<app, phoneFlags>>
    BY <1>3 DEF EmulationThread, BeginsAttempt, Registers, Prepares, SearchFails,
       Activates, Synchronises, StepsFrame, ChecksBackground, Draws, SessionEnds,
       Closes, Deregisters, Retries, SessionFails
  <2> QED
    BY <2>1 DEF Stopped, phoneFlags
<1>4. ASSUME NEW p \in Phone,
             MainThread(p) \/ EntersBackground(p) \/ Suspends(p) \/ EntersForeground(p)
      PROVE  Stopped'
  BY <1>4 DEF TypeOK, Stopped, MainThread, StopsLoop, PausesEmulation, CancelsSession,
     StartsLoop, LoopTold, EntersBackground, Suspends, EntersForeground, At, phoneFlags
<1> QED
  BY <1>1, <1>2, <1>3, <1>4 DEF Next

LEMMA CutStep ==
  ASSUME IInv, Stopped, Cut, [Next]_vars,
         \A p \in Phone : ~ComesTooEarly(p)
  PROVE  Cut'
<1>a. TypeOK /\ Findable
  BY DEF IInv
<1>1. CASE UNCHANGED vars
  BY <1>1 DEF Cut, vars, sessionFlags
<1>2. CASE Meet \/ LinkFails \/ Settles
  BY <1>2 DEF Cut, InSession, Playing, Meet, LinkFails, Settles, sessionFlags
<1>3. ASSUME NEW p \in Phone, EmulationThread(p) \/ SessionFails(p) PROVE Cut'
  <2>1. ASSUME NEW q \in Phone, app'[q] = "away"
        PROVE  /\ pc'[q] # "begin"
               /\ pc'[q] \in {"prepare", "searching", "activate"} \cup InSession =>
                    isCancelled'[q]
    <3>1. app' = app
      BY <1>3 DEF EmulationThread, BeginsAttempt, Registers, Prepares, SearchFails,
         Activates, Synchronises, StepsFrame, ChecksBackground, Draws, SessionEnds,
         Closes, Deregisters, Retries, SessionFails
    <3>2. CASE q # p
      <4>1. pc'[q] = pc[q] /\ isCancelled'[q] = isCancelled[q]
        BY <1>a, <1>3, <3>2 DEF TypeOK, EmulationThread, BeginsAttempt, Registers,
           Prepares, SearchFails, Activates, Synchronises, StepsFrame,
           ChecksBackground, Draws, SessionEnds, Closes, Deregisters, Retries,
           SessionFails, Goto, sessionFlags
      <4> QED
        BY <2>1, <3>1, <4>1 DEF Cut
    <3>3. CASE q = p
      <4>1. ~BeginsAttempt(p) /\ ~Registers(p)
        BY <2>1, <3>1, <3>3 DEF Stopped, Cut, BeginsAttempt, MayTry, Registers
      <4>2. isCancelled' = isCancelled
        BY <1>3, <4>1 DEF EmulationThread, Prepares, SearchFails,
           Activates, Synchronises, StepsFrame, ChecksBackground, Draws, SessionEnds,
           Closes, Deregisters, Retries, SessionFails, sessionFlags
      <4>3. /\ pc'[p] # "begin"
            /\ pc'[p] \in {"prepare", "searching", "activate"} \cup InSession =>
                 pc[p] \in {"prepare", "searching", "activate"} \cup InSession
        BY <1>a, <1>3, <4>1 DEF TypeOK, EmulationThread, Prepares, SearchFails,
           Activates, Synchronises, StepsFrame, ChecksBackground, Draws, SessionEnds,
           Closes, Deregisters, Retries, SessionFails, Goto, InSession, Playing
      <4> QED
        BY <2>1, <3>1, <3>3, <4>2, <4>3 DEF Cut
    <3> QED
      BY <3>2, <3>3
  <2> QED
    BY <2>1 DEF Cut
<1>4. ASSUME NEW p \in Phone, CancelsSession(p) PROVE Cut'
  <2>1. /\ pc' = pc /\ pc[p] # "begin" /\ app' = [app EXCEPT ![p] = "away"]
        /\ isCancelled' = [isCancelled EXCEPT ![p] = @ \/ registered[p]]
    BY <1>4 DEF CancelsSession, ComesTooEarly, At
  <2>2. pc[p] \in {"prepare", "searching", "activate"} \cup InSession => registered[p]
    BY <1>a DEF Findable, Active
  <2> QED
    BY <1>a, <2>1, <2>2 DEF Cut, TypeOK
<1>5. ASSUME NEW p \in Phone,
             \/ StopsLoop(p) \/ PausesEmulation(p) \/ StartsLoop(p)
             \/ EntersBackground(p) \/ Suspends(p) \/ EntersForeground(p)
      PROVE  Cut'
  <2>1. /\ UNCHANGED <<pc, isCancelled>>
        /\ \A q \in Phone : app'[q] = "away" => app[q] = "away"
    BY <1>a, <1>5 DEF TypeOK, StopsLoop, PausesEmulation, StartsLoop, EntersBackground,
       Suspends, EntersForeground, At, sessionFlags
  <2> QED
    BY <2>1 DEF Cut
<1> QED
  BY <1>1, <1>2, <1>3, <1>4, <1>5 DEF Next, MainThread

\* In appDidEnterBackground the cancel of a session that is not registered yet is
\* the only way to be suspended in a session with an open connection: whenever the
\* main thread does not come between an attempt's beginning and its registration,
\* every connection is closed before iOS suspends its phone.
THEOREM OnlyUnregisteredOutlive ==
  Spec /\ NeverTooEarly => []ClosedBeforeSuspension
<1> DEFINE SInv == IInv /\ Stopped /\ Cut
<1>1. Init => SInv
  BY InvInit DEF Init, Stopped, Cut
<1>2. SInv /\ [Next]_vars /\ [\A p \in Phone : ~ComesTooEarly(p)]_vars => SInv'
  <2> SUFFICES ASSUME SInv, [Next]_vars, [\A p \in Phone : ~ComesTooEarly(p)]_vars
               PROVE  SInv'
    OBVIOUS
  <2>1. IInv' /\ Stopped'
    BY InvStep, StoppedStep DEF IInv
  <2>2. CASE \A p \in Phone : ~ComesTooEarly(p)
    BY <2>1, <2>2, CutStep
  <2>3. CASE UNCHANGED vars
    BY <2>1, <2>3 DEF Cut, vars, sessionFlags
  <2> QED
    BY <2>2, <2>3
<1>3. SInv => ClosedBeforeSuspension
  BY DEF IInv, Stopped, Cut, CancelTakesHold, ClosedBeforeSuspension
<1> QED
  BY <1>1, <1>2, <1>3, PTL DEF Spec, NeverTooEarly
=============================================================================
