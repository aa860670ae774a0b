------------------------------ MODULE Reconnect ------------------------------
(***************************************************************************)
(* Two phones in ordinary play: on each, the reconnect loop and the        *)
(* session attempts of EmulatorCore.swift on the emulation thread, and the *)
(* main thread with appDidEnterBackground and appWillEnterForeground.      *)
(*                                                                         *)
(* A session is abstracted to its life: searching for the peer, the        *)
(* handshake, and play until its connection ends; LockstepSession is the   *)
(* detailed model, and its property EndsTogether is what SessionEnds       *)
(* relies on.  The connection is the last one the two phones opened.       *)
(***************************************************************************)
CONSTANTS
  Leavers,   \* phones whose app may leave the foreground
  GivesUp    \* whether a receive times out, as in BonjourTransport

Phone == {"controller", "display"}

ASSUME SwitchAssumption == Leavers \subseteq Phone /\ GivesUp \in BOOLEAN

VARIABLES
  pc,           \* where the emulation thread of each phone is
  app,          \* where the main thread is in leaving and returning
  backgrounded, \* EmulatorCore.backgrounded
  isForeground, \* TwoPhoneReconnectLoop.isForeground
  paused,       \* the bridge's paused flag
  registered,   \* activeTwoPhoneSession is set
  isCancelled,  \* the session of the current attempt was cancelled
  up,           \* the phone's end of the connection is open
  broken,       \* the network has failed under the connection
  settled,      \* from now on neither network nor sessions fail
  suspended     \* iOS has suspended the process

phoneFlags == <<backgrounded, isForeground, suspended>>
sessionFlags == <<registered, isCancelled>>
vars == <<pc, app, phoneFlags, paused, sessionFlags, up, broken, settled>>

Peer(p) == IF p = "controller" THEN "display" ELSE "controller"

Playing == {"playing", "running", "drawing"}
InSession == Playing \cup {"handshake"}

\* The session has a transport that cancel() finds.
Active(p) == pc[p] \in InSession \cup {"ending"}

\* The emulator's lock is held by the emulation thread.
Locked(p) == pc[p] \in {"running", "drawing"}

\* Both ends of the connection are open and the network carries it.
Connected == \A p \in Phone : up[p] /\ ~broken

Goto(p, label) == pc' = [pc EXCEPT ![p] = label]

(***************************************************************************)
(* The emulation thread: TwoPhoneReconnectLoop.run and the attempts.       *)
(***************************************************************************)
\* What both waits of the loop end on.
MayTry(p) == isForeground[p]

\* waitUntilForeground returns and the attempt begins.
BeginsAttempt(p) ==
  /\ pc[p] = "loop"
  /\ MayTry(p)
  /\ Goto(p, "begin")
  /\ UNCHANGED <<app, phoneFlags, paused, sessionFlags, up, broken, settled>>

\* A new session is created and becomes the one to cancel.
Registers(p) ==
  /\ pc[p] = "begin"
  /\ registered' = [registered EXCEPT ![p] = TRUE]
  /\ isCancelled' = [isCancelled EXCEPT ![p] = FALSE]
  /\ Goto(p, "prepare")
  /\ UNCHANGED <<app, phoneFlags, paused, up, broken, settled>>

\* prepareForSynchronization pauses the emulator.
Prepares(p) ==
  /\ pc[p] = "prepare"
  /\ paused' = [paused EXCEPT ![p] = TRUE]
  /\ Goto(p, "searching")
  /\ UNCHANGED <<app, phoneFlags, sessionFlags, up, broken, settled>>

\* The two phones find each other and open a connection.
Meet ==
  /\ \A p \in Phone : pc[p] = "searching" /\ ~suspended[p]
  /\ pc' = [p \in Phone |-> "activate"]
  /\ up' = [p \in Phone |-> TRUE]
  /\ broken' = FALSE
  /\ UNCHANGED <<app, phoneFlags, paused, sessionFlags, settled>>

\* The search fails or times out.  It takes two minutes, longer than a peer in
\* the foreground needs to come round to searching on a network that works.
SearchFails(p) ==
  /\ pc[p] = "searching"
  /\ ~(settled /\ app[Peer(p)] = "here")
  /\ Goto(p, "deregister")
  /\ UNCHANGED <<app, phoneFlags, paused, sessionFlags, up, broken, settled>>

\* Mutant: a cancelled session goes on.
NeverCancelled(p) == FALSE

Cancelled(p) == isCancelled[p]

\* activate: the transport is published, or closed if the session was
\* cancelled before it had one.
Activates(p) ==
  /\ pc[p] = "activate"
  /\ IF Cancelled(p)
     THEN up' = [up EXCEPT ![p] = FALSE] /\ Goto(p, "deregister")
     ELSE Goto(p, "handshake") /\ UNCHANGED up
  /\ UNCHANGED <<app, phoneFlags, paused, sessionFlags, broken, settled>>

\* Mutant: the emulator is not resumed after the handshake.
PausedStill(p) == paused

Resumed(p) == [paused EXCEPT ![p] = FALSE]

\* The handshake completes: the emulator runs.
Synchronises(p) ==
  /\ pc[p] = "handshake"
  /\ Connected
  /\ pc[Peer(p)] \in InSession
  /\ ~suspended[Peer(p)]
  /\ paused' = Resumed(p)
  /\ Goto(p, "playing")
  /\ UNCHANGED <<app, phoneFlags, sessionFlags, up, broken, settled>>

\* The next frame, under the emulator's lock; it needs the peer's inputs or
\* acknowledgements.
StepsFrame(p) ==
  /\ pc[p] = "playing"
  /\ Connected
  /\ pc[Peer(p)] \in Playing
  /\ ~suspended[Peer(p)]
  /\ Goto(p, "running")
  /\ UNCHANGED <<app, phoneFlags, paused, sessionFlags, up, broken, settled>>

\* step looks whether the app is in the background before it draws.
ChecksBackground(p) ==
  /\ pc[p] = "running"
  /\ Goto(p, IF backgrounded[p] THEN "playing" ELSE "drawing")
  /\ UNCHANGED <<app, phoneFlags, paused, sessionFlags, up, broken, settled>>

Draws(p) ==
  /\ pc[p] = "drawing"
  /\ Goto(p, "playing")
  /\ UNCHANGED <<app, phoneFlags, paused, sessionFlags, up, broken, settled>>

\* Mutant: a receive waits for ever.
WaitsForever(p) == FALSE

\* A receive from a peer that has gone silent times out.
TimesOut(p) == GivesUp /\ suspended[Peer(p)]

\* A send or receive throws, on this end or because the peer's end is closed.
SessionEnds(p) ==
  /\ pc[p] \in {"handshake", "playing"}
  /\ ~Connected \/ TimesOut(p)
  /\ Goto(p, "ending")
  /\ UNCHANGED <<app, phoneFlags, paused, sessionFlags, up, broken, settled>>

\* run() ends for a reason of its own: another ROM, a snapshot that does not
\* load, a checkpoint that does not match.
SessionFails(p) ==
  /\ pc[p] \in {"handshake", "playing"}
  /\ ~settled
  /\ ~suspended[p]
  /\ Goto(p, "ending")
  /\ UNCHANGED <<app, phoneFlags, paused, sessionFlags, up, broken, settled>>

\* The defers of run(): the transport is withdrawn and closed.
Closes(p) ==
  /\ pc[p] = "ending"
  /\ up' = [up EXCEPT ![p] = FALSE]
  /\ Goto(p, "deregister")
  /\ UNCHANGED <<app, phoneFlags, paused, sessionFlags, broken, settled>>

Deregisters(p) ==
  /\ pc[p] = "deregister"
  /\ registered' = [registered EXCEPT ![p] = FALSE]
  /\ Goto(p, "retry")
  /\ UNCHANGED <<app, phoneFlags, paused, isCancelled, up, broken, settled>>

\* waitBeforeRetry returns: after the delay in the foreground, or on the return
\* to it.
Retries(p) ==
  /\ pc[p] = "retry"
  /\ MayTry(p)
  /\ Goto(p, "loop")
  /\ UNCHANGED <<app, phoneFlags, paused, sessionFlags, up, broken, settled>>

EmulationThread(p) ==
  /\ ~suspended[p]
  /\ \/ BeginsAttempt(p) \/ Registers(p) \/ Prepares(p) \/ SearchFails(p)
     \/ Activates(p) \/ Synchronises(p) \/ StepsFrame(p) \/ ChecksBackground(p)
     \/ Draws(p) \/ SessionEnds(p) \/ Closes(p) \/ Deregisters(p) \/ Retries(p)

(***************************************************************************)
(* The main thread.                                                        *)
(***************************************************************************)
At(p, here, there) ==
  /\ app[p] = here
  /\ app' = [app EXCEPT ![p] = there]

\* appDidEnterBackground: the flag for step ...
EntersBackground(p) ==
  /\ p \in Leavers
  /\ At(p, "here", "marked")
  /\ backgrounded' = [backgrounded EXCEPT ![p] = TRUE]
  /\ UNCHANGED <<pc, isForeground, suspended, paused, sessionFlags, up, broken,
                 settled>>

\* ... the flag of the reconnect loop ...
StopsLoop(p) ==
  /\ At(p, "marked", "pausing")
  /\ isForeground' = [isForeground EXCEPT ![p] = FALSE]
  /\ UNCHANGED <<pc, backgrounded, suspended, paused, sessionFlags, up, broken,
                 settled>>

\* Mutant: pauseEmulation without the lock.
LockNotTaken(p) == TRUE

LockFree(p) == ~Locked(p)

\* ... pauseEmulation, under the emulator's lock ...
PausesEmulation(p) ==
  /\ At(p, "pausing", "cancelling")
  /\ LockFree(p)
  /\ paused' = [paused EXCEPT ![p] = TRUE]
  /\ UNCHANGED <<pc, phoneFlags, sessionFlags, up, broken, settled>>

\* ... and cancel() of the registered session, if there is one.  No attempt can
\* begin between finding it and cancelling it: the loop waits.
CancelsSession(p) ==
  /\ At(p, "cancelling", "away")
  /\ isCancelled' = [isCancelled EXCEPT ![p] = @ \/ registered[p]]
  /\ up' = [up EXCEPT ![p] = @ /\ ~(registered[p] /\ Active(p))]
  /\ UNCHANGED <<pc, phoneFlags, paused, registered, broken, settled>>

\* iOS suspends an app in the background.
Suspends(p) ==
  /\ app[p] = "away"
  /\ ~suspended[p]
  /\ suspended' = [suspended EXCEPT ![p] = TRUE]
  /\ UNCHANGED <<pc, app, backgrounded, isForeground, paused, sessionFlags, up,
                 broken, settled>>

\* appWillEnterForeground: the flag for step ...
EntersForeground(p) ==
  /\ At(p, "away", "returning")
  /\ suspended' = [suspended EXCEPT ![p] = FALSE]
  /\ backgrounded' = [backgrounded EXCEPT ![p] = FALSE]
  /\ UNCHANGED <<pc, isForeground, paused, sessionFlags, up, broken, settled>>

\* Mutant: the loop is not told.
LoopLeftAsIs(p) == isForeground

LoopTold(p) == [isForeground EXCEPT ![p] = TRUE]

\* ... and the flag of the loop, which wakes it.
StartsLoop(p) ==
  /\ At(p, "returning", "here")
  /\ isForeground' = LoopTold(p)
  /\ UNCHANGED <<pc, backgrounded, suspended, paused, sessionFlags, up, broken,
                 settled>>

\* What a main thread goes on with once it has begun.
MainThread(p) ==
  StopsLoop(p) \/ PausesEmulation(p) \/ CancelsSession(p) \/ StartsLoop(p)

(***************************************************************************)
(* The network.                                                            *)
(***************************************************************************)
LinkFails ==
  /\ ~settled /\ Connected
  /\ broken' = TRUE
  /\ UNCHANGED <<pc, app, phoneFlags, paused, sessionFlags, up, settled>>

Settles ==
  /\ ~settled
  /\ settled' = TRUE
  /\ UNCHANGED <<pc, app, phoneFlags, paused, sessionFlags, up, broken>>

(***************************************************************************)
(* The specification.                                                      *)
(***************************************************************************)
\* loadROM has started the emulation thread on both phones.
Init ==
  /\ pc = [p \in Phone |-> "loop"]
  /\ app = [p \in Phone |-> "here"]
  /\ backgrounded = [p \in Phone |-> FALSE]
  /\ isForeground = [p \in Phone |-> TRUE]
  /\ paused = [p \in Phone |-> FALSE]
  /\ registered = [p \in Phone |-> FALSE]
  /\ isCancelled = [p \in Phone |-> FALSE]
  /\ up = [p \in Phone |-> FALSE]
  /\ broken = FALSE
  /\ settled = FALSE
  /\ suspended = [p \in Phone |-> FALSE]

Next ==
  \/ \E p \in Phone :
       \/ EmulationThread(p) \/ MainThread(p) \/ SessionFails(p)
       \/ EntersBackground(p) \/ Suspends(p) \/ EntersForeground(p)
  \/ Meet \/ LinkFails \/ Settles

\* Threads are scheduled while their process is not suspended, iOS suspends what
\* stays in the background, and two phones that search again and again find each
\* other.  Nothing makes an app leave or return.
Fairness ==
  /\ \A p \in Phone : /\ SF_vars(EmulationThread(p)) /\ WF_vars(MainThread(p))
                      /\ WF_vars(Suspends(p))
  /\ SF_vars(Meet)

Spec == Init /\ [][Next]_vars /\ Fairness

(***************************************************************************)
(* Properties.                                                             *)
(***************************************************************************)
\* Once appDidEnterBackground is past pauseEmulation nothing is drawn until the
\* app returns: step checks the flag under the lock that pauseEmulation takes.
NoDrawingAway ==
  \A p \in Phone :
    app[p] \in {"cancelling", "away"} => pc[p] # "drawing"

\* A session that outlives the absence of its phone is not left with a paused
\* emulator: otherwise all its frames would silently not run.
NoFrozenPlay ==
  \A p \in Phone :
    app[p] = "here" /\ pc[p] \in Playing /\ up[p] => ~paused[p]

\* A session that was cancelled, before it had a transport or after, does not
\* keep an open connection: cancel() and activate() agree under one lock.
CancelTakesHold ==
  \A p \in Phone : isCancelled[p] /\ pc[p] \in InSession => ~up[p]

\* When both apps stay in the foreground and nothing fails any more, the two
\* phones come to play together, with running emulators, and go on playing.
Together == Connected /\ \A p \in Phone : pc[p] \in Playing /\ ~paused[p]
Reunites ==
  <>[](settled /\ \A p \in Phone : app[p] = "here") => <>[]Together

\* A phone in the foreground whose peer stays away is not held in the old
\* session for ever.
Releases ==
  \A p \in Phone :
    app[p] = "away" ~> \/ app[p] # "away" \/ app[Peer(p)] # "here"
                       \/ pc[Peer(p)] \notin InSession

\* The live connection of a phone that leaves is closed before iOS suspends it.
ClosedBeforeSuspension ==
  \A p \in Phone : suspended[p] => ~(up[p] /\ pc[p] \in InSession)
=============================================================================
