-------------------------- MODULE LockstepProgress --------------------------
(***************************************************************************)
(* Whether a session gets on: what its threads wait for, how much they     *)
(* have left to do, and how a session ends in which nothing goes wrong.    *)
(* Together these say that a session with a frame limit comes to its end   *)
(* on both phones in every schedule: some thread can always go on, only a  *)
(* bounded number of steps can be taken, and no end but a passed proof is  *)
(* reached.                                                                *)
(***************************************************************************)
EXTENDS LockstepSession

(***************************************************************************)
(* Waiting.                                                                *)
(***************************************************************************)
\* The emulation thread of a phone is in a call that neither returns nor
\* throws: a send on full buffers, a receive from an empty connection, or a
\* wait for the inbox.
Waits(p) ==
  \/ Sending(p) /\ ~SendFails(p) /\ Len(wire[Peer(p)]) >= Capacity
  \/ /\ Receiving(p) /\ Offered(p) = <<>>
     /\ IF UsesInbox(p) THEN ~terminalError /\ ~isStopped
        ELSE ~ReceiveFails(p)

\* The reader thread waits for the connection.
ReaderWaits ==
  /\ ~isStopped
  /\ wire["controller"] = <<>> /\ ~ReceiveFails("controller")

\* While a session is not over on both phones, somebody goes on: the phones
\* never wait for each other, or for a phone that has ended, with the reader
\* thread waiting too, however small the window and the buffers are.  A network
\* that fails is taken to tell (see ReceiveFails): over a TCP connection that dies
\* silently a receive waits for ever.
NeverStuck ==
  (\E p \in Phone : pc[p] # "over")
    => \/ \E p \in Phone : pc[p] # "over" /\ ~Waits(p)
       \/ reading /\ ~ReaderWaits

(***************************************************************************)
(* Work.                                                                   *)
(***************************************************************************)
\* What a frame may cost, in steps of all threads together.
FrameCost == 7

\* The steps that may follow from where each emulation thread is, if the
\* controller begins no other frame.  A send is worth the steps its message
\* may cause.
ControllerRank ==
  [activate |-> 30, recvHello |-> 29, sendHello |-> 28, sendSnapshot |-> 22,
   recvReady |-> 16, sendStart |-> 15, step |-> 9, lockstep |-> 8, drain |-> 8,
   sendFinish |-> 7, recvFinishAck |-> 1, over |-> 0]

DisplayRank ==
  [activate |-> 11, sendHello |-> 10, recvHello |-> 7, recvSnapshot |-> 6,
   sendReady |-> 5, sendFailure |-> 3, recvStart |-> 2, step |-> 5,
   sendAck |-> 4, recvFrame |-> 1, sendPassed |-> 3, sendFailed |-> 3,
   over |-> 0]

\* Steps the main thread of a phone has left.
Leaving == [here |-> 2, pausing |-> 1, away |-> 0]

\* What the messages under way may still cause, what the threads are worth,
\* and what may yet happen once: the app leaves, the network fails, the reader
\* thread ends.
Work ==
  ControllerRank[pc["controller"]] + DisplayRank[pc["display"]]
    + 5 * Len(wire["display"]) + 2 * Len(wire["controller"]) + Len(messages)
    + Leaving[app["controller"]] + Leaving[app["display"]]
    + (IF broken THEN 0 ELSE 1) + (IF reading THEN 1 ELSE 0)

\* No thread spins, no message is handled twice and nothing is retried for
\* ever: every step uses up work, and only a new frame brings some.  A session
\* of k frames takes at most 46 + 7 k steps.
WorkRunsOut == [][Work' < Work + FrameCost * (frame' - frame)]_vars

(***************************************************************************)
(* Sessions in which nothing goes wrong.                                   *)
(***************************************************************************)
\* Nothing fails, both phones have the same arguments and the same game.
Faultless ==
  /\ Faulty = {} /\ Leavers = {} /\ ~LinkMayFail /\ ~GivesUp
  /\ Interval["controller"] = Interval["display"]
  /\ Limit["controller"] = Limit["display"]
  /\ game["controller"] = game["display"]

\* Then neither phone reports anything but a passed proof: no schedule of the
\* threads makes a phone reject a message, miss a digest, take the end of the
\* session for an error or see a difference that is not there.
NoFalseAlarm ==
  Faultless => \A p \in Phone : outcome[p] \in {"none", "passed"}
=============================================================================
