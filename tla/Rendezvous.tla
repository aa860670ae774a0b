------------------------------ MODULE Rendezvous ------------------------------
(***************************************************************************)
(* How the two phones come to share a connection: BonjourTransport's       *)
(* acceptOne on the controller and connect on the display, attempt after   *)
(* attempt.                                                                *)
(*                                                                         *)
(* An attempt waits on a SynchronousResult of its own for a connection     *)
(* that the callbacks of the listener, the browser and the connections     *)
(* resolve on another queue.  An attempt that times out leaves: its        *)
(* connection and callbacks stay, since the connection holds the callback  *)
(* and the callback the connection.  What such a connection does later is  *)
(* the subject of this module.                                             *)
(*                                                                         *)
(* Until the network settles, connections fail, advertisements are stale,  *)
(* and waits end when they like.                                           *)
(***************************************************************************)
CONSTANTS Links   \* connections there can be at a time

None == "none"
Failed == "failed"

ASSUME LinksAssumption == {None, Failed} \cap Links = {}

Phone == {"controller", "display"}
Other(p) == IF p = "controller" THEN "display" ELSE "controller"

VARIABLES
  phase,    \* "idle" between attempts, "waiting" for a connection, "session"
  result,   \* what the attempt's SynchronousResult holds
  chosen,   \* hasAcceptedConnection, isConnecting
  end,      \* the state of each phone's end of a connection
  owner,    \* who is told, or holds it: the attempt, its session, or an
            \* attempt that timed out or failed
  settled   \* the network no longer fails

vars == <<phase, result, chosen, end, owner, settled>>

Pair(c, d) == [p \in Phone |-> IF p = "controller" THEN c ELSE d]

EndState == {None, "offered", "starting", "waiting", "ready", "closed"}
Owner == {None, "attempt", "session", "timedOut", "failed"}

Listening == phase["controller"] = "waiting"

\* The links with an end of this phone in these hands.
Held(p, hands) == {l \in Links : owner[l][p] \in hands}

(***************************************************************************)
(* Ends of connections.                                                    *)
(***************************************************************************)
\* Mutant: all attempts share one result.
ToldLate(l, p) == owner[l][p] \in {"attempt", "timedOut"} /\ result[p] = None

\* Somebody still waits for connection l of phone p.
Told(l, p) == owner[l][p] = "attempt" /\ result[p] = None

\* Mutant: a transport that is dropped does not close.
NeverDropped(l, p) == FALSE

\* The result of its attempt is a failure already: resolve returns.
Dropped(l, p) == owner[l][p] \in {"attempt", "failed"} /\ ~Told(l, p)

\* Connection l becomes ready.  Its attempt's result takes the new transport; a
\* transport that is dropped closes in its deinit.  An attempt that timed out
\* has an empty result, which keeps the transport for ever.
BecomesReady(l, p, ends) ==
  /\ end' = [end EXCEPT ![l] =
       [ends EXCEPT ![p] = IF Dropped(l, p) THEN "closed" ELSE "ready"]]
  /\ result' = IF Told(l, p) THEN [result EXCEPT ![p] = l] ELSE result

\* The attempt that waits for connection l fails with it.
FailsWith(l) ==
  [p \in Phone |-> IF Told(l, p) THEN Failed ELSE result[p]]

\* Mutant: the listener is not cancelled.
ListenerStays(ends) == ends

\* Connections that are on their way to the listener when it stops: those it was
\* offered are closed, the others wait for a change of the network's paths.
WithoutListener(ends) ==
  CASE ends["controller"] = "offered" -> [ends EXCEPT !["controller"] = "closed"]
    [] ends = Pair(None, "starting")
         -> [ends EXCEPT !["display"] = "waiting"]
    [] OTHER -> ends

\* The end of phone p's search, and of its variables.
StopsSearching(p) ==
  /\ result' = [result EXCEPT ![p] = None]
  /\ chosen' = [chosen EXCEPT ![p] = FALSE]
  /\ end' = IF p = "controller" THEN [l \in Links |-> WithoutListener(end[l])] ELSE end

\* Nobody holds this connection or is told of it any more, and it carries
\* nothing: a new connection may take its place in the model.
Dead(l) ==
  /\ \A p \in Phone : owner[l][p] \notin {"attempt", "session"}
  /\ \A p \in Phone : end[l][p] \notin {"offered", "starting"}

(***************************************************************************)
(* Attempts.                                                               *)
(***************************************************************************)
Begins(p) ==
  /\ phase[p] = "idle"
  /\ phase' = [phase EXCEPT ![p] = "waiting"]
  /\ UNCHANGED <<result, chosen, end, owner, settled>>

\* The guards of newConnectionHandler and browseResultsChangedHandler.
Free(p) == ~chosen[p]

\* The display's browser reports the service, perhaps one that is gone.
Finds(l) ==
  /\ phase["display"] = "waiting" /\ Free("display")
  /\ Dead(l)
  /\ Listening \/ ~settled
  /\ chosen' = [chosen EXCEPT !["display"] = TRUE]
  /\ end' = [end EXCEPT ![l] =
       Pair(None, IF Listening THEN "starting" ELSE "waiting")]
  /\ owner' = [owner EXCEPT ![l] = Pair(None, "attempt")]
  /\ UNCHANGED <<phase, result, settled>>

\* The connection reaches the listening controller, whoever still waits for it.
Reaches(l) ==
  /\ end[l] = Pair(None, "starting")
  /\ Listening
  /\ BecomesReady(l, "display", [end[l] EXCEPT !["controller"] = "offered"])
  /\ UNCHANGED <<phase, chosen, owner, settled>>

\* newConnectionHandler starts the first connection and cancels the others.
Accepts(l) ==
  /\ end[l]["controller"] = "offered"
  /\ Listening
  /\ IF Free("controller")
     THEN /\ end' = [end EXCEPT ![l]["controller"] = "starting"]
          /\ owner' = [owner EXCEPT ![l]["controller"] = "attempt"]
     ELSE /\ end' = [end EXCEPT ![l]["controller"] = "closed"]
          /\ UNCHANGED owner
  /\ chosen' = [chosen EXCEPT !["controller"] = TRUE]
  /\ UNCHANGED <<phase, result, settled>>

\* The accepted connection is ready, or has failed since the display closed it.
IsReady(l) ==
  /\ end[l]["controller"] = "starting"
  /\ IF end[l]["display"] = "closed"
     THEN /\ end' = [end EXCEPT ![l]["controller"] = "closed"]
          /\ result' = FailsWith(l)
     ELSE BecomesReady(l, "controller", end[l])
  /\ UNCHANGED <<phase, chosen, owner, settled>>

\* wait returns the transport, and the listener or browser is cancelled.
Takes(p) ==
  /\ phase[p] = "waiting" /\ result[p] \in Links
  /\ phase' = [phase EXCEPT ![p] = "session"]
  /\ owner' = [owner EXCEPT ![result[p]][p] = "session"]
  /\ StopsSearching(p)
  /\ UNCHANGED settled

\* wait throws: what the attempt was told of is now told to no one.
Leaves(p, hands) ==
  /\ phase' = [phase EXCEPT ![p] = "idle"]
  /\ owner' = [l \in Links |->
       IF owner[l][p] # "attempt" THEN owner[l]
       ELSE [owner[l] EXCEPT ![p] = IF end[l][p] = "closed" THEN None ELSE hands]]
  /\ StopsSearching(p)
  /\ UNCHANGED settled

Throws(p) == phase[p] = "waiting" /\ result[p] = Failed /\ Leaves(p, "failed")

\* A connection is on its way to phone p, or the other phone is about to search.
Coming(p) ==
  IF p = "controller"
  THEN \/ phase["display"] = "idle" \/ (phase["display"] = "waiting" /\ Free("display"))
       \/ \E l \in Links : \/ end[l]["display"] = "starting"
                          \/ end[l]["controller"] \in {"offered", "starting"}
  ELSE IF Free("display") THEN phase["controller"] # "session"
       ELSE \E l \in Held("display", {"attempt"}) : end[l]["display"] # "waiting"

\* A wait of 120 seconds is long next to the second between two attempts and the
\* time it takes to connect: once the network has settled, it ends only when
\* nothing is coming.
TimesOut(p) ==
  /\ phase[p] = "waiting" /\ result[p] = None
  /\ ~settled \/ ~Coming(p)
  /\ Leaves(p, "timedOut")

(***************************************************************************)
(* Sessions: they begin by exchanging hello messages.                      *)
(***************************************************************************)
Together(l) == \A p \in Phone : phase[p] = "session" /\ owner[l][p] = "session"

EndsSession(p) ==
  \E l \in Held(p, {"session"}) :
    /\ phase' = [phase EXCEPT ![p] = "idle"]
    /\ end' = [end EXCEPT ![l][p] = "closed"]
    /\ owner' = [owner EXCEPT ![l][p] = None]
    /\ UNCHANGED <<result, chosen, settled>>

SeesClosed(p) ==
  /\ phase[p] = "session"
  /\ \E l \in Held(p, {"session"}) : end[l][Other(p)] = "closed" \/ end[l][p] = "closed"
  /\ EndsSession(p)

\* Mutant: a receive waits for ever.
NeverUnanswered(p) == FALSE

\* Whether the peer of phone p's session is one that will not answer.
Unanswered(p) ==
  \E l \in Held(p, {"session"}) : owner[l][Other(p)] \notin {"attempt", "session"}
                                  /\ end[l][Other(p)] \notin {"offered"}


\* A receive times out.
GetsNoAnswer(p) ==
  /\ phase[p] = "session"
  /\ ~settled \/ Unanswered(p)
  /\ EndsSession(p)

(***************************************************************************)
(* The network.                                                            *)
(***************************************************************************)
LinkFails(l) ==
  /\ ~settled
  /\ \E p \in Phone : end[l][p] \notin {None, "closed"}
  /\ end' = [end EXCEPT ![l] =
       [p \in Phone |-> IF @[p] = None THEN None ELSE "closed"]]
  /\ result' = FailsWith(l)
  /\ owner' = [owner EXCEPT ![l] =
       [p \in Phone |-> IF @[p] \in {"timedOut", "failed"} THEN None ELSE @[p]]]
  /\ UNCHANGED <<phase, chosen, settled>>

\* The listener or the browser fails.
SearchFails(p) ==
  /\ ~settled
  /\ phase[p] = "waiting" /\ result[p] = None
  /\ result' = [result EXCEPT ![p] = Failed]
  /\ UNCHANGED <<phase, chosen, end, owner, settled>>

\* A change of paths wakes a connection that found nobody.
PathChanges(l) ==
  /\ ~settled
  /\ end[l] = Pair(None, "waiting")
  /\ Listening
  /\ end' = [end EXCEPT ![l]["display"] = "starting"]
  /\ UNCHANGED <<phase, result, chosen, owner, settled>>

Settles ==
  /\ ~settled
  /\ settled' = TRUE
  /\ UNCHANGED <<phase, result, chosen, end, owner>>

(***************************************************************************)
(* The specification.                                                      *)
(***************************************************************************)
Init ==
  /\ phase = [p \in Phone |-> "idle"]
  /\ result = [p \in Phone |-> None]
  /\ chosen = [p \in Phone |-> FALSE]
  /\ end = [l \in Links |-> [p \in Phone |-> None]]
  /\ owner = [l \in Links |-> [p \in Phone |-> None]]
  /\ settled = FALSE

Calls(p) == Begins(p) \/ Takes(p) \/ Throws(p) \/ TimesOut(p)
              \/ SeesClosed(p) \/ GetsNoAnswer(p)
Callbacks(l) == Finds(l) \/ Reaches(l) \/ Accepts(l) \/ IsReady(l)
Faults == (\E l \in Links : LinkFails(l) \/ PathChanges(l))
            \/ \E p \in Phone : SearchFails(p)

Next ==
  \/ \E p \in Phone : Calls(p)
  \/ \E l \in Links : Callbacks(l)
  \/ Faults \/ Settles

\* The threads and queues run, waits end, and the network settles at last.
Fairness ==
  /\ \A p \in Phone : WF_vars(Begins(p)) /\ WF_vars(Takes(p)) /\ WF_vars(Throws(p))
                      /\ WF_vars(TimesOut(p)) /\ WF_vars(SeesClosed(p))
                      /\ WF_vars(GetsNoAnswer(p))
  /\ WF_vars(\E l \in Links : Finds(l))
  /\ \A l \in Links : WF_vars(Reaches(l)) /\ WF_vars(Accepts(l)) /\ WF_vars(IsReady(l))
  /\ WF_vars(Settles)

Spec == Init /\ [][Next]_vars /\ Fairness

(***************************************************************************)
(* Properties.                                                             *)
(***************************************************************************)
\* Types; and a connection is offered to a listening controller only.
TypeOK ==
  /\ phase \in [Phone -> {"idle", "waiting", "session"}]
  /\ result \in [Phone -> Links \cup {None, Failed}]
  /\ chosen \in [Phone -> BOOLEAN]
  /\ end \in [Links -> [Phone -> EndState]]
  /\ owner \in [Links -> [Phone -> Owner]]
  /\ settled \in BOOLEAN
  /\ \A l \in Links : end[l]["controller"] = "offered" => Listening

\* No attempt opens two connections, and none is left open by a session or an
\* attempt that failed: of all ends that can still carry data, at most one is the
\* running attempt's or session's, and the others were left by time-outs.
OnlyTimeoutsOrphan ==
  \A p \in Phone :
    /\ \A l, k \in Held(p, {"attempt", "session"}) : l = k
    /\ \A l \in Links : end[l][p] = "ready" => owner[l][p] \notin {None, "failed"}

\* A session begins only over a connection whose attempt got it: a late answer to
\* an attempt that is over never replaces the connection of another.
LateAnswersAreIgnored ==
  \A p \in Phone :
    /\ phase[p] = "session" <=> Held(p, {"session"}) # {}
    /\ phase[p] # "waiting" => Held(p, {"attempt"}) = {}
    /\ result[p] \in Links /\ phase[p] = "waiting" => owner[result[p]][p] = "attempt"

\* Whatever was left behind by attempts and sessions before the network settled,
\* the two phones come to share a connection and keep it.
Reunites == <>[](\E l \in Links : Together(l))
=============================================================================
