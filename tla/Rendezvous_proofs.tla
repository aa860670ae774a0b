--------------------------- MODULE Rendezvous_proofs ---------------------------
(***************************************************************************)
(* Proofs about Rendezvous, for every number of connections and any number *)
(* of attempts.                                                            *)
(***************************************************************************)
EXTENDS Rendezvous, TLAPS

Types ==
  /\ phase \in [Phone -> {"idle", "waiting", "session"}]
  /\ result \in [Phone -> Links \cup {None, Failed}]
  /\ chosen \in [Phone -> BOOLEAN]
  /\ end \in [Links -> [Phone -> EndState]]
  /\ owner \in [Links -> [Phone -> Owner]]
  /\ settled \in BOOLEAN

\* Connections are offered to a listening controller, and nobody's before.
Offers ==
  \A l \in Links :
    /\ end[l]["controller"] = "offered" => Listening
    /\ end[l]["controller"] \in {None, "offered"} => owner[l]["controller"] = None
    /\ end[l]["display"] # "offered"

\* Between the phases of an attempt its variables are reset.
Phases ==
  \A p \in Phone :
    /\ phase[p] # "waiting" => result[p] = None /\ ~chosen[p]
    /\ result[p] \in Links => owner[result[p]][p] = "attempt"

Busy(hands) == hands \in {"attempt", "session"}

\* Whose an end can be, in each phase of its phone.
Owners ==
  \A p \in Phone : \A l \in Links :
    /\ owner[l][p] = "attempt" => phase[p] = "waiting" /\ chosen[p]
    /\ owner[l][p] = "session" => phase[p] = "session"
    /\ \A k \in Links : Busy(owner[l][p]) /\ Busy(owner[k][p]) => l = k

\* What is known of the owner of an end that is, or may become, ready.
Opened ==
  \A p \in Phone : \A l \in Links :
    /\ end[l][p] \in {"starting", "waiting"} => owner[l][p] # None
    /\ end[l][p] = "ready" => owner[l][p] \notin {None, "failed"}
    /\ end[l][p] = "ready" /\ owner[l][p] = "attempt" => result[p] = l

\* A session has a connection.
Sessions ==
  \A p \in Phone : phase[p] = "session" => \E l \in Links : owner[l][p] = "session"

IInv == Types /\ Offers /\ Phases /\ Owners /\ Opened /\ Sessions

LEMMA InvInit == Init => IInv
<1> SUFFICES ASSUME Init PROVE IInv
  OBVIOUS
<1>1. Types
  BY DEF Init, Types, EndState, Owner
<1>2. Offers /\ Opened
  BY DEF Init, Offers, Opened, Phone, None
<1>3. Phases /\ Owners /\ Sessions
  BY LinksAssumption DEF Init, Phases, Owners, Busy, Sessions, None
<1>4. QED
  BY <1>1, <1>2, <1>3 DEF IInv

LEMMA BeginsKeeps ==
  ASSUME IInv, NEW q \in Phone, Begins(q)
  PROVE  IInv'
<1>1. Types'
  BY DEF IInv, Begins, Types
<1>2. Offers' /\ Phases'
  BY DEF IInv, Begins, Types, Offers, Phases, Listening, Phone
<1>3. Owners' /\ Opened' /\ Sessions'
  BY DEF IInv, Begins, Types, Owners, Opened, Sessions
<1>4. QED
  BY <1>1, <1>2, <1>3 DEF IInv

LEMMA FindsKeeps ==
  ASSUME IInv, NEW k \in Links, Finds(k)
  PROVE  IInv'
<1> DEFINE mine == IF Listening THEN "starting" ELSE "waiting"
<1>1. /\ end' = [end EXCEPT ![k] = Pair(None, mine)]
      /\ owner' = [owner EXCEPT ![k] = Pair(None, "attempt")]
      /\ chosen' = [chosen EXCEPT !["display"] = TRUE]
      /\ phase' = phase /\ result' = result /\ settled' = settled
  BY DEF Finds
<1>2. /\ phase["display"] = "waiting" /\ ~chosen["display"]
      /\ \A p \in Phone : owner[k][p] \notin {"attempt", "session"}
  BY DEF Finds, Free, Dead
<1>3. /\ Pair(None, mine) \in [Phone -> EndState]
      /\ Pair(None, "attempt") \in [Phone -> Owner]
      /\ Pair(None, mine)["controller"] = None /\ Pair(None, mine)["display"] = mine
      /\ Pair(None, "attempt")["controller"] = None
      /\ Pair(None, "attempt")["display"] = "attempt"
  BY DEF Pair, Phone, EndState, Owner
<1>4. mine \in {"starting", "waiting"}
  OBVIOUS
<1> HIDE DEF mine
<1>5. Types'
  BY <1>1, <1>3 DEF IInv, Types
<1>6. Offers'
  BY <1>1, <1>3, <1>4 DEF IInv, Types, Offers, Listening, Phone, None
<1>7. Phases'
  BY <1>1, <1>2, <1>3 DEF IInv, Types, Phases, Phone
<1>8. Owners'
  BY <1>1, <1>2, <1>3 DEF IInv, Types, Owners, Busy, Phone, None
<1>9. Opened'
  BY <1>1, <1>2, <1>3, <1>4 DEF IInv, Types, Opened, Phone, None
<1>10. Sessions'
  BY <1>1, <1>2, <1>3 DEF IInv, Types, Sessions, Phone
<1>11. QED
  BY <1>5, <1>6, <1>7, <1>8, <1>9, <1>10 DEF IInv

\* An end that becomes ready goes to the attempt that waits for it, to nobody if
\* that attempt timed out, and is closed if the attempt failed.
LEMMA ReadyKeeps ==
  ASSUME IInv, NEW l \in Links, NEW q \in Phone, NEW ends \in [Phone -> EndState],
         end[l][q] = "starting",
         \A p \in Phone : p = q \/ ends[p] = end[l][p]
                         \/ (p = "controller" /\ end[l][p] = None
                              /\ ends[p] = "offered" /\ Listening),
         BecomesReady(l, q, ends), UNCHANGED <<phase, chosen, owner, settled>>
  PROVE  IInv'
<1> DEFINE mine == IF Dropped(l, q) THEN "closed" ELSE "ready"
<1>1. /\ end' = [end EXCEPT ![l] = [ends EXCEPT ![q] = mine]]
      /\ result' = IF Told(l, q) THEN [result EXCEPT ![q] = l] ELSE result
      /\ phase' = phase /\ chosen' = chosen /\ owner' = owner /\ settled' = settled
  BY DEF BecomesReady
<1>2. /\ owner[l][q] # None
      /\ mine \in {"closed", "ready"}
      /\ mine = "ready" => owner[l][q] # "failed" /\ (owner[l][q] = "attempt" => Told(l, q))
  BY DEF IInv, Opened, Dropped, Told
<1>3. Told(l, q) => owner[l][q] = "attempt" /\ result[q] = None
  BY DEF Told
<1> HIDE DEF mine
<1>4. [ends EXCEPT ![q] = mine] \in [Phone -> EndState]
  BY <1>2 DEF EndState
<1>5. Types'
  BY <1>1, <1>4 DEF IInv, Types
<1>6. Offers'
  BY <1>1, <1>2 DEF IInv, Types, Offers, Listening, Phone, None
<1>7. Phases'
  BY <1>1, <1>3 DEF IInv, Types, Phases, Owners
<1>8. Owners' /\ Sessions'
  BY <1>1 DEF IInv, Types, Owners, Busy, Sessions
<1>9. Opened'
  <2> SUFFICES ASSUME NEW p \in Phone, NEW k \in Links
               PROVE  /\ end'[k][p] \in {"starting", "waiting"} => owner[k][p] # None
                      /\ end'[k][p] = "ready" => owner[k][p] \notin {None, "failed"}
                      /\ end'[k][p] = "ready" /\ owner[k][p] = "attempt"
                           => result'[p] = k
    BY <1>1 DEF Opened
  <2>1. CASE k = l /\ p = q
    BY <1>1, <1>2, <1>3, <2>1 DEF IInv, Types
  <2>2. CASE k = l /\ p # q
    BY <1>1, <2>2 DEF IInv, Types, Opened, None
  <2>3. CASE k # l
    <3>1. end'[k] = end[k]
      BY <1>1, <2>3 DEF IInv, Types
    <3>2. end[k][p] = "ready" /\ owner[k][p] = "attempt" => result'[p] = k
      <4>1. CASE Told(l, q) /\ p = q
        BY <1>1, <1>3, <2>3, <4>1 DEF IInv, Owners, Busy
      <4>2. CASE ~(Told(l, q) /\ p = q)
        BY <1>1, <4>2 DEF IInv, Types, Opened
      <4>3. QED
        BY <4>1, <4>2
    <3>3. QED
      BY <3>1, <3>2 DEF IInv, Opened
  <2>4. QED
    BY <2>1, <2>2, <2>3
<1>10. QED
  BY <1>5, <1>6, <1>7, <1>8, <1>9 DEF IInv

LEMMA ReachesKeeps ==
  ASSUME IInv, NEW l \in Links, Reaches(l)
  PROVE  IInv'
<1> DEFINE ends == [end[l] EXCEPT !["controller"] = "offered"]
<1>1. ends \in [Phone -> EndState]
  BY DEF IInv, Types, EndState
<1>2. end[l]["controller"] = None /\ end[l]["display"] = "starting" /\ Listening
  BY DEF Reaches, Pair, Phone
<1>3. ends["display"] = end[l]["display"] /\ ends["controller"] = "offered"
  BY DEF IInv, Types, Phone
<1>4. BecomesReady(l, "display", ends) /\ UNCHANGED <<phase, chosen, owner, settled>>
  BY DEF Reaches
<1> HIDE DEF ends
<1>5. QED
  BY <1>1, <1>2, <1>3, <1>4, ReadyKeeps DEF Phone

\* The owner of an end changes to the controller's attempt, or the end is closed.
LEMMA AcceptsKeeps ==
  ASSUME IInv, NEW l \in Links, Accepts(l)
  PROVE  IInv'
<1>1. /\ end[l]["controller"] = "offered" /\ phase["controller"] = "waiting"
      /\ owner[l]["controller"] = None
      /\ chosen' = [chosen EXCEPT !["controller"] = TRUE]
      /\ phase' = phase /\ result' = result /\ settled' = settled
  BY DEF Accepts, Listening, IInv, Offers
<1>2. CASE Free("controller")
  <2>1. /\ end' = [end EXCEPT ![l]["controller"] = "starting"]
        /\ owner' = [owner EXCEPT ![l]["controller"] = "attempt"]
        /\ ~chosen["controller"]
    BY <1>2 DEF Accepts, Free
  <2>2. Types'
    BY <1>1, <2>1 DEF IInv, Types, EndState, Owner, Phone
  <2>3. Offers'
    BY <1>1, <2>1 DEF IInv, Types, Offers, Listening, Phone, None
  <2>4. Phases' /\ Sessions'
    BY <1>1, <2>1 DEF IInv, Types, Phases, Sessions, Phone, None
  <2>5. Owners'
    BY <1>1, <2>1 DEF IInv, Types, Owners, Busy, Phone, None
  <2>6. Opened'
    BY <1>1, <2>1 DEF IInv, Types, Opened, Phone, None
  <2>7. QED
    BY <2>2, <2>3, <2>4, <2>5, <2>6 DEF IInv
<1>3. CASE ~Free("controller")
  <2>1. end' = [end EXCEPT ![l]["controller"] = "closed"] /\ owner' = owner
        /\ chosen["controller"]
    BY <1>3 DEF Accepts, Free
  <2>2. Types'
    BY <1>1, <2>1 DEF IInv, Types, EndState, Phone
  <2>3. Offers'
    BY <1>1, <2>1 DEF IInv, Types, Offers, Listening, Phone, None
  <2>4. Phases' /\ Sessions' /\ Owners'
    BY <1>1, <2>1 DEF IInv, Types, Phases, Sessions, Owners, Busy, Phone
  <2>5. Opened'
    BY <1>1, <2>1 DEF IInv, Types, Opened, Phone, None
  <2>6. QED
    BY <2>2, <2>3, <2>4, <2>5 DEF IInv
<1>4. QED
  BY <1>2, <1>3

\* The attempts that wait for a connection fail with it; its ends are closed.
LEMMA ClosingKeeps ==
  ASSUME IInv, NEW l \in Links, NEW ends \in [Phone -> EndState],
         NEW hands \in [Phone -> Owner],
         \A p \in Phone : ends[p] \in {end[l][p], "closed"},
         \A p \in Phone : ends[p] = end[l][p] => ends[p] \in {None, "closed"}
                                                  \/ hands[p] = owner[l][p],
         \A p \in Phone : /\ Busy(hands[p]) \/ Busy(owner[l][p]) => hands[p] = owner[l][p]
                          /\ hands[p] \in {None, owner[l][p]},
         end' = [end EXCEPT ![l] = ends], owner' = [owner EXCEPT ![l] = hands],
         result' = FailsWith(l), UNCHANGED <<phase, chosen, settled>>
  PROVE  IInv'
<1>1. /\ \A p \in Phone : result'[p] \in {result[p], Failed}
      /\ \A p \in Phone : result'[p] # result[p] => result[p] = None /\ owner[l][p] = "attempt"
      /\ result' \in [Phone -> Links \cup {None, Failed}]
  BY DEF FailsWith, Told, IInv, Types
<1>2. Types'
  BY <1>1 DEF IInv, Types
<1>3. Offers'
  BY DEF IInv, Types, Offers, Listening, Phone, None
<1>4. Owners'
  BY DEF IInv, Types, Owners, Busy
<1>5. Sessions'
  BY DEF IInv, Types, Sessions, Busy
<1>6. Phases'
  BY <1>1, LinksAssumption DEF IInv, Types, Phases, Owners, Busy
<1>7. Opened'
  <2> SUFFICES ASSUME NEW p \in Phone, NEW k \in Links
               PROVE  /\ end'[k][p] \in {"starting", "waiting"} => owner'[k][p] # None
                      /\ end'[k][p] = "ready" => owner'[k][p] \notin {None, "failed"}
                      /\ end'[k][p] = "ready" /\ owner'[k][p] = "attempt"
                           => result'[p] = k
    BY DEF Opened
  <2>1. CASE k = l
    <3>1. end'[k][p] = ends[p] /\ owner'[k][p] = hands[p]
      BY <2>1 DEF IInv, Types
    <3>2. CASE ends[p] = "closed"
      BY <3>1, <3>2
    <3>3. CASE ends[p] # "closed" /\ ends[p] = end[l][p]
      <4>1. CASE ends[p] = None
        BY <3>1, <4>1 DEF None
      <4>2. CASE ends[p] # None
        <5>1. hands[p] = owner[l][p]
          BY <3>3, <4>2
        <5>2. end[l][p] = "ready" /\ owner[l][p] = "attempt" => result'[p] = l
          BY <1>1, LinksAssumption DEF IInv, Opened
        <5>3. QED
          BY <2>1, <3>1, <3>3, <5>1, <5>2 DEF IInv, Opened
      <4>3. QED
        BY <4>1, <4>2
    <3>4. QED
      BY <3>2, <3>3
  <2>2. CASE k # l
    <3>1. end'[k][p] = end[k][p] /\ owner'[k][p] = owner[k][p]
      BY <2>2 DEF IInv, Types
    <3>2. owner[k][p] = "attempt" => owner[l][p] # "attempt"
      BY <2>2 DEF IInv, Owners, Busy
    <3>3. owner[k][p] = "attempt" => result'[p] = result[p]
      BY <1>1, <3>2
    <3>4. QED
      BY <3>1, <3>3 DEF IInv, Opened
  <2>3. QED
    BY <2>1, <2>2
<1>8. QED
  BY <1>2, <1>3, <1>4, <1>5, <1>6, <1>7 DEF IInv

LEMMA IsReadyKeeps ==
  ASSUME IInv, NEW l \in Links, IsReady(l)
  PROVE  IInv'
<1>1. end[l]["controller"] = "starting" /\ "controller" \in Phone
      /\ end[l] \in [Phone -> EndState] /\ owner[l] \in [Phone -> Owner]
  BY DEF IsReady, Phone, IInv, Types
<1>2. CASE end[l]["display"] = "closed"
  <2> DEFINE ends == [end[l] EXCEPT !["controller"] = "closed"]
  <2>1. ends \in [Phone -> EndState] /\ \A p \in Phone : ends[p] \in {end[l][p], "closed"}
    BY <1>1 DEF EndState
  <2>2. end' = [end EXCEPT ![l] = ends] /\ result' = FailsWith(l)
        /\ UNCHANGED <<phase, chosen, settled>>
        /\ owner' = [owner EXCEPT ![l] = owner[l]]
    BY <1>2 DEF IsReady, IInv, Types
  <2> HIDE DEF ends
  <2>3. QED
    BY <1>1, <2>1, <2>2, ClosingKeeps
<1>3. CASE end[l]["display"] # "closed"
  <2>1. BecomesReady(l, "controller", end[l])
        /\ UNCHANGED <<phase, chosen, owner, settled>>
    BY <1>3 DEF IsReady
  <2>2. QED
    BY <1>1, <2>1, ReadyKeeps
<1>4. QED
  BY <1>2, <1>3

LEMMA LinkFailsKeeps ==
  ASSUME IInv, NEW l \in Links, LinkFails(l)
  PROVE  IInv'
<1> DEFINE ends == [p \in Phone |-> IF end[l][p] = None THEN None ELSE "closed"]
<1> DEFINE hands == [p \in Phone |-> IF owner[l][p] \in {"timedOut", "failed"} THEN None
                                     ELSE owner[l][p]]
<1>1. ends \in [Phone -> EndState]
      /\ \A p \in Phone : ends[p] \in {end[l][p], "closed"} /\ ends[p] \in {None, "closed"}
  BY DEF EndState
<1>2. hands \in [Phone -> Owner]
      /\ \A p \in Phone : /\ Busy(hands[p]) \/ Busy(owner[l][p]) => hands[p] = owner[l][p]
                          /\ hands[p] \in {None, owner[l][p]}
  BY DEF Owner, Busy, None, IInv, Types
<1>3. end' = [end EXCEPT ![l] = ends] /\ owner' = [owner EXCEPT ![l] = hands]
      /\ result' = FailsWith(l) /\ UNCHANGED <<phase, chosen, settled>>
  BY DEF LinkFails, IInv, Types
<1> HIDE DEF ends, hands
<1>4. QED
  BY <1>1, <1>2, <1>3, ClosingKeeps

\* What the end of the search does to the ends: offers are closed, connections on
\* their way wait.
LEMMA StoppedEnds ==
  ASSUME IInv, NEW q \in Phone, StopsSearching(q)
  PROVE  /\ end' \in [Links -> [Phone -> EndState]]
         /\ \A l \in Links : \A p \in Phone :
              \/ end'[l][p] = end[l][p]
              \/ end[l][p] = "offered" /\ end'[l][p] = "closed"
              \/ end[l][p] = "starting" /\ end'[l][p] = "waiting" /\ p = "display"
         /\ q = "controller" => \A l \in Links : end'[l]["controller"] # "offered"
         /\ \A l \in Links : end'[l]["controller"] \in {None, "offered"}
                               => end[l]["controller"] = end'[l]["controller"]
<1>1. CASE q = "controller"
  <2>1. end' = [l \in Links |-> WithoutListener(end[l])]
    BY <1>1 DEF StopsSearching
  <2>2. ASSUME NEW l \in Links
        PROVE  /\ end'[l] \in [Phone -> EndState]
               /\ \A p \in Phone :
                    \/ end'[l][p] = end[l][p]
                    \/ end[l][p] = "offered" /\ end'[l][p] = "closed"
                    \/ end[l][p] = "starting" /\ end'[l][p] = "waiting" /\ p = "display"
               /\ end'[l]["controller"] # "offered"
               /\ end'[l]["controller"] = None => end[l]["controller"] = None
    <3>1. end[l] \in [Phone -> EndState] /\ end'[l] = WithoutListener(end[l])
      BY <2>1, <2>2 DEF IInv, Types
    <3>2. CASE end[l]["controller"] = "offered"
      <4>1. end'[l] = [end[l] EXCEPT !["controller"] = "closed"]
        BY <3>1, <3>2 DEF WithoutListener, Pair, Phone, None
      <4>2. QED
        BY <3>1, <3>2, <4>1 DEF EndState, None, Phone
    <3>3. CASE end[l] = Pair(None, "starting")
      <4>1. end[l]["controller"] = None /\ end[l]["display"] = "starting"
        BY <3>3 DEF Pair, Phone
      <4>2. end'[l] = [end[l] EXCEPT !["display"] = "waiting"]
        BY <3>1, <3>3, <4>1 DEF WithoutListener, None
      <4>3. QED
        BY <3>1, <4>1, <4>2 DEF EndState, None, Phone
    <3>4. CASE end[l]["controller"] # "offered" /\ end[l] # Pair(None, "starting")
      <4>1. end'[l] = end[l]
        BY <3>1, <3>4 DEF WithoutListener
      <4>2. QED
        BY <3>1, <3>4, <4>1
    <3>5. QED
      BY <3>2, <3>3, <3>4
  <2>3. QED
    BY <1>1, <2>1, <2>2
<1>2. CASE q # "controller"
  BY <1>2 DEF StopsSearching, IInv, Types
<1>3. QED
  BY <1>1, <1>2

LEMMA TakesKeeps ==
  ASSUME IInv, NEW q \in Phone, Takes(q)
  PROVE  IInv'
<1>1. PICK k \in Links : result[q] = k
  BY DEF Takes
<1>2. /\ phase[q] = "waiting" /\ owner[k][q] = "attempt"
      /\ phase' = [phase EXCEPT ![q] = "session"]
      /\ owner' = [owner EXCEPT ![k][q] = "session"]
      /\ result' = [result EXCEPT ![q] = None]
      /\ chosen' = [chosen EXCEPT ![q] = FALSE] /\ settled' = settled
  BY <1>1 DEF Takes, StopsSearching, IInv, Phases
<1>3. StopsSearching(q)
  BY DEF Takes
<1>4. Types'
  BY <1>2, <1>3, StoppedEnds DEF IInv, Types, Owner
<1>5. Offers'
  BY <1>2, <1>3, StoppedEnds DEF IInv, Types, Offers, Listening, Phone, None
<1>6. Phases'
  BY <1>2, LinksAssumption DEF IInv, Types, Phases, Owners, Busy
<1>7. Owners'
  BY <1>2 DEF IInv, Types, Owners, Busy
<1>8. Opened'
  <2>1. \A p \in Phone : \A l \in Links :
          /\ end'[l][p] \in {"starting", "waiting"} => end[l][p] \in {"starting", "waiting"}
          /\ end'[l][p] = "ready" => end[l][p] = "ready"
    BY <1>3, StoppedEnds
  <2>2. \A p \in Phone : \A l \in Links :
          \/ owner'[l][p] = owner[l][p]
          \/ p = q /\ owner'[l][p] = "session"
    BY <1>2 DEF IInv, Types
  <2>3. \A l \in Links : owner'[l][q] # "attempt"
    BY <1>2 DEF IInv, Types, Owners, Busy
  <2>4. \A p \in Phone : p # q => result'[p] = result[p]
    BY <1>2 DEF IInv, Types
  <2>5. QED
    BY <2>1, <2>2, <2>3, <2>4 DEF IInv, Opened, None
<1>9. Sessions'
  BY <1>2 DEF IInv, Types, Sessions
<1>10. QED
  BY <1>4, <1>5, <1>6, <1>7, <1>8, <1>9 DEF IInv

\* The end of an attempt without a connection.  Only a time-out may leave a ready
\* connection behind.
LEMMA LeavesKeeps ==
  ASSUME IInv, NEW q \in Phone, NEW hands \in {"timedOut", "failed"}, phase[q] = "waiting",
         result[q] \notin Links, Leaves(q, hands)
  PROVE  IInv'
<1>1. /\ phase' = [phase EXCEPT ![q] = "idle"]
      /\ result' = [result EXCEPT ![q] = None]
      /\ chosen' = [chosen EXCEPT ![q] = FALSE] /\ settled' = settled
      /\ StopsSearching(q)
      /\ owner' = [l \in Links |->
           IF owner[l][q] # "attempt" THEN owner[l]
           ELSE [owner[l] EXCEPT ![q] = IF end[l][q] = "closed" THEN None ELSE hands]]
  BY DEF Leaves, StopsSearching
<1>2. ASSUME NEW l \in Links
      PROVE  /\ owner'[l] \in [Phone -> Owner]
             /\ \A p \in Phone :
                  \/ owner'[l][p] = owner[l][p] /\ (p = q => owner[l][p] # "attempt")
                  \/ /\ p = q /\ owner[l][p] = "attempt"
                     /\ owner'[l][p] = IF end[l][p] = "closed" THEN None ELSE hands
  <2>1. owner[l] \in [Phone -> Owner] /\ hands \in Owner /\ None \in Owner
    BY <1>2 DEF IInv, Types, Owner
  <2>2. CASE owner[l][q] = "attempt"
    BY <1>1, <1>2, <2>1, <2>2
  <2>3. CASE owner[l][q] # "attempt"
    BY <1>1, <1>2, <2>1, <2>3
  <2>4. QED
    BY <2>2, <2>3
<1>3. Types'
  BY <1>1, <1>2, StoppedEnds DEF IInv, Types
<1>4. Offers'
  BY <1>1, <1>2, StoppedEnds DEF IInv, Types, Offers, Listening, Phone, None
<1>5. Phases'
  BY <1>1, <1>2, LinksAssumption DEF IInv, Types, Phases
<1>6. Owners'
  BY <1>1, <1>2 DEF IInv, Types, Owners, Busy, None
<1>7. Opened'
  <2>1. \A p \in Phone : \A l \in Links :
          /\ end'[l][p] \in {"starting", "waiting"} => end[l][p] \in {"starting", "waiting"}
          /\ end'[l][p] = "ready" => end[l][p] = "ready"
    BY <1>1, StoppedEnds
  <2>2. \A l \in Links : owner[l][q] = "attempt" => end[l][q] # "ready"
    BY DEF IInv, Opened
  <2>3. \A p \in Phone : p # q => result'[p] = result[p]
    BY <1>1 DEF IInv, Types
  <2>4. \A l \in Links : owner'[l][q] # "attempt"
    BY <1>2 DEF None
  <2>5. QED
    BY <1>2, <2>1, <2>2, <2>3, <2>4 DEF IInv, Opened, None
<1>8. Sessions'
  BY <1>1, <1>2 DEF IInv, Types, Sessions
<1>9. QED
  BY <1>3, <1>4, <1>5, <1>6, <1>7, <1>8 DEF IInv

\* The end of a session closes its connection.
LEMMA SessionKeeps ==
  ASSUME IInv, NEW q \in Phone, phase[q] = "session", EndsSession(q)
  PROVE  IInv'
<1>1. PICK k \in Links :
        /\ owner[k][q] = "session"
        /\ end' = [end EXCEPT ![k][q] = "closed"]
        /\ owner' = [owner EXCEPT ![k][q] = None]
        /\ phase' = [phase EXCEPT ![q] = "idle"]
        /\ UNCHANGED <<result, chosen, settled>>
  BY DEF EndsSession, Held
<1>2. Types'
  BY <1>1 DEF IInv, Types, EndState, Owner
<1>3. Offers'
  BY <1>1 DEF IInv, Types, Offers, Listening, Phone, None
<1>4. Phases'
  BY <1>1 DEF IInv, Types, Phases, None
<1>5. Owners'
  BY <1>1 DEF IInv, Types, Owners, Busy, None
<1>6. Opened'
  BY <1>1 DEF IInv, Types, Opened, None
<1>7. Sessions'
  BY <1>1 DEF IInv, Types, Sessions
<1>8. QED
  BY <1>2, <1>3, <1>4, <1>5, <1>6, <1>7 DEF IInv

\* The other faults.
LEMMA FaultsKeep ==
  ASSUME IInv, Settles \/ (\E p \in Phone : SearchFails(p)) \/ \E l \in Links : PathChanges(l)
  PROVE  IInv'
<1>1. CASE Settles
  BY <1>1 DEF Settles, IInv, Types, Offers, Phases, Owners, Opened, Sessions, Listening
<1>2. ASSUME NEW q \in Phone, SearchFails(q) PROVE IInv'
  <2>1. /\ result' = [result EXCEPT ![q] = Failed] /\ result[q] = None
        /\ phase[q] = "waiting" /\ UNCHANGED <<phase, chosen, end, owner, settled>>
    BY <1>2 DEF SearchFails
  <2>2. Types' /\ Offers' /\ Owners' /\ Sessions'
    BY <2>1 DEF IInv, Types, Offers, Owners, Sessions, Listening
  <2>3. Phases' /\ Opened'
    BY <2>1, LinksAssumption DEF IInv, Types, Phases, Opened
  <2>4. QED
    BY <2>2, <2>3 DEF IInv
<1>3. ASSUME NEW l \in Links, PathChanges(l) PROVE IInv'
  <2>1. /\ end' = [end EXCEPT ![l]["display"] = "starting"]
        /\ end[l]["display"] = "waiting"
        /\ UNCHANGED <<phase, result, chosen, owner, settled>>
    BY <1>3 DEF PathChanges, Pair, Phone
  <2>2. Types'
    BY <2>1 DEF IInv, Types, EndState, Phone
  <2>3. Offers' /\ Opened'
    BY <2>1 DEF IInv, Types, Offers, Opened, Listening, Phone, None
  <2>4. Phases' /\ Owners' /\ Sessions'
    BY <2>1 DEF IInv, Phases, Owners, Sessions
  <2>5. QED
    BY <2>2, <2>3, <2>4 DEF IInv
<1>4. QED
  BY <1>1, <1>2, <1>3

LEMMA InvStep == IInv /\ [Next]_vars => IInv'
<1> SUFFICES ASSUME IInv, [Next]_vars PROVE IInv'
  OBVIOUS
<1>1. ASSUME NEW p \in Phone, Calls(p) PROVE IInv'
  <2>1. CASE Begins(p)
    BY <2>1, BeginsKeeps
  <2>2. CASE Takes(p)
    BY <2>2, TakesKeeps
  <2>3. CASE Throws(p)
    BY <2>3, LeavesKeeps, LinksAssumption DEF Throws
  <2>4. CASE TimesOut(p)
    BY <2>4, LeavesKeeps, LinksAssumption DEF TimesOut
  <2>5. CASE SeesClosed(p)
    BY <2>5, SessionKeeps DEF SeesClosed
  <2>6. CASE GetsNoAnswer(p)
    BY <2>6, SessionKeeps DEF GetsNoAnswer
  <2>7. QED
    BY <1>1, <2>1, <2>2, <2>3, <2>4, <2>5, <2>6 DEF Calls
<1>2. ASSUME NEW l \in Links, Callbacks(l) PROVE IInv'
  BY <1>2, FindsKeeps, ReachesKeeps, AcceptsKeeps, IsReadyKeeps DEF Callbacks
<1>3. CASE Faults \/ Settles
  BY <1>3, FaultsKeep, LinkFailsKeeps DEF Faults
<1>4. CASE UNCHANGED vars
  BY <1>4 DEF vars, IInv, Types, Offers, Phases, Owners, Opened, Sessions, Listening
<1>5. QED
  BY <1>1, <1>2, <1>3, <1>4 DEF Next

LEMMA Invariance == Spec => []IInv
<1>1. QED
  BY InvInit, InvStep, PTL DEF Spec

\* The variables keep their types, and a connection is offered to a listening
\* controller only.
THEOREM TypeCorrect == Spec => []TypeOK
<1>1. IInv => TypeOK
  BY DEF IInv, Types, Offers, TypeOK
<1>2. QED
  BY <1>1, Invariance, PTL

\* A phone has one connection that it opens or uses, and only a time-out leaves
\* a ready one without an owner, however late its callbacks come.
THEOREM NothingElseIsLeft == Spec => []OnlyTimeoutsOrphan
<1>1. IInv => OnlyTimeoutsOrphan
  BY DEF IInv, Owners, Busy, Opened, OnlyTimeoutsOrphan, Held
<1>2. QED
  BY <1>1, Invariance, PTL

\* A callback that comes after its attempt is over changes no other attempt or
\* session.
THEOREM LateAnswersDoNothing == Spec => []LateAnswersAreIgnored
<1>1. IInv => LateAnswersAreIgnored
  <2>1. SUFFICES ASSUME IInv, NEW p \in Phone
                 PROVE  /\ phase[p] = "session" <=> Held(p, {"session"}) # {}
                        /\ phase[p] # "waiting" => Held(p, {"attempt"}) = {}
                        /\ result[p] \in Links /\ phase[p] = "waiting"
                             => owner[result[p]][p] = "attempt"
    BY DEF LateAnswersAreIgnored
  <2>2. phase[p] = "session" <=> Held(p, {"session"}) # {}
    BY <2>1 DEF IInv, Owners, Sessions, Held
  <2>3. phase[p] # "waiting" => Held(p, {"attempt"}) = {}
    BY <2>1 DEF IInv, Owners, Held
  <2>4. QED
    BY <2>1, <2>2, <2>3 DEF IInv, Phases
<1>2. QED
  BY <1>1, Invariance, PTL
=============================================================================
