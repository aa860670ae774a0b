------------------------ MODULE SnapshotHandoff_proofs ------------------------
(***************************************************************************)
(* Proofs about SnapshotHandoff, for every set of keys, every set of       *)
(* interrupt conditions and every window.                                  *)
(***************************************************************************)
EXTENDS SnapshotHandoff, SequenceTheorems, TLAPS

TypeOK ==
  /\ saved \in [Phone -> Saved]
  /\ keys \in [Phone -> SUBSET Keys]
  /\ inSession \in BOOLEAN
  /\ ahead \in Seq(Frame)
  /\ isFirst \in BOOLEAN
  /\ differs \in {"none", "first"}

\* The state and the keys a machine has when it comes to run the i-th frame
\* ahead of the display, if nothing differs.
StateBefore(i) == IF i = 1 THEN saved["display"] ELSE ahead[i - 1].after
KeysBefore(i)  == IF i = 1 THEN keys["display"] ELSE ahead[i - 1].keys

\* What the frames ahead of the display will do to it is what they did to the
\* controller, except for the first frame of the session.
Chain ==
  \A i \in 1 .. Len(ahead) :
    i > 1 \/ ~isFirst =>
      ahead[i].after = Run(StateBefore(i), KeysBefore(i), ahead[i].keys,
                           ahead[i].setting)

\* The controller is in the state, and holds the keys, of the last frame.
Front ==
  /\ ahead # <<>> =>
       /\ saved["controller"] = ahead[Len(ahead)].after
       /\ keys["controller"] = ahead[Len(ahead)].keys
  /\ ahead = <<>> /\ ~isFirst =>
       /\ saved["controller"] = saved["display"]
       /\ keys["controller"] = keys["display"]

IInv == TypeOK /\ (inSession /\ differs = "none" => Chain /\ Front)

\* A frame leaves a machine in some state.
LEMMA RunType ==
  ASSUME NEW state \in Saved, NEW old, NEW new, NEW setting \in Settings
  PROVE  Run(state, old, new, setting) \in Saved
  BY DEF Run, Saved

\* Before the first session nothing is ahead of the display.
LEMMA InvInit == Init => IInv
<1>1. <<>> \in Seq(Frame) /\ {} \in SUBSET Keys
  OBVIOUS
<1>2. QED
  BY <1>1 DEF Init, IInv, TypeOK

\* Between sessions and at their ends no frame is ahead of the display.
LEMMA SessionsKeep ==
  ASSUME IInv, Handshake \/ SessionEnds \/ \E p \in Phone : Relaunches(p)
  PROVE  IInv'
<1>1. CASE Handshake
  <2>1. ahead' = <<>> /\ isFirst' = TRUE /\ Len(ahead') = 0
    BY <1>1 DEF Handshake
  <2>2. Chain' /\ Front'
    BY <2>1 DEF Chain, Front
  <2>3. QED
    BY <1>1, <2>2 DEF IInv, TypeOK, Handshake, Phone
<1>2. CASE SessionEnds
  <2>1. <<>> \in Seq(Frame)
    OBVIOUS
  <2>2. QED
    BY <1>2, <2>1 DEF IInv, TypeOK, SessionEnds
<1>3. ASSUME NEW p \in Phone, Relaunches(p) PROVE IInv'
  BY <1>3 DEF IInv, TypeOK, Relaunches
<1>4. QED
  BY <1>1, <1>2, <1>3

\* The controller's frame extends the chain: it starts from the controller's
\* state and keys, which are those of the last frame ahead.
LEMMA ControllerKeeps ==
  ASSUME IInv, ControllerSteps
  PROVE  IInv'
<1> DEFINE C == "controller"
<1>1. PICK new \in SUBSET Keys, setting \in Settings :
        LET after == Run(saved[C], keys[C], new, setting)
        IN  /\ saved' = [saved EXCEPT ![C] = after]
            /\ keys' = [keys EXCEPT ![C] = new]
            /\ ahead' = Append(ahead,
                 [keys |-> new, setting |-> setting, after |-> after])
  BY DEF ControllerSteps, KeysSet
<1> DEFINE after == Run(saved[C], keys[C], new, setting)
           f == [keys |-> new, setting |-> setting, after |-> after]
<1>2. after \in Saved /\ f \in Frame
  BY RunType DEF IInv, TypeOK, Phone, Frame
<1>3. /\ ahead' \in Seq(Frame) /\ Len(ahead') = Len(ahead) + 1
      /\ ahead'[Len(ahead')] = f
      /\ \A i \in 1 .. Len(ahead) : ahead'[i] = ahead[i]
      /\ Len(ahead) \in Nat
  BY <1>1, <1>2, AppendProperties, LenProperties DEF IInv, TypeOK
<1>4. /\ saved'["display"] = saved["display"] /\ saved'[C] = after
      /\ keys'["display"] = keys["display"] /\ keys'[C] = new
  BY <1>1 DEF IInv, TypeOK, Phone
<1>5. TypeOK'
  BY <1>1, <1>2, <1>3 DEF IInv, TypeOK, ControllerSteps, Phone
<1>6. ASSUME inSession, differs = "none" PROVE Chain' /\ Front'
  <2>1. Chain /\ Front /\ isFirst' = isFirst
    BY <1>6 DEF IInv, ControllerSteps
  <2>2. Front'
    BY <1>3, <1>4 DEF Front
  <2>3. ASSUME NEW i \in 1 .. Len(ahead'), i > 1 \/ ~isFirst
        PROVE  ahead'[i].after =
                 Run(StateBefore(i)', KeysBefore(i)', ahead'[i].keys,
                     ahead'[i].setting)
    <3>1. CASE i \in 1 .. Len(ahead)
      <4>1. StateBefore(i)' = StateBefore(i) /\ KeysBefore(i)' = KeysBefore(i)
        BY <3>1, <1>3, <1>4 DEF StateBefore, KeysBefore
      <4>2. QED
        BY <2>1, <2>3, <3>1, <4>1, <1>3 DEF Chain
    <3>2. CASE i = Len(ahead) + 1
      <4>1. StateBefore(i)' = saved[C] /\ KeysBefore(i)' = keys[C]
        <5>1. CASE ahead = <<>>
          BY <5>1, <3>2, <2>1, <2>3, <1>4 DEF Front, StateBefore, KeysBefore
        <5>2. CASE ahead # <<>>
          <6>1. Len(ahead) \in 1 .. Len(ahead) /\ i # 1 /\ i - 1 = Len(ahead)
            BY <5>2, <3>2, <1>3, EmptySeq DEF IInv, TypeOK
          <6>2. QED
            BY <6>1, <5>2, <2>1, <1>3 DEF Front, StateBefore, KeysBefore
        <5>3. QED
          BY <5>1, <5>2
      <4>2. QED
        BY <3>2, <4>1, <1>3
    <3>3. QED
      BY <3>1, <3>2, <1>3
  <2>4. QED
    BY <2>1, <2>2, <2>3 DEF Chain
<1>7. inSession' = inSession /\ differs' = differs
  BY DEF ControllerSteps
<1>8. QED
  BY <1>5, <1>6, <1>7 DEF IInv

\* The display's frame does what it did to the controller, unless it is the first.
LEMMA DisplayKeeps ==
  ASSUME IInv, DisplaySteps
  PROVE  IInv'
<1> DEFINE D == "display"
           f == Head(ahead)
           after == Run(saved[D], keys[D], f.keys, f.setting)
<1>1. /\ saved' = [saved EXCEPT ![D] = after]
      /\ keys' = [keys EXCEPT ![D] = f.keys]
      /\ differs' = IF differs # "none" \/ after = f.after THEN differs
                    ELSE IF isFirst THEN "first" ELSE "later"
      /\ ahead' = Tail(ahead) /\ isFirst' = FALSE /\ inSession' = inSession
      /\ inSession /\ ahead # <<>>
  BY DEF DisplaySteps, KeysSet
<1>2. /\ f \in Frame /\ f = ahead[1] /\ 1 \in 1 .. Len(ahead)
      /\ ahead' \in Seq(Frame) /\ Len(ahead') = Len(ahead) - 1
      /\ \A i \in 1 .. Len(ahead') : ahead'[i] = ahead[i + 1]
      /\ Len(ahead) \in Nat
  BY <1>1, HeadTailProperties, LenProperties, EmptySeq DEF IInv, TypeOK
<1>3. after \in Saved
  BY <1>2, RunType DEF IInv, TypeOK, Phone, Frame
<1>4. ASSUME differs = "none", ~isFirst PROVE after = f.after
  BY <1>1, <1>2, <1>4 DEF IInv, Chain, StateBefore, KeysBefore
<1>5. TypeOK'
  BY <1>1, <1>2, <1>3, <1>4 DEF IInv, TypeOK, Phone, Frame
<1>6. ASSUME differs' = "none" PROVE Chain' /\ Front'
  <2>1. differs = "none" /\ after = f.after
    BY <1>1, <1>6
  <2>2. Chain /\ Front
    BY <2>1, <1>1 DEF IInv
  <2>3. /\ saved'[D] = ahead[1].after /\ keys'[D] = ahead[1].keys
        /\ saved'["controller"] = saved["controller"]
        /\ keys'["controller"] = keys["controller"]
    BY <1>1, <1>2, <2>1 DEF IInv, TypeOK, Phone
  <2>4. Front'
    <3>1. CASE ahead' = <<>>
      <4>1. Len(ahead) = 1
        BY <3>1, <1>2
      <4>2. QED
        BY <3>1, <4>1, <1>1, <2>2, <2>3 DEF Front
    <3>2. CASE ahead' # <<>>
      <4>1. Len(ahead') \in 1 .. Len(ahead')
        BY <3>2, <1>2, EmptySeq
      <4>2. QED
        BY <3>2, <4>1, <1>1, <1>2, <2>2, <2>3 DEF Front
    <3>3. QED
      BY <3>1, <3>2
  <2>5. ASSUME NEW i \in 1 .. Len(ahead')
        PROVE  ahead'[i].after =
                 Run(StateBefore(i)', KeysBefore(i)', ahead'[i].keys,
                     ahead'[i].setting)
    <3>1. /\ ahead'[i] = ahead[i + 1] /\ i + 1 \in 1 .. Len(ahead)
          /\ i + 1 > 1 /\ i + 1 # 1
      BY <1>2
    <3>2. /\ StateBefore(i)' = StateBefore(i + 1)
          /\ KeysBefore(i)' = KeysBefore(i + 1)
      <4>1. CASE i = 1
        BY <4>1, <2>3 DEF StateBefore, KeysBefore
      <4>2. CASE i # 1
        <5>1. i - 1 \in 1 .. Len(ahead') /\ (i + 1) - 1 = (i - 1) + 1
          BY <4>2, <1>2
        <5>2. ahead'[i - 1] = ahead[(i + 1) - 1]
          BY <5>1, <1>2
        <5>3. QED
          BY <4>2, <3>1, <5>2 DEF StateBefore, KeysBefore
      <4>3. QED
        BY <4>1, <4>2
    <3>3. QED
      BY <2>2, <3>1, <3>2 DEF Chain
  <2>6. QED
    BY <2>4, <2>5 DEF Chain
<1>7. QED
  BY <1>5, <1>6 DEF IInv

\* Every step keeps the invariant.
LEMMA InvStep == IInv /\ [Next]_vars => IInv'
<1> SUFFICES ASSUME IInv, [Next]_vars PROVE IInv'
  OBVIOUS
<1>1. CASE UNCHANGED vars
  BY <1>1 DEF IInv, TypeOK, Chain, Front, StateBefore, KeysBefore, vars
<1>2. CASE Next
  BY <1>2, SessionsKeep, ControllerKeeps, DisplayKeeps DEF Next
<1>3. QED
  BY <1>1, <1>2

\* For every set of keys and conditions and every window, the first frame of a
\* session is the only one that can make the two machines differ.
THEOREM DivergesAtFirstFrameOnly == Spec => []OnlyFirstFrame
<1>1. IInv => OnlyFirstFrame
  BY DEF IInv, TypeOK, OnlyFirstFrame
<1>2. QED
  BY InvInit, InvStep, <1>1, PTL DEF Spec

(***************************************************************************)
(* When the first frame is the same, too.                                  *)
(***************************************************************************)
\* No game sets a condition for key interrupts.
NoKeyInterrupts == \A s \in Settings : ~s.enabled

SameKeys == keys["controller"] = keys["display"]

\* Every session begins with the same keys in both registers.
SameKeysAtStart == [][Handshake => SameKeys]_vars

\* The link into a session's first frame, which Chain leaves out: the controller ran
\* it from the state the display has, with keys that make no difference.
FirstLink ==
  isFirst =>
    /\ ahead # <<>> =>
         ahead[1].after = Run(saved["display"], keys["display"], ahead[1].keys,
                              ahead[1].setting)
    /\ ahead = <<>> =>
         saved["controller"] = saved["display"] /\ (SameKeys \/ NoKeyInterrupts)

SInv == IInv /\ differs = "none" /\ (inSession => FirstLink)

\* Without key interrupts a frame does the same whatever keys were held before it.
LEMMA OldKeysDoNotMatter ==
  ASSUME NoKeyInterrupts, NEW state \in Saved, NEW k, NEW l, NEW new, NEW setting
  PROVE  Run(state, k, new, setting) = Run(state, l, new, setting)
<1>1. ~state.setting.enabled
  BY DEF NoKeyInterrupts, Saved
<1> QED
  BY <1>1 DEF Run, Interrupts

LEMMA SameFramesInit == Init => SInv
<1> SUFFICES ASSUME Init PROVE SInv
  OBVIOUS
<1> QED
  BY InvInit DEF Init, SInv

LEMMA SameFramesStep ==
  ASSUME SInv, [Next]_vars, Handshake => SameKeys \/ NoKeyInterrupts
  PROVE  SInv'
<1> DEFINE C == "controller"
           D == "display"
<1>a. IInv /\ IInv' /\ TypeOK /\ C \in Phone /\ D \in Phone /\ C # D
  BY InvStep DEF SInv, IInv, Phone
<1>1. CASE UNCHANGED vars
  BY <1>a, <1>1 DEF SInv, FirstLink, SameKeys, vars
<1>2. CASE Handshake
  <2>1. /\ saved'[C] = saved'[D] /\ keys' = keys /\ ahead' = <<>> /\ differs' = "none"
    BY <1>a, <1>2 DEF Handshake, TypeOK
  <2> QED
    BY <1>a, <1>2, <2>1 DEF SInv, FirstLink, SameKeys
<1>3. CASE ControllerSteps
  <2>1. PICK new \in SUBSET Keys, setting \in Settings :
          LET after == Run(saved[C], keys[C], new, setting)
          IN  /\ saved' = [saved EXCEPT ![C] = after]
              /\ keys' = [keys EXCEPT ![C] = new]
              /\ ahead' = Append(ahead,
                   [keys |-> new, setting |-> setting, after |-> after])
    BY <1>3 DEF ControllerSteps, KeysSet
  <2> DEFINE after == Run(saved[C], keys[C], new, setting)
             f == [keys |-> new, setting |-> setting, after |-> after]
  <2>2. after \in Saved /\ f \in Frame /\ ahead \in Seq(Frame)
    BY <1>a, RunType DEF TypeOK, Frame
  <2>3. /\ ahead' # <<>> /\ ahead'[Len(ahead) + 1] = f
        /\ \A i \in 1 .. Len(ahead) : ahead'[i] = ahead[i]
        /\ Len(ahead) \in Nat
    BY <2>1, <2>2, AppendProperties, LenProperties
  <2>4. /\ saved'[D] = saved[D] /\ keys'[D] = keys[D]
        /\ inSession' = inSession /\ isFirst' = isFirst /\ differs' = differs
    BY <1>3, <1>a, <2>1 DEF TypeOK, ControllerSteps
  <2>5. ASSUME inSession, isFirst
        PROVE  ahead'[1].after = Run(saved[D], keys[D], ahead'[1].keys, ahead'[1].setting)
    <3>1. CASE ahead = <<>>
      <4>1. ahead'[1] = f
        BY <2>3, <3>1, EmptySeq
      <4>2. saved[C] = saved[D] /\ (SameKeys \/ NoKeyInterrupts)
        BY <2>5, <3>1 DEF SInv, FirstLink
      <4>3. after = Run(saved[D], keys[D], new, setting)
        <5>1. CASE SameKeys
          BY <4>2, <5>1 DEF SameKeys
        <5>2. CASE NoKeyInterrupts
          BY <1>a, <4>2, <5>2, OldKeysDoNotMatter DEF TypeOK
        <5> QED
          BY <4>2, <5>1, <5>2
      <4> QED
        BY <4>1, <4>3
    <3>2. CASE ahead # <<>>
      <4>1. 1 \in 1 .. Len(ahead)
        BY <2>2, <2>3, <3>2, EmptySeq
      <4> QED
        BY <2>3, <2>5, <3>2, <4>1 DEF SInv, FirstLink
    <3> QED
      BY <3>1, <3>2
  <2> QED
    BY <1>a, <2>3, <2>4, <2>5 DEF SInv, FirstLink
<1>4. CASE DisplaySteps
  <2> DEFINE f == Head(ahead)
             after == Run(saved[D], keys[D], f.keys, f.setting)
  <2>1. /\ inSession /\ ahead # <<>> /\ isFirst' = FALSE
        /\ differs' = IF differs # "none" \/ after = f.after THEN differs
                      ELSE IF isFirst THEN "first" ELSE "later"
    BY <1>4 DEF DisplaySteps, KeysSet
  <2>2. f = ahead[1] /\ 1 \in 1 .. Len(ahead)
    BY <1>a, <2>1, HeadTailProperties, LenProperties, EmptySeq DEF TypeOK
  <2>3. after = f.after
    <3>1. CASE isFirst
      BY <2>1, <2>2, <3>1 DEF SInv, FirstLink
    <3>2. CASE ~isFirst
      BY <1>a, <2>1, <2>2, <3>2 DEF SInv, IInv, Chain, StateBefore, KeysBefore
    <3> QED
      BY <3>1, <3>2
  <2> QED
    BY <1>a, <2>1, <2>3 DEF SInv, FirstLink
<1>5. CASE SessionEnds \/ \E p \in Phone : Relaunches(p)
  BY <1>a, <1>5 DEF SInv, SessionEnds, Relaunches
<1> QED
  BY <1>1, <1>2, <1>3, <1>4, <1>5 DEF Next

\* What differs after a session's first frame differs by the key register that
\* DoSavestate leaves out, and by nothing else: if the registers agree whenever a
\* session begins, all frames are the same on both phones.
THEOREM EqualKeysSuffice == Spec /\ SameKeysAtStart => []SameFrames
<1>1. SInv /\ [Next]_vars /\ [Handshake => SameKeys]_vars => SInv'
  <2> SUFFICES ASSUME SInv, [Next]_vars, [Handshake => SameKeys]_vars PROVE SInv'
    OBVIOUS
  <2>1. CASE UNCHANGED vars
    <3>1. IInv'
      BY InvStep DEF SInv
    <3> QED
      BY <2>1, <3>1 DEF SInv, FirstLink, SameKeys, vars
  <2>2. CASE Handshake => SameKeys
    BY <2>2, SameFramesStep
  <2> QED
    BY <2>1, <2>2
<1>2. SInv => SameFrames
  BY DEF SInv, SameFrames
<1> QED
  BY <1>1, <1>2, SameFramesInit, PTL DEF Spec, SameKeysAtStart

\* A game that does not use key interrupts runs the same on both phones in every
\* session, whatever keys are held when it begins.
THEOREM OtherGamesRunAlike ==
  ASSUME NoKeyInterrupts
  PROVE  Spec => []SameFrames
<1>1. SInv /\ [Next]_vars => SInv'
  BY SameFramesStep
<1>2. SInv => SameFrames
  BY DEF SInv, SameFrames
<1> QED
  BY <1>1, <1>2, SameFramesInit, PTL DEF Spec
=============================================================================
