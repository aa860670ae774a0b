--------------------------- MODULE Standalone_proofs --------------------------
(***************************************************************************)
(* Proofs about Standalone, for every size of the ring, any number of      *)
(* gamepads, keys and failures.                                            *)
(***************************************************************************)
EXTENDS Standalone, SequenceTheorems, TLAPS

(***************************************************************************)
(* The ring.  Its content, as a function of buffer and positions.          *)
(***************************************************************************)
Count(r, w) == IF w >= r THEN w - r ELSE Slots - r + w

Content(b, r, w) == [i \in 1 .. Count(r, w) |-> b[After(r, i - 1)]]

LEMMA AfterType ==
  ASSUME NEW r \in Slot, NEW i \in 0 .. Slots - 1
  PROVE  After(r, i) \in Slot
BY SlotsAssumption DEF After, Slot

\* Between two positions there are as many slots as it takes to get there.
LEMMA CountProperties ==
  ASSUME NEW r \in Slot, NEW w \in Slot
  PROVE  /\ Count(r, w) \in 0 .. Slots - 1
         /\ After(r, Count(r, w)) = w
         /\ \A i \in 0 .. Slots - 1 : i # Count(r, w) => After(r, i) # w
BY SlotsAssumption DEF Count, After, Slot

\* Reading or dropping k samples moves what is left by k.
LEMMA AfterAfter ==
  ASSUME NEW r \in Slot, NEW w \in Slot, NEW k \in 0 .. Count(r, w)
  PROVE  /\ After(r, k) \in Slot
         /\ Count(After(r, k), w) = Count(r, w) - k
         /\ \A i \in 0 .. Slots - 1 :
              k + i \in 0 .. Slots - 1 => After(After(r, k), i) = After(r, k + i)
BY SlotsAssumption DEF Count, After, Slot

LEMMA ContentProperties ==
  ASSUME NEW b \in [Slot -> Samples], NEW r \in Slot, NEW w \in Slot
  PROVE  /\ Content(b, r, w) \in Seq(Samples)
         /\ Len(Content(b, r, w)) = Count(r, w)
         /\ \A i \in 1 .. Count(r, w) : Content(b, r, w)[i] = b[After(r, i - 1)]
<1>1. Count(r, w) \in Nat /\ Count(r, w) <= Slots - 1
  BY CountProperties, SlotsAssumption
<1>2. \A i \in 1 .. Count(r, w) : b[After(r, i - 1)] \in Samples
  <2> SUFFICES ASSUME NEW i \in 1 .. Count(r, w) PROVE After(r, i - 1) \in Slot
    OBVIOUS
  <2>1. i - 1 \in 0 .. Slots - 1
    BY <1>1, SlotsAssumption
  <2> QED
    BY <2>1, AfterType
<1> QED
  BY <1>1, <1>2 DEF Content

\* Taking the k oldest samples.
LEMMA TakeContent ==
  ASSUME NEW b \in [Slot -> Samples], NEW r \in Slot, NEW w \in Slot,
         NEW k \in 0 .. Count(r, w)
  PROVE  /\ After(r, k) \in Slot
         /\ [i \in 1 .. k |-> b[After(r, i - 1)]] = SubSeq(Content(b, r, w), 1, k)
         /\ Content(b, After(r, k), w) = SubSeq(Content(b, r, w), k + 1, Count(r, w))
<1> DEFINE old == Content(b, r, w)
           new == Content(b, After(r, k), w)
<1>1. Count(r, w) \in Nat /\ Count(r, w) <= Slots - 1 /\ k \in Nat
  BY CountProperties, SlotsAssumption
<1>2. /\ After(r, k) \in Slot
      /\ Count(After(r, k), w) = Count(r, w) - k
      /\ \A i \in 0 .. Slots - 1 :
           k + i \in 0 .. Slots - 1 => After(After(r, k), i) = After(r, k + i)
  BY AfterAfter
<1>3. /\ old \in Seq(Samples) /\ Len(old) = Count(r, w)
      /\ \A i \in 1 .. Count(r, w) : old[i] = b[After(r, i - 1)]
  BY ContentProperties
<1>4. /\ new \in Seq(Samples) /\ Len(new) = Count(r, w) - k
      /\ \A i \in 1 .. Count(r, w) - k : new[i] = b[After(After(r, k), i - 1)]
  <2>1. After(r, k) \in Slot
    BY <1>2
  <2>2. /\ new \in Seq(Samples) /\ Len(new) = Count(After(r, k), w)
        /\ \A i \in 1 .. Count(After(r, k), w) : new[i] = b[After(After(r, k), i - 1)]
    BY <2>1, ContentProperties
  <2> QED
    BY <1>2, <2>2
<1> HIDE DEF old, new
<1>5. [i \in 1 .. k |-> b[After(r, i - 1)]] = SubSeq(old, 1, k)
  BY <1>1, <1>3
<1>6. new = SubSeq(old, k + 1, Count(r, w))
  <2>1. /\ SubSeq(old, k + 1, Count(r, w)) \in Seq(Samples)
        /\ Len(SubSeq(old, k + 1, Count(r, w))) = Count(r, w) - k
        /\ \A i \in 1 .. Count(r, w) - k :
             SubSeq(old, k + 1, Count(r, w))[i] = old[k + i]
    BY <1>1, <1>3
  <2>2. ASSUME NEW i \in 1 .. Count(r, w) - k
        PROVE  new[i] = SubSeq(old, k + 1, Count(r, w))[i]
    <3>1. After(After(r, k), i - 1) = After(r, k + (i - 1))
      <4>1. i - 1 \in 0 .. Slots - 1 /\ k + (i - 1) \in 0 .. Slots - 1
        BY <1>1, SlotsAssumption
      <4> QED
        BY <1>2, <4>1
    <3>2. k + i \in 1 .. Count(r, w) /\ (k + i) - 1 = k + (i - 1)
      BY <1>1
    <3>3. old[k + i] = b[After(r, k + (i - 1))]
      BY <1>3, <3>2
    <3> QED
      BY <1>4, <2>1, <3>1, <3>3
  <2> QED
    BY <1>4, <2>1, <2>2, SeqEqual
<1> QED
  BY <1>2, <1>5, <1>6 DEF old, new

\* The positions meet at once when both are the same.
LEMMA NoContent ==
  ASSUME NEW b, NEW r \in Slot
  PROVE  Content(b, r, r) = << >>
<1>1. Count(r, r) = 0
  BY SlotsAssumption DEF Count, Slot
<1> QED
  BY <1>1 DEF Content

\* A ring that has room takes a sample at its end.
LEMMA AddContent ==
  ASSUME NEW b \in [Slot -> Samples], NEW r \in Slot, NEW w \in Slot,
         NEW s \in Samples, Count(r, w) < Slots - 1
  PROVE  Content([b EXCEPT ![w] = s], r, After(w, 1)) = Append(Content(b, r, w), s)
<1> DEFINE old == Content(b, r, w)
           b2 == [b EXCEPT ![w] = s]
           w2 == After(w, 1)
           n == Count(r, w)
           new == Content(b2, r, w2)
<1>1. n \in Nat /\ n + 1 <= Slots - 1
  BY CountProperties, SlotsAssumption
<1>2. w2 \in Slot
  BY AfterType, SlotsAssumption
<1>3. Count(r, w2) = n + 1
  BY SlotsAssumption DEF Count, After, Slot
<1>4. b2 \in [Slot -> Samples]
  OBVIOUS
<1>5. /\ old \in Seq(Samples) /\ Len(old) = n
      /\ \A i \in 1 .. n : old[i] = b[After(r, i - 1)]
  BY ContentProperties
<1>6. /\ new \in Seq(Samples) /\ Len(new) = n + 1
      /\ \A i \in 1 .. n + 1 : new[i] = b2[After(r, i - 1)]
  <2> HIDE DEF b2, w2, n
  <2>1. /\ new \in Seq(Samples) /\ Len(new) = Count(r, w2)
        /\ \A i \in 1 .. Count(r, w2) : new[i] = b2[After(r, i - 1)]
    BY <1>2, <1>4, ContentProperties
  <2> QED
    BY <1>3, <2>1
<1>7. After(r, n) = w /\ \A i \in 0 .. Slots - 1 : i # n => After(r, i) # w
  BY CountProperties
<1>8. ASSUME NEW i \in 1 .. n PROVE new[i] = old[i]
  <2>1. i - 1 \in 0 .. Slots - 1 /\ i - 1 # n
    BY <1>1, SlotsAssumption
  <2>2. After(r, i - 1) # w /\ After(r, i - 1) \in Slot
    BY <1>7, <2>1, AfterType
  <2>3. b2[After(r, i - 1)] = b[After(r, i - 1)]
    BY <2>2
  <2>4. i \in 1 .. n + 1
    BY <1>1
  <2> HIDE DEF b2, old, new, n
  <2> QED
    BY <1>5, <1>6, <2>3, <2>4
<1>9. new[n + 1] = s
  <2>1. n + 1 \in 1 .. n + 1 /\ (n + 1) - 1 = n
    BY <1>1
  <2>2. new[n + 1] = b2[After(r, n)]
    <3> HIDE DEF b2, old, new, n
    <3> QED
      BY <1>6, <2>1
  <2>3. b2[w] = s
    OBVIOUS
  <2> QED
    BY <1>7, <2>2, <2>3
<1> HIDE DEF old, new, n, b2, w2
<1>10. /\ Append(old, s) \in Seq(Samples) /\ Len(Append(old, s)) = n + 1
       /\ \A i \in 1 .. n : Append(old, s)[i] = old[i]
       /\ Append(old, s)[n + 1] = s
  BY <1>1, <1>5, AppendProperties
<1>11. new = Append(old, s)
  <2>1. ASSUME NEW i \in 1 .. n + 1 PROVE new[i] = Append(old, s)[i]
    <3>1. CASE i \in 1 .. n
      BY <3>1, <1>8, <1>10
    <3>2. CASE i = n + 1
      BY <3>2, <1>9, <1>10
    <3>3. i \in 1 .. n \/ i = n + 1
      <4>1. n \in Nat
        BY <1>1
      <4> QED
        BY <4>1
    <3> QED
      BY <3>1, <3>2, <3>3
  <2> QED
    BY <1>6, <1>10, <2>1, SeqEqual
<1> QED
  BY <1>11 DEF old, new, b2, w2

ReadAfter(r, w) == IF After(w, 1) = r THEN After(r, 1) ELSE r

Added(q, s) == Append(IF Len(q) = Slots - 1 THEN Tail(q) ELSE q, s)

\* A ring that is full drops its oldest sample first.
LEMMA MixContent ==
  ASSUME NEW b \in [Slot -> Samples], NEW r \in Slot, NEW w \in Slot,
         NEW s \in Samples
  PROVE  /\ ReadAfter(r, w) \in Slot
         /\ Content([b EXCEPT ![w] = s], ReadAfter(r, w), After(w, 1))
              = Added(Content(b, r, w), s)
<1> DEFINE old == Content(b, r, w)
           n == Count(r, w)
           r2 == ReadAfter(r, w)
<1>0. r2 = IF After(w, 1) = r THEN After(r, 1) ELSE r
  BY DEF ReadAfter
<1> HIDE DEF r2
<1>1. n \in 0 .. Slots - 1
  BY CountProperties
<1>2. n = Slots - 1 <=> After(w, 1) = r
  BY SlotsAssumption DEF Count, After, Slot
<1>3. old \in Seq(Samples) /\ Len(old) = n
  BY ContentProperties
<1>4. CASE n = Slots - 1
  <2>1. r2 = After(r, 1) /\ 1 \in 0 .. n
    BY <1>0, <1>2, <1>4, SlotsAssumption
  <2>2. /\ r2 \in Slot
        /\ Count(r2, w) = n - 1
    BY <2>1, AfterAfter
  <2>3. Content(b, r2, w) = SubSeq(old, 2, n)
    BY <2>1, TakeContent
  <2>4. SubSeq(old, 2, n) = Tail(old)
    <3> HIDE DEF old, n
    <3> QED
      BY <1>3, <1>4, <2>1, EmptySeq, TailIsSubSeq
  <2>5. Count(r2, w) < Slots - 1
    BY <1>1, <1>4, <2>2, SlotsAssumption
  <2>6. Content([b EXCEPT ![w] = s], r2, After(w, 1)) = Append(Content(b, r2, w), s)
    BY <2>2, <2>5, AddContent
  <2> QED
    BY <1>3, <1>4, <2>2, <2>3, <2>4, <2>6 DEF r2, Added
<1>5. CASE n # Slots - 1
  <2>1. r2 = r
    BY <1>0, <1>2, <1>5
  <2>2. n < Slots - 1
    BY <1>1, <1>5, SlotsAssumption
  <2>3. Content([b EXCEPT ![w] = s], r, After(w, 1)) = Append(old, s)
    BY <2>2, AddContent
  <2> QED
    BY <1>3, <1>5, <2>1, <2>3 DEF r2, Added
<1> QED
  BY <1>4, <1>5

(***************************************************************************)
(* The inductive invariant.                                                *)
(***************************************************************************)
Held(k) == \E g \in Pads : k \in held[g]

\* The D-pad's handler presses keys that are held, and what the gamepads' mask
\* has besides the keys held, it is about to release.
Called ==
  /\ \A i \in 1 .. Len(calls) : calls[i].pressed => Held(calls[i].key)
  /\ \A k \in padMask : Held(k) \/ \E i \in 1 .. Len(calls) :
                                     calls[i].key = k /\ ~calls[i].pressed

\* The emulator's keys are those of whoever changed last.
LastWins == pendingKeys \in {padMask, screenMask}

Fingers == pendingTouch # None => touching

\* From the pause on, the emulation thread runs nothing; and it runs no console
\* that is off.
Rests ==
  /\ pc \in {"run", "ran"} => on
  /\ pc = "off" => ~on
  /\ app \in {"leaving", "silencing", "background"} => backgrounded
  /\ app \in {"silencing", "background"} =>
       paused /\ pc \notin {"run", "ran", "off", "drawing"}

\* Audio plays only between a start and the next stop.
Stopped ==
  /\ playing => isStarted
  /\ app \in {"background", "returning", "starting"} => ~isStarted

IInv ==
  /\ TypeOK
  /\ Called /\ LastWins /\ Fingers
  /\ Rests /\ Stopped /\ NodesAddUp

LEMMA HeldIsMember == \A k : k \in HeldOnPads <=> Held(k)
BY DEF HeldOnPads, Held

LEMMA SceneType ==
  ASSUME scene \in Scenes
  PROVE  /\ scene.keys \subseteq Keys /\ scene.pads \subseteq Pads
         /\ scene.points \subseteq Points /\ scene.samples \subseteq Samples
BY ScenesAssumption DEF Scene

LEMMA Initial == Init => IInv
<1> SUFFICES ASSUME Init PROVE IInv
  OBVIOUS
<1> USE DEF Init, InitInput, InitAudio
<1>1. TypeOK
  <2>1. InputTypeOK
    <3>1. calls \in Seq([key : Keys, pressed : BOOLEAN])
      BY EmptySeq
    <3> QED
      BY <3>1 DEF InputTypeOK
  <2>2. AudioTypeOK
    <3>1. buffer \in [Slot -> Samples] /\ readPos \in Slot /\ writePos \in Slot
      BY SilenceAssumption, SlotsAssumption DEF Slot
    <3>2. heard \in Seq(Samples)
      BY EmptySeq
    <3> QED
      BY <3>1, <3>2, FailuresAssumption DEF AudioTypeOK
  <2> QED
    BY <2>1, <2>2 DEF TypeOK, App, Input, NoInput
<1>2. Called /\ LastWins /\ Fingers
  BY EmptySeq DEF Called, LastWins, Fingers
<1>3. Rests /\ Stopped /\ NodesAddUp
  BY DEF Rests, Stopped, NodesAddUp
<1> QED
  BY <1>1, <1>2, <1>3 DEF IInv

(***************************************************************************)
(* The input.                                                              *)
(***************************************************************************)
Inputs == InputTypeOK /\ Called /\ LastWins /\ Fingers

\* setButton of one key: the others' reasons to be in the mask remain.
LEMMA ButtonStep ==
  ASSUME Inputs, NEW g \in Pads, NEW k \in Keys, PadButton(g, k)
  PROVE  Inputs'
<1> USE DEF Inputs, InputTypeOK, PadButton, SetsButton, Moves, Idle
<1>1. InputTypeOK'
  <2>1. held' \in [Pads -> SUBSET Keys]
    OBVIOUS
  <2>2. padMask' \subseteq Keys /\ pendingKeys' \subseteq Keys
    OBVIOUS
  <2> QED
    BY <2>1, <2>2
<1>2. Called'
  <2>1. Len(calls) = 0 /\ calls' = calls
    BY EmptySeq
  <2>2. \A j \in padMask : Held(j)
    BY <2>1 DEF Called
  <2>3. ASSUME NEW j \in padMask' PROVE Held(j)'
    <3>1. CASE k \in held[g]
      <4>1. padMask' = padMask \ {k}
        BY <3>1
      <4>2. PICK h \in Pads : j \in held[h]
        BY <2>2, <2>3, <4>1 DEF Held
      <4>3. j \in held'[h]
        BY <3>1, <4>1, <4>2, <2>3
      <4> QED
        BY <4>3 DEF Held
    <3>2. CASE k \notin held[g]
      <4>1. padMask' = padMask \cup {k}
        BY <3>2
      <4>2. \A h \in Pads : held[h] \subseteq held'[h]
        BY <3>2
      <4>3. k \in held'[g]
        BY <3>2
      <4> QED
        BY <2>2, <2>3, <4>1, <4>2, <4>3 DEF Held
    <3> QED
      BY <3>1, <3>2
  <2> QED
    BY <2>1, <2>3 DEF Called
<1>3. LastWins' /\ Fingers'
  BY DEF LastWins, Fingers
<1> QED
  BY <1>1, <1>2, <1>3

\* The D-pad's callback begins: whatever the direction, both keys of the axis have
\* a call to come.
LEMMA DirectionStep ==
  ASSUME Inputs, NEW g \in Pads, NEW d \in {{}, {Right}, {Left}}, PadDirection(g, d)
  PROVE  Inputs'
<1> USE DEF Inputs, InputTypeOK, PadDirection, Moves, Idle
<1>0. d \subseteq Axis /\ Axis \subseteq Keys
  BY DEF Axis, Keys
<1> DEFINE r == [key |-> Right, pressed |-> Right \in d]
           l == [key |-> Left, pressed |-> Left \in d]
<1>1. /\ Len(calls') = 2
      /\ calls'[1].key = Right /\ (calls'[1].pressed <=> Right \in d)
      /\ calls'[2].key = Left /\ (calls'[2].pressed <=> Left \in d)
      /\ calls' \in Seq([key : Keys, pressed : BOOLEAN])
  <2>1. calls' = <<r, l>>
    OBVIOUS
  <2>2. r.key = Right /\ l.key = Left
    OBVIOUS
  <2>3. r.pressed = (Right \in d) /\ l.pressed = (Left \in d)
    BY Zenon
  <2>4. r \in [key : Keys, pressed : BOOLEAN] /\ l \in [key : Keys, pressed : BOOLEAN]
    BY DEF Axis, Keys
  <2> HIDE DEF r, l
  <2>5. Len(calls') = 2 /\ calls'[1] = r /\ calls'[2] = l
    BY <2>1
  <2>6. calls' \in Seq([key : Keys, pressed : BOOLEAN])
    BY <2>1, <2>4
  <2> QED
    BY <2>2, <2>3, <2>5, <2>6
<1> HIDE DEF r, l
<1>2. InputTypeOK'
  <2>1. held' \in [Pads -> SUBSET Keys]
    BY <1>0
  <2> QED
    BY <1>1, <2>1 DEF pending
<1>3. Called'
  <2>1. held'[g] = (held[g] \ Axis) \cup d /\ \A h \in Pads : h # g => held'[h] = held[h]
    OBVIOUS
  <2>2. ASSUME NEW i \in 1 .. Len(calls'), calls'[i].pressed PROVE \E h \in Pads : calls'[i].key \in held'[h]
    <3>1. i = 1 \/ i = 2
      BY <1>1
    <3>2. calls'[i].key \in d
      BY <1>1, <2>2, <3>1
    <3> QED
      BY <2>1, <3>2
  <2>3. ASSUME NEW k \in padMask', ~Held(k)'
        PROVE  \E i \in 1 .. Len(calls') : calls'[i].key = k /\ ~calls'[i].pressed
    <3>1. Held(k)
      <4>1. Len(calls) = 0
        BY EmptySeq
      <4> QED
        BY <4>1 DEF Called
    <3>2. k \in Axis /\ k \notin d
      <4>1. PICK h \in Pads : k \in held[h]
        BY <3>1 DEF Held
      <4>2. k \notin held'[h] /\ k \notin held'[g]
        BY <2>3 DEF Held
      <4> QED
        BY <2>1, <4>1, <4>2
    <3>3. CASE k = Right
      <4>1. 1 \in 1 .. Len(calls') /\ calls'[1].key = k /\ ~calls'[1].pressed
        BY <1>1, <3>2, <3>3
      <4> QED
        BY <4>1
    <3>4. CASE k = Left
      <4>1. 2 \in 1 .. Len(calls') /\ calls'[2].key = k /\ ~calls'[2].pressed
        BY <1>1, <3>2, <3>4
      <4> QED
        BY <4>1
    <3> QED
      BY <3>2, <3>3, <3>4 DEF Axis
  <2> QED
    BY <2>2, <2>3 DEF Called, Held
<1>4. LastWins' /\ Fingers'
  BY DEF LastWins, Fingers, pending
<1> QED
  BY <1>2, <1>3, <1>4

\* The handler goes on with its next key.
LEMMA HandlerStep ==
  ASSUME Inputs, PadSetsButton
  PROVE  Inputs'
<1> DEFINE c == Head(calls)
<1> USE DEF Inputs, InputTypeOK, PadSetsButton, SetsButton, Idle
<1>1. /\ c = calls[1] /\ c.key \in Keys /\ c.pressed \in BOOLEAN
      /\ Len(calls) \in Nat \ {0}
      /\ calls' \in Seq([key : Keys, pressed : BOOLEAN])
      /\ Len(calls') = Len(calls) - 1
      /\ \A i \in 1 .. Len(calls') : calls'[i] = calls[i + 1]
  <2> DEFINE S == [key : Keys, pressed : BOOLEAN]
  <2>1. calls \in Seq(S) /\ calls # << >>
    OBVIOUS
  <2>2. /\ c \in S /\ calls' \in Seq(S) /\ Len(calls') = Len(calls) - 1
        /\ \A i \in 1 .. Len(calls') : calls'[i] = calls[i + 1]
    <3> HIDE DEF S
    <3> QED
      BY <2>1, HeadTailProperties
  <2>3. Len(calls) \in Nat \ {0} /\ c = calls[1]
    BY <2>1, EmptySeq
  <2> QED
    BY <2>2, <2>3
<1>2. InputTypeOK'
  BY <1>1
<1>3. held' = held /\ \A k : Held(k)' <=> Held(k)
  BY DEF Held
<1>4. Called'
  <2>1. ASSUME NEW i \in 1 .. Len(calls'), calls'[i].pressed PROVE \E h \in Pads : calls'[i].key \in held'[h]
    <3>1. i + 1 \in 1 .. Len(calls) /\ calls'[i] = calls[i + 1]
      BY <1>1
    <3> QED
      BY <1>3, <2>1, <3>1 DEF Called, Held
  <2>2. ASSUME NEW k \in padMask', ~Held(k)'
        PROVE  \E i \in 1 .. Len(calls') : calls'[i].key = k /\ ~calls'[i].pressed
    <3>1. ~Held(k)
      BY <1>3, <2>2
    <3>2. c.pressed => Held(c.key)
      BY <1>1 DEF Called
    <3>3. k \in padMask /\ ~(c.key = k /\ ~c.pressed)
      BY <2>2, <3>1, <3>2
    <3>4. PICK i \in 1 .. Len(calls) : calls[i].key = k /\ ~calls[i].pressed
      BY <3>1, <3>3 DEF Called
    <3>5. i # 1
      BY <1>1, <3>3, <3>4
    <3>6. i - 1 \in 1 .. Len(calls') /\ calls'[i - 1] = calls[i]
      <4>1. i - 1 \in 1 .. Len(calls') /\ (i - 1) + 1 = i
        BY <1>1, <3>5
      <4> QED
        BY <1>1, <4>1
    <3> QED
      BY <3>4, <3>6
  <2> QED
    BY <2>1, <2>2 DEF Called, Held
<1>5. LastWins' /\ Fingers'
  BY DEF LastWins, Fingers
<1> QED
  BY <1>2, <1>4, <1>5

\* The other handlers.
LEMMA ConnectStep ==
  ASSUME Inputs, NEW g \in Pads, PadConnects(g) \/ PadDisconnects(g)
  PROVE  Inputs'
<1> USE DEF Inputs, InputTypeOK, PadConnects, PadDisconnects, Moves, Idle, KeysReset
<1>0. Len(calls) = 0 /\ calls' = calls
  BY EmptySeq DEF pending
<1>1. CASE PadConnects(g)
  <2>1. InputTypeOK'
    BY <1>1 DEF pending
  <2>2. Called' /\ LastWins' /\ Fingers'
    BY <1>1 DEF Called, LastWins, Fingers, Held, pending
  <2> QED
    BY <2>1, <2>2
<1>2. CASE PadDisconnects(g)
  <2>1. InputTypeOK'
    BY <1>2
  <2>2. Called'
    BY <1>0, <1>2 DEF Called
  <2>3. LastWins' /\ Fingers'
    BY <1>2 DEF LastWins, Fingers
  <2> QED
    BY <2>1, <2>2, <2>3
<1> QED
  BY <1>1, <1>2

LEMMA ScreenStep ==
  ASSUME Inputs,
         \/ \E k \in Keys : ScreenButton(k)
         \/ \E at \in Points \cup {None} : Touches(at)
         \/ TouchEnds
  PROVE  Inputs'
<1> USE DEF Inputs, InputTypeOK
<1>1. ASSUME NEW k \in Keys, ScreenButton(k) PROVE Inputs'
  <2>1. InputTypeOK' /\ LastWins'
    BY <1>1 DEF ScreenButton, LastWins
  <2>2. Called' /\ Fingers'
    BY <1>1 DEF ScreenButton, Called, Held, Fingers
  <2> QED
    BY <2>1, <2>2
<1>2. ASSUME NEW at \in Points \cup {None}, Touches(at) PROVE Inputs'
  <2>1. InputTypeOK'
    BY <1>2 DEF Touches
  <2>2. Called' /\ LastWins' /\ Fingers'
    BY <1>2 DEF Touches, Called, Held, LastWins, Fingers
  <2> QED
    BY <2>1, <2>2
<1>3. ASSUME TouchEnds PROVE Inputs'
  <2>1. InputTypeOK'
    BY <1>3 DEF TouchEnds
  <2>2. Called' /\ LastWins' /\ Fingers'
    BY <1>3 DEF TouchEnds, Called, Held, LastWins, Fingers
  <2> QED
    BY <2>1, <2>2
<1> QED
  BY <1>1, <1>2, <1>3

LEMMA PlayStep ==
  ASSUME IInv, Plays \/ Handles
  PROVE  Inputs'
<1>1. Inputs
  BY DEF IInv, Inputs, TypeOK
<1>2. /\ scene.keys \subseteq Keys /\ scene.pads \subseteq Pads
      /\ scene.points \subseteq Points
  BY SceneType DEF IInv, TypeOK
<1>3. CASE Handles
  BY <1>1, <1>3, HandlerStep DEF Handles
<1>4. CASE Plays
  <2>1. ASSUME NEW g \in scene.pads, PadConnects(g) \/ PadDisconnects(g) PROVE Inputs'
    BY <1>1, <1>2, <2>1, ConnectStep
  <2>2. ASSUME NEW g \in scene.pads, NEW k \in scene.keys \ Axis, PadButton(g, k)
        PROVE  Inputs'
    BY <1>1, <1>2, <2>2, ButtonStep
  <2>3. ASSUME NEW g \in scene.pads, NEW d \in {{}, {Right}, {Left}}, PadDirection(g, d)
        PROVE  Inputs'
    <3>1. g \in Pads
      BY <1>2
    <3> QED
      BY <1>1, <2>3, <3>1, DirectionStep
  <2>4. ASSUME \/ \E k \in scene.keys : ScreenButton(k)
               \/ \E at \in scene.points \cup {None} : Touches(at)
               \/ TouchEnds
        PROVE  Inputs'
    <3>1. \/ \E k \in Keys : ScreenButton(k)
          \/ \E at \in Points \cup {None} : Touches(at)
          \/ TouchEnds
      BY <1>2, <2>4
    <3> QED
      BY <1>1, <3>1, ScreenStep
  <2> QED
    BY <1>4, <2>1, <2>2, <2>3, <2>4 DEF Plays
<1> QED
  BY <1>3, <1>4

(***************************************************************************)
(* The sound.                                                              *)
(***************************************************************************)
LEMMA MixStep ==
  ASSUME AudioTypeOK, NEW s \in Samples, Mix(s)
  PROVE  /\ AudioTypeOK'
         /\ Queue' = Append(IF Len(Queue) = Slots - 1 THEN Tail(Queue) ELSE Queue, s)
<1> USE DEF AudioTypeOK
<1>1. /\ buffer' = [buffer EXCEPT ![writePos] = s]
      /\ writePos' = After(writePos, 1)
      /\ readPos' = ReadAfter(readPos, writePos)
  BY DEF Mix, ReadPosFor, ReadAfter
<1>2. writePos' \in Slot
  BY <1>1, AfterType, SlotsAssumption
<1>3. /\ readPos' \in Slot
      /\ Content(buffer', readPos', writePos') = Added(Content(buffer, readPos, writePos), s)
  BY <1>1, MixContent
<1>4. AudioTypeOK'
  BY <1>1, <1>2, <1>3 DEF Mix, engine
<1> QED
  BY <1>3, <1>4 DEF Content, Count, Queue, Size, Added

LEMMA RenderStep ==
  ASSUME AudioTypeOK, Renders
  PROVE  /\ AudioTypeOK'
         /\ \E n \in 0 .. Len(Queue) :
              /\ heard' = SubSeq(Queue, 1, n)
              /\ Queue' = SubSeq(Queue, n + 1, Len(Queue))
<1> USE DEF AudioTypeOK
<1>0. Queue = Content(buffer, readPos, writePos) /\ Size = Count(readPos, writePos)
  BY DEF Queue, Size, Content, Count
<1>1. /\ Queue \in Seq(Samples) /\ Len(Queue) = Size
      /\ Size \in 0 .. Slots - 1
  BY <1>0, ContentProperties, CountProperties
<1>2. PICK n \in 1 .. Chunk :
        /\ heard' = [i \in 1 .. Taken(n) |-> buffer[After(readPos, i - 1)]]
        /\ readPos' = After(readPos, Taken(n))
  BY DEF Renders
<1>3. Taken(n) \in 0 .. Size
  BY <1>1, <1>2, ChunkAssumption, SlotsAssumption DEF Taken
<1>4. /\ readPos' \in Slot
      /\ heard' = SubSeq(Queue, 1, Taken(n))
      /\ Content(buffer, readPos', writePos) = SubSeq(Queue, Taken(n) + 1, Size)
  BY <1>0, <1>2, <1>3, TakeContent
<1>5. Queue' = Content(buffer, readPos', writePos)
  BY DEF Queue, Size, Content, Count, Renders
<1>6. heard' \in Seq(Samples)
  <2> DEFINE q == Queue
             k == Taken(n)
  <2>1. q \in Seq(Samples) /\ k \in 0 .. Len(q) /\ Len(q) \in Nat
    BY <1>1, <1>3
  <2> HIDE DEF q, k
  <2>2. \A i \in 1 .. k : q[i] \in Samples
    BY <2>1, ElementOfSeq
  <2>3. SubSeq(q, 1, k) \in Seq(Samples)
    BY <2>1, <2>2, SubSeqProperties
  <2> QED
    BY <1>4, <2>3 DEF q, k
<1>7. AudioTypeOK'
  BY <1>4, <1>6 DEF Renders, engine
<1> QED
  BY <1>1, <1>3, <1>4, <1>5, <1>7

LEMMA ClearStep ==
  ASSUME AudioTypeOK, Clears
  PROVE  AudioTypeOK' /\ Queue' = << >>
<1> USE DEF AudioTypeOK, Clears
<1>1. 0 \in Slot /\ Silence \in Samples
  BY SlotsAssumption, SilenceAssumption DEF Slot
<1>2. AudioTypeOK'
  BY <1>1 DEF engine
<1>3. Content(buffer', 0, 0) = << >>
  BY <1>1, NoContent
<1> QED
  BY <1>2, <1>3 DEF Queue, Size, Content, Count

\* The manager and its engine, which leave the ring alone.
LEMMA EngineStep ==
  ASSUME AudioTypeOK, NodesAddUp, playing => isStarted,
         StartsAudio(scene.audible) \/ StopsAudio \/ Interrupted
  PROVE  AudioTypeOK' /\ NodesAddUp' /\ (playing => isStarted)' /\ UNCHANGED <<ring, heard>>
<1> USE DEF AudioTypeOK, NodesAddUp, ring, engine
<1>1. CASE StartsAudio(scene.audible)
  <2>1. CASE UNCHANGED engine
    BY <1>1, <2>1 DEF StartsAudio
  <2>0. nodes \in Nat /\ failures \in Nat
    BY FailuresAssumption
  <2>2. CASE EngineFails /\ ~isStarted
    <3>1. nodes' = nodes + 1 /\ failures' = failures + 1 /\ failures < MaxFailures
      BY <2>2 DEF EngineFails
    <3>2. UNCHANGED <<isStarted, playing, ring, heard>>
      BY <1>1, <2>2 DEF StartsAudio, EngineFails
    <3>3. NodesAddUp' /\ nodes' \in Nat /\ failures' \in 0 .. MaxFailures
      BY <2>0, <2>2, <3>1, <3>2, FailuresAssumption
    <3> QED
      BY <3>2, <3>3
  <2>3. CASE EngineStarts /\ ~isStarted
    BY <1>1, <2>3 DEF StartsAudio, EngineStarts
  <2> QED
    BY <1>1, <2>1, <2>2, <2>3 DEF StartsAudio, SessionFails
<1>2. CASE StopsAudio
  <2>1. CASE ~isStarted
    BY <1>2, <2>1 DEF StopsAudio, NothingToStop
  <2>2. CASE isStarted
    <3>1. ~playing' /\ playing' = FALSE /\ isStarted' = FALSE /\ nodes' = nodes - 1
          /\ UNCHANGED <<failures, ring, heard>>
      BY <1>2, <2>2 DEF StopsAudio, NothingToStop, NodesLeft
    <3>2. nodes \in Nat /\ failures \in Nat /\ nodes = failures + 1
      BY <2>2, FailuresAssumption
    <3>3. nodes' \in Nat /\ nodes' = failures'
      BY <3>1, <3>2
    <3>4. NodesAddUp'
      BY <3>1, <3>2, <3>3
    <3> QED
      BY <3>1, <3>3, <3>4
  <2> QED
    BY <2>1, <2>2
<1>3. CASE Interrupted
  BY <1>3 DEF Interrupted
<1> QED
  BY <1>1, <1>2, <1>3

\* After a stop nothing is started; after a start the flag is the engine's.
LEMMA EngineEnds ==
  ASSUME AudioTypeOK, playing => isStarted
  PROVE  /\ StopsAudio => ~isStarted'
         /\ StartsAudio(scene.audible) /\ ~isStarted => isStarted' = playing'
<1>1. StopsAudio => ~isStarted'
  BY DEF AudioTypeOK, StopsAudio, NothingToStop, engine
<1>2. ASSUME StartsAudio(scene.audible), ~isStarted PROVE isStarted' = playing'
  BY <1>2 DEF AudioTypeOK, StartsAudio, SessionFails, EngineFails, EngineStarts, engine
<1> QED
  BY <1>1, <1>2

(***************************************************************************)
(* Steps.                                                                  *)
(***************************************************************************)
\* A step leaves these alone.
SameInputs == UNCHANGED inputs
SameSound == UNCHANGED audio

LEMMA InputsRemain == ASSUME Inputs, SameInputs PROVE Inputs'
<1> USE DEF SameInputs, Inputs, inputs, player, pending
<1>1. InputTypeOK'
  BY DEF InputTypeOK
<1>2. Called'
  BY DEF Called, Held
<1>3. LastWins' /\ Fingers'
  BY DEF LastWins, Fingers
<1> QED
  BY <1>1, <1>2, <1>3

LEMMA SoundRemains ==
  ASSUME AudioTypeOK, NodesAddUp, playing => isStarted, SameSound
  PROVE  AudioTypeOK' /\ NodesAddUp' /\ (playing => isStarted)' /\ isStarted' = isStarted
BY DEF SameSound, audio, ring, engine, AudioTypeOK, NodesAddUp

\* The types of this module's own variables.
Threads ==
  /\ scene \in Scenes /\ app \in App
  /\ backgrounded \in BOOLEAN /\ paused \in BOOLEAN /\ on \in BOOLEAN
  /\ pc \in {"check", "flag", "sample", "step", "run", "ran", "off", "draw",
             "drawing"}
  /\ input \in Input /\ game \in Input

Sound == AudioTypeOK /\ NodesAddUp /\ (playing => isStarted)

LEMMA Parts ==
  /\ IInv <=> /\ Threads /\ Inputs /\ Sound /\ Rests
              /\ app \in {"background", "returning", "starting"} => ~isStarted
  /\ IInv' <=> /\ Threads' /\ Inputs' /\ Sound' /\ Rests'
               /\ (app \in {"background", "returning", "starting"} => ~isStarted)'
BY DEF IInv, TypeOK, Threads, Inputs, Sound, Stopped

LEMMA EmulationStep == IInv /\ Emulates => IInv'
<1> SUFFICES ASSUME IInv, Emulates PROVE IInv'
  OBVIOUS
<1>1. /\ Threads /\ Inputs /\ Sound /\ Rests
      /\ app \in {"background", "returning", "starting"} => ~isStarted
  BY Parts
<1>2. Inputs'
  BY <1>1, InputsRemain DEF Emulates, SameInputs
<1>3. UNCHANGED <<scene, app, backgrounded, paused>>
  BY DEF Emulates, flags
<1>4. Sound' /\ isStarted' = isStarted
  <2>1. CASE UNCHANGED audio
    BY <1>1, <2>1, SoundRemains DEF Sound, SameSound
  <2>2. CASE Mixes
    <3>1. PICK s \in scene.samples : Mix(s)
      BY <2>2 DEF Mixes
    <3>2. s \in Samples
      BY <1>1, SceneType DEF Threads
    <3>3. AudioTypeOK'
      BY <1>1, <3>1, <3>2, MixStep DEF Sound
    <3> QED
      BY <1>1, <3>1, <3>3 DEF Sound, Mix, engine, NodesAddUp
  <2>3. CASE PowersOff
    <3>1. AudioTypeOK'
      BY <1>1, <2>3, ClearStep DEF Sound, PowersOff
    <3> QED
      BY <1>1, <2>3, <3>1 DEF PowersOff, Clears, Sound, engine, NodesAddUp
  <2> QED
    BY <2>1, <2>2, <2>3 DEF Emulates, SeesRunning, SeesFlag, SamplesInput, StepBegins,
                            FrameEnds, SeesWhetherToDraw, Draws
<1>5. Threads'
  <2> USE <1>1, <1>3 DEF Threads, At
  <2>1. CASE SamplesInput
    BY <2>1 DEF SamplesInput, CurrentTouch, Inputs, InputTypeOK, Input
  <2>2. CASE StepBegins
    BY <2>2 DEF StepBegins
  <2>3. CASE SeesWhetherToDraw
    BY <2>3 DEF SeesWhetherToDraw, Input, NoInput
  <2>4. CASE SeesRunning \/ SeesFlag \/ FrameEnds \/ Draws
    BY <2>4 DEF SeesRunning, SeesFlag, Away, FrameEnds, Draws
  <2>5. CASE Mixes \/ PowersOff
    BY <2>5 DEF Mixes, PowersOff
  <2> QED
    BY <2>1, <2>2, <2>3, <2>4, <2>5 DEF Emulates
<1>6. Rests'
  <2> USE <1>1, <1>3 DEF Rests, At
  <2>1. CASE SeesRunning \/ SeesFlag \/ SamplesInput \/ FrameEnds \/ Draws
    BY <2>1 DEF SeesRunning, SeesFlag, SamplesInput, Away, FrameEnds, Draws
  <2>2. CASE StepBegins \/ SeesWhetherToDraw
    BY <2>2 DEF StepBegins, SeesWhetherToDraw
  <2>3. CASE Mixes
    BY <2>3 DEF Mixes
  <2>4. CASE PowersOff
    BY <2>4 DEF PowersOff
  <2> QED
    BY <2>1, <2>2, <2>3, <2>4 DEF Emulates
<1> QED
  BY <1>1, <1>2, <1>3, <1>4, <1>5, <1>6, Parts

LEMMA AppStep == IInv /\ ChangesApp => IInv'
<1> SUFFICES ASSUME IInv, ChangesApp PROVE IInv'
  OBVIOUS
<1>1. /\ Threads /\ Inputs /\ Sound /\ Rests
      /\ app \in {"background", "returning", "starting"} => ~isStarted
  BY Parts
<1>2. Inputs'
  BY <1>1, InputsRemain DEF ChangesApp, SameInputs
<1>3. UNCHANGED <<scene, on, pc, input, game>>
  BY DEF ChangesApp, emulation
<1>4. CASE Leaves \/ PausesEmulation \/ Returns \/ ResumesEmulation
  <2>1. Sound' /\ isStarted' = isStarted
    BY <1>1, <1>4, SoundRemains
       DEF Sound, SameSound, Leaves, PausesEmulation, Returns, ResumesEmulation
  <2>2. Threads'
    BY <1>1, <1>3, <1>4
       DEF Threads, App, Leaves, PausesEmulation, Returns, ResumesEmulation, Resumed
  <2>3. Rests'
    BY <1>1, <1>3, <1>4
       DEF Rests, Locked, Leaves, PausesEmulation, Returns, ResumesEmulation
  <2>4. (app \in {"background", "returning", "starting"} => ~isStarted)'
    BY <1>1, <1>4, <2>1 DEF Leaves, PausesEmulation, Returns, ResumesEmulation
  <2> QED
    BY <1>2, <2>1, <2>2, <2>3, <2>4, Parts
<1>5. CASE Silences \/ Starts
  <2>1. Sound'
    BY <1>1, <1>5, EngineStep DEF Sound, Silences, Starts
  <2>2. Threads'
    BY <1>1, <1>3, <1>5 DEF Threads, App, Silences, Starts, flags
  <2>3. Rests'
    BY <1>1, <1>3, <1>5 DEF Rests, Silences, Starts, flags
  <2>4. (app \in {"background", "returning", "starting"} => ~isStarted)'
    BY <1>1, <1>5, EngineEnds DEF Sound, Silences, Starts
  <2> QED
    BY <1>2, <2>1, <2>2, <2>3, <2>4, Parts
<1> QED
  BY <1>4, <1>5 DEF ChangesApp

LEMMA PlayerStep == IInv /\ (Plays \/ Handles) => IInv'
<1> SUFFICES ASSUME IInv, Plays \/ Handles PROVE IInv'
  OBVIOUS
<1>1. /\ Threads /\ Inputs /\ Sound /\ Rests
      /\ app \in {"background", "returning", "starting"} => ~isStarted
  BY Parts
<1>2. Inputs'
  BY PlayStep
<1>3. UNCHANGED <<scene, app, backgrounded, paused, on, pc, input, game, audio>>
  BY DEF Plays, Handles, flags, emulation
<1>4. Sound' /\ isStarted' = isStarted
  BY <1>1, <1>3, SoundRemains DEF Sound, SameSound
<1>5. Threads' /\ Rests'
  BY <1>1, <1>3 DEF Threads, Rests
<1> QED
  BY <1>1, <1>2, <1>3, <1>4, <1>5, Parts

LEMMA SoundStep == IInv /\ Sounds => IInv'
<1> SUFFICES ASSUME IInv, Sounds PROVE IInv'
  OBVIOUS
<1>1. /\ Threads /\ Inputs /\ Sound /\ Rests
      /\ app \in {"background", "returning", "starting"} => ~isStarted
  BY Parts
<1>2. Inputs'
  BY <1>1, InputsRemain DEF Sounds, SameInputs
<1>3. UNCHANGED <<scene, app, backgrounded, paused, on, pc, input, game>>
  BY DEF Sounds, flags, emulation
<1>4. Sound' /\ isStarted' = isStarted
  <2>1. CASE Renders
    <3>1. AudioTypeOK'
      BY <1>1, <2>1, RenderStep DEF Sound
    <3> QED
      BY <1>1, <2>1, <3>1 DEF Sound, Renders, engine, NodesAddUp
  <2>2. CASE Interrupted
    BY <1>1, <2>2, EngineStep DEF Sound, Interrupted
  <2> QED
    BY <2>1, <2>2 DEF Sounds
<1>5. Threads' /\ Rests'
  BY <1>1, <1>3 DEF Threads, Rests
<1> QED
  BY <1>1, <1>2, <1>3, <1>4, <1>5, Parts

LEMMA Inductive == IInv /\ [Next]_vars => IInv'
<1> SUFFICES ASSUME IInv, [Next]_vars PROVE IInv'
  OBVIOUS
<1>1. CASE Next
  BY <1>1, EmulationStep, AppStep, PlayerStep, SoundStep DEF Next
<1>2. CASE UNCHANGED vars
  <2>1. /\ Threads /\ Inputs /\ Sound /\ Rests
        /\ app \in {"background", "returning", "starting"} => ~isStarted
    BY Parts
  <2>2. Inputs'
    BY <1>2, <2>1, InputsRemain DEF vars, SameInputs
  <2>3. Sound' /\ isStarted' = isStarted
    BY <1>2, <2>1, SoundRemains DEF vars, Sound, SameSound
  <2>4. Threads' /\ Rests'
    BY <1>2, <2>1 DEF vars, flags, emulation, Threads, Rests
  <2> QED
    BY <1>2, <2>1, <2>2, <2>3, <2>4, Parts DEF vars
<1> QED
  BY <1>1, <1>2

(***************************************************************************)
(* Theorems.                                                               *)
(***************************************************************************)
\* The inductive invariant holds in every state of every behaviour.
THEOREM Invariance == Spec => []IInv
BY Initial, Inductive, PTL DEF Spec

\* Every variable of the phone keeps its type: the positions stay in the ring and
\* masks within the keys.
THEOREM TypeCorrect == Spec => []TypeOK
<1>1. IInv => TypeOK
  BY DEF IInv
<1> QED
  BY <1>1, Invariance, PTL

\* For any number of gamepads and keys, once the main thread is done with a D-pad
\* no key is pressed that nobody holds.
THEOREM NoKeySticks == Spec => []NothingSticks
<1>1. IInv => NothingSticks
  <2> SUFFICES ASSUME IInv PROVE NothingSticks
    OBVIOUS
  <2>1. ASSUME Idle, NEW k \in pendingKeys PROVE k \in HeldOnPads \cup screenMask
    <3>1. Len(calls) = 0
      BY <2>1, EmptySeq DEF Idle
    <3>2. \A j \in padMask : Held(j)
      BY <3>1 DEF IInv, Called
    <3>3. k \in padMask \/ k \in screenMask
      BY <2>1 DEF IInv, LastWins
    <3> QED
      BY <3>2, <3>3, HeldIsMember
  <2>2. pendingTouch # None => touching
    BY DEF IInv, Fingers
  <2> QED
    BY <2>1, <2>2 DEF NothingSticks
<1> QED
  BY <1>1, Invariance, PTL

\* Wherever the emulation thread is when the app leaves, nothing runs, is drawn or
\* plays in the background.
THEOREM Resting == Spec => []RestsInBackground
<1>1. IInv => RestsInBackground
  BY DEF IInv, Rests, Stopped, RestsInBackground
<1> QED
  BY <1>1, Invariance, PTL

\* For any number of failures, a node is left behind for each and for nothing else.
THEOREM NodesAreAccountedFor == Spec => []NodesAddUp
<1>1. IInv => NodesAddUp
  BY DEF IInv
<1> QED
  BY <1>1, Invariance, PTL

\* Whatever interruptions came before, a return makes the manager's flag true to
\* the engine.
THEOREM FlagsAgree == Spec => FlagIsTrueAgain
<1>1. IInv /\ [Next]_vars => [app = "starting" => isStarted' = playing']_<<app>>
  <2> SUFFICES ASSUME IInv, [Next]_vars, app' # app, app = "starting"
               PROVE  isStarted' = playing'
    OBVIOUS
  <2>1. ChangesApp
    BY DEF Next, vars, Emulates, Plays, Handles, Sounds
  <2>2. Starts
    BY <2>1 DEF ChangesApp, Leaves, PausesEmulation, Silences, Returns, ResumesEmulation
  <2>3. ~isStarted /\ AudioTypeOK /\ (playing => isStarted)
    BY DEF IInv, TypeOK, Stopped
  <2> QED
    BY <2>2, <2>3, EngineEnds DEF Starts
<1> QED
  BY <1>1, Invariance, PTL DEF Spec, FlagIsTrueAgain

\* For every size, the ring of the SPU with the reads of the audio engine is a
\* queue of Slots - 1 samples that loses only its oldest, and only when it is full.
THEOREM RingIsFifo == Spec => PlaysAsFifo
<1>1. Init => Fifo!Init
  <2> SUFFICES ASSUME Init PROVE Fifo!Init
    OBVIOUS
  <2>1. 0 \in Slot
    BY SlotsAssumption DEF Slot
  <2>2. Content(buffer, 0, 0) = << >>
    BY <2>1, NoContent
  <2> QED
    BY <2>2 DEF Init, InitAudio, Fifo!Init, Queue, Size, Content, Count, Power
<1>2. IInv /\ [Next]_vars => [Fifo!Next]_<<Queue, heard, Power>>
  <2> SUFFICES ASSUME IInv, [Next]_vars PROVE Fifo!Next \/ UNCHANGED <<Queue, heard, Power>>
    BY DEF Fifo!Next
  <2>1. AudioTypeOK /\ Sound /\ Threads
    BY Parts DEF Sound
  <2>a. (pc \in {"run", "ran"} => on) /\ (pc = "off" => ~on)
    BY DEF IInv, Rests
  <2>2. ASSUME UNCHANGED <<ring, heard, Power>> PROVE UNCHANGED <<Queue, heard, Power>>
    BY <2>2 DEF ring, Queue, Size
  <2>b. ASSUME UNCHANGED <<ring, heard, on, pc>> PROVE UNCHANGED <<Queue, heard, Power>>
    BY <2>2, <2>b DEF Power
  <2>3. CASE Emulates
    <3>1. CASE Mixes
      <4>1. PICK s \in scene.samples : Mix(s)
        BY <3>1 DEF Mixes
      <4>2. s \in Samples
        BY <2>1, SceneType DEF Threads
      <4>3. Power # "off" /\ Power' = IF Power = "last" THEN "off" ELSE "on"
        BY <2>a, <3>1 DEF Mixes, At, Power
      <4>4. Fifo!Put(s)
        BY <2>1, <4>1, <4>2, <4>3, MixStep DEF Fifo!Put, Mix
      <4> QED
        BY <4>2, <4>4 DEF Fifo!Next
    <3>2. CASE PowersOff
      <4>1. Fifo!Clear
        <5>1. Power = "on" /\ Power' = "last"
          BY <2>a, <3>2 DEF PowersOff, At, Power
        <5> QED
          BY <2>1, <3>2, <5>1, ClearStep DEF PowersOff, Clears, Fifo!Clear
      <4> QED
        BY <4>1 DEF Fifo!Next
    <3>3. CASE FrameEnds
      <4>1. UNCHANGED <<Queue, heard>>
        BY <3>3 DEF FrameEnds, audio, ring, Queue, Size
      <4>2. Power' = Power \/ (Power = "last" /\ Power' = "off")
        BY <2>a, <3>3 DEF FrameEnds, At, Power
      <4> QED
        BY <4>1, <4>2 DEF Fifo!Next, Fifo!Stop
    <3>4. CASE SeesRunning \/ SeesFlag \/ SamplesInput \/ StepBegins
               \/ SeesWhetherToDraw \/ Draws
      <4>1. UNCHANGED <<ring, heard>>
        BY <3>4 DEF SeesRunning, SeesFlag, SamplesInput, StepBegins,
                    SeesWhetherToDraw, Draws, audio
      <4>2. Power' = Power
        BY <3>4 DEF SeesRunning, SeesFlag, SamplesInput, StepBegins,
                    SeesWhetherToDraw, Draws, At, Power
      <4> QED
        BY <2>2, <4>1, <4>2
    <3> QED
      BY <2>3, <3>1, <3>2, <3>3, <3>4 DEF Emulates
  <2>4. CASE ChangesApp
    <3>1. CASE Silences \/ Starts
      <4>1. UNCHANGED <<ring, heard>>
        BY <2>1, <3>1, EngineStep DEF Sound, Silences, Starts
      <4> QED
        BY <2>b, <2>4, <4>1 DEF ChangesApp, emulation
    <3>2. CASE Leaves \/ PausesEmulation \/ Returns \/ ResumesEmulation
      <4>1. UNCHANGED <<ring, heard>>
        BY <3>2 DEF Leaves, PausesEmulation, Returns, ResumesEmulation, audio
      <4> QED
        BY <2>b, <2>4, <4>1 DEF ChangesApp, emulation
    <3> QED
      BY <2>4, <3>1, <3>2 DEF ChangesApp
  <2>5. CASE Plays \/ Handles
    BY <2>b, <2>5 DEF Plays, Handles, emulation, audio
  <2>6. CASE Sounds
    <3>1. on' = on /\ pc' = pc /\ Power' = Power
      BY <2>6 DEF Sounds, emulation, Power
    <3>2. CASE Renders
      <4>1. Fifo!Take
        BY <2>1, <3>1, <3>2, RenderStep DEF Fifo!Take
      <4> QED
        BY <4>1 DEF Fifo!Next
    <3>3. CASE Interrupted
      BY <2>b, <3>1, <3>3 DEF Interrupted
    <3> QED
      BY <2>6, <3>2, <3>3 DEF Sounds
  <2>7. CASE UNCHANGED vars
    BY <2>b, <2>7 DEF vars, emulation, audio
  <2> QED
    BY <2>3, <2>4, <2>5, <2>6, <2>7 DEF Next
<1> QED
  BY <1>1, <1>2, Invariance, PTL DEF Spec, PlaysAsFifo, Fifo!Spec
=============================================================================
