------------------------------ MODULE AudioFifo ------------------------------
(***************************************************************************)
(* What the audio output of the emulator promises its reader: samples in   *)
(* the order they were mixed, without a gap, except that a queue that is   *)
(* full loses its oldest sample to a new one.                              *)
(***************************************************************************)
EXTENDS Integers, Sequences

CONSTANTS Samples, Capacity

VARIABLES
  queue,
  heard,  \* the samples taken last
  power   \* "on"; "last": one more sample may come; "off"

Put(s) ==
  /\ power # "off"
  /\ queue' = Append(IF Len(queue) = Capacity THEN Tail(queue) ELSE queue, s)
  /\ power' = IF power = "last" THEN "off" ELSE "on"
  /\ UNCHANGED heard

Take ==
  /\ \E n \in 0 .. Len(queue) :
       /\ heard' = SubSeq(queue, 1, n)
       /\ queue' = SubSeq(queue, n + 1, Len(queue))
  /\ UNCHANGED power

\* The console is switched off.
Clear ==
  /\ power = "on" /\ power' = "last"
  /\ queue' = <<>>
  /\ UNCHANGED heard

\* The console stops without another sample.
Stop ==
  /\ power = "last" /\ power' = "off"
  /\ UNCHANGED <<queue, heard>>

Init == queue = <<>> /\ heard = <<>> /\ power = "on"

Next == Take \/ Clear \/ Stop \/ \E s \in Samples : Put(s)

Spec == Init /\ [][Next]_<<queue, heard, power>>
=============================================================================
