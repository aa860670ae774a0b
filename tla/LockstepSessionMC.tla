-------------------------- MODULE LockstepSessionMC --------------------------
(***************************************************************************)
(* Values of the constants of LockstepSession for TLC: short sessions of   *)
(* the two phones under equal and under different launch arguments.        *)
(***************************************************************************)
EXTENDS LockstepProgress, Configuration

\* Both phones were started with the same arguments.
EveryThreeFrames == [p \in Phone |-> 3]
ThreeFrames == [p \in Phone |-> 3]
FourFrames == [p \in Phone |-> 4]

\* Only the controller was given a frame limit.
OnlyControllerStops == [p \in Phone |-> IF p = "controller" THEN 4 ELSE NoLimit]

\* The clamps of the configuration, on absent arguments and on numbers around
\* every bound: whatever the phones were given, the constants are those the
\* session is checked for.
ASSUME ArgumentsAssumption ==
  \A given \in {<<>>} \cup {<<n>> : n \in -2 .. 10} :
    /\ frameWindow(given) \in 1 .. 8
    /\ checkpointInterval(given) \in Nat \ {0}
    /\ testFrameLimit(given) \in Nat \cup {NoLimit}
=============================================================================
