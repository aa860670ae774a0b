---------------------------- MODULE Configuration ----------------------------
(***************************************************************************)
(* How launch arguments become the constants of a session.  The value of   *)
(* an argument is <<n>> when it reads as the number n, and <<>> when it is *)
(* absent or reads as none.                                                *)
(***************************************************************************)
EXTENDS Integers, Sequences

Given == {<<>>} \cup {<<n>> : n \in Int}

Or(given, default) == IF given = <<>> THEN default ELSE given[1]

\* UInt64.init takes no negative numbers.
Unsigned(given) == IF Or(given, 0) >= 0 THEN given ELSE <<>>

AtLeast(low, n) == IF n < low THEN low ELSE n

AtMost(high, n) == IF n > high THEN high ELSE n

frameWindow(given) == AtMost(8, AtLeast(1, Or(given, 4)))

checkpointInterval(given) == AtLeast(1, Or(Unsigned(given), 60))

\* LockstepSession's NoLimit stands for nil.
testFrameLimit(given) == Or(Unsigned(given), -1)
=============================================================================
