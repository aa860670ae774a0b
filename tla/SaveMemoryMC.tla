----------------------------- MODULE SaveMemoryMC -----------------------------
(***************************************************************************)
(* Values of the constants of SaveMemory for TLC: a byte of two values, a  *)
(* game with the tiny memory of two halves and one with a flash memory.    *)
(***************************************************************************)
EXTENDS SaveMemory

Cartridges == [g \in Games |-> IF g = "platformer" THEN "tiny" ELSE "flash"]
Lengths == [g \in Games |-> IF g = "platformer" THEN 4 ELSE 1]

\* The other phone has written every second byte; it is between two commands, or
\* has sent a write command with one byte of its address.
Idle(g) ==
  [selected |-> FALSE, hold |-> FALSE, SPIHold |-> FALSE, SPIDataPos |-> 0,
   SPIData |-> 0, SRAM |-> [i \in 1 .. Lengths[g] |-> i % 2],
   SRAMCmd |-> "other", SRAMAddr |-> 0, writable |-> FALSE,
   sent |-> [opcode |-> "other", address |-> <<>>, count |-> 0]]
InCommand(g) ==
  [Idle(g) EXCEPT !.selected = TRUE, !.hold = TRUE, !.SPIHold = TRUE,
     !.SPIDataPos = 1, !.SRAMCmd = "write", !.SRAMAddr = 1, !.writable = TRUE,
     !.sent = [opcode |-> "write", address |-> <<1>>, count |-> 1]]
PeerSnapshots == [g \in Games |-> IF g = "platformer" THEN {InCommand(g)} ELSE {Idle(g)}]
Bytes == [g \in Games |-> IF g = "platformer" THEN 3 ELSE 5]
=============================================================================
