------------------------------ MODULE SaveMemory ------------------------------
(***************************************************************************)
(* The save memory of a game: the SPI registers of the cartridge slot      *)
(* (NDSCartSlot), the memory chip of the inserted cartridge (CartRetail),  *)
(* and save.sav, the one file all games of a phone are saved in, through   *)
(* launches, crashes and the savestates that two-phone sessions load.      *)
(*                                                                         *)
(* The game is the environment: it writes AUXSPICNT and AUXSPIDATA as it   *)
(* likes.  A byte has Base values instead of 256.  The first byte of a     *)
(* command is an opcode, named by what it does to the chip.                *)
(***************************************************************************)
EXTENDS Integers, Sequences

CONSTANTS
  Games,       \* the games on the phone
  Chip,        \* the memory of each game's cartridge (SRAMType)
  Length,      \* SRAMLength of each game's cartridge
  Base,        \* values of a byte
  MaxBytes,    \* bytes each game sends after an opcode, at most
  Snapshots,   \* the snapshots of a game that a session may load
  Cuts         \* how many bytes of a save that is cut short reach the file

NoGame == "none"
Byte == 0 .. Base - 1
Memory(g) == [1 .. Length[g] -> Byte]

\* Opcodes, named by what they do to the chip.  "other" stands for every opcode
\* that neither moves the address nor touches the memory, such as a read of the
\* status, and for those the chip does not know.
Reads   == {"read", "readHigh", "fastRead"}
Writes  == {"write", "writeHigh", "program"}
Erases  == {"eraseSector", "erasePage"}
Plain   == {"writeEnable", "writeDisable", "writeStatus", "other"}
Opcodes == Reads \cup Writes \cup Erases \cup Plain

\* A command as the game sent it: its opcode, its address bytes, and how many
\* bytes have followed the opcode.
Command == [opcode : Opcodes, address : Seq(Byte), count : Nat]

\* The commands with an address that a chip knows.
Known(g) ==
  CASE Chip[g] = "tiny"   -> {"read", "readHigh", "write", "writeHigh"}
    [] Chip[g] = "eeprom" -> {"read", "write"}
    [] Chip[g] = "flash"  -> {"read", "fastRead", "write", "program"} \cup Erases

\* Bytes of an address.
AddressBytes(g) ==
  CASE Chip[g] = "tiny"   -> 1
    [] Chip[g] = "eeprom" -> IF Length[g] > Base * Base THEN 3 ELSE 2
    [] Chip[g] = "flash"  -> 3

\* The second half of a tiny memory has commands of its own.
Offset(cmd) == IF cmd \in {"readHigh", "writeHigh"} THEN Base ELSE 0

\* Positions of a command before its data: opcode, address, and the dummy byte
\* of a fast read.
Header(g, cmd) == 1 + AddressBytes(g) + (IF cmd = "fastRead" THEN 1 ELSE 0)

\* The address in a command, high byte first.
Address(bytes) ==
  CASE Len(bytes) = 0 -> 0
    [] Len(bytes) = 1 -> bytes[1]
    [] Len(bytes) = 2 -> bytes[1] * Base + bytes[2]
    [] Len(bytes) = 3 -> (bytes[1] * Base + bytes[2]) * Base + bytes[3]

\* The cell a command has come to: the first byte after the header is that of its
\* address.
CellOf(g, command) ==
  ((Address(command.address) + Offset(command.opcode) + command.count
      - Header(g, command.opcode)) % Length[g]) + 1

\* What a command leaves in the registers: they tell where it has come to, and a
\* read is answered with the byte there.  Snapshots come from a phone that runs the
\* same chip.
Follows(g, s) ==
  LET command == s.sent
      header == Header(g, command.opcode)
      address == Address(command.address)
  IN  command.opcode \in Reads \cup Writes =>
        /\ command.opcode \in Known(g)
        /\ s.SRAMCmd = command.opcode
        /\ s.SPIDataPos = command.count
        /\ Len(command.address) = IF command.count <= AddressBytes(g)
                                  THEN command.count ELSE AddressBytes(g)
        /\ s.SRAMAddr = (address + (IF command.count < header THEN 0
                                    ELSE command.count - header + 1)) % Length[g]
        /\ command.opcode \in Reads /\ command.count >= header
             => s.SPIData = s.SRAM[CellOf(g, command)]

\* The slot's and the chip's part of a savestate, which may have been taken in
\* the middle of a command.
Snapshot(g) ==
  [selected : BOOLEAN, hold : BOOLEAN, SPIHold : BOOLEAN, SPIDataPos : Nat,
   SPIData : Byte, SRAM : Memory(g), SRAMCmd : Opcodes,
   SRAMAddr : 0 .. Length[g] - 1, writable : BOOLEAN, sent : Command]

ASSUME GamesAssumption  == NoGame \notin Games
ASSUME BaseAssumption   == Base \in Nat \ {0, 1}
ASSUME ChipAssumption   == Chip \in [Games -> {"tiny", "eeprom", "flash"}]
ASSUME LengthAssumption == Length \in [Games -> Nat \ {0}]
ASSUME BoundAssumption  == MaxBytes \in [Games -> Nat]
ASSUME SnapshotsAssumption ==
  /\ DOMAIN Snapshots = Games
  /\ \A g \in Games : Snapshots[g] \subseteq {s \in Snapshot(g) : Follows(g, s)}
ASSUME CutsAssumption   == Cuts \subseteq Nat

VARIABLES
  game,        \* the inserted cartridge, NoGame while the app is not running
  selected,    \* AUXSPICNT bit 13: the slot is in SPI mode
  hold,        \* AUXSPICNT bit 6: keep the chip selected after a byte
  SPIHold,     \* the chip is selected
  SPIDataPos,  \* position of the last byte within its command
  SPIData,     \* what the chip answered to it
  SRAM,        \* the memory; cell i + 1 holds the byte of address i
  SRAMCmd,     \* opcode of the command
  SRAMAddr,    \* address register, modulo the memory's length
  writable,    \* SRAMStatus bit 1: a write command is let through
  saving,      \* WriteNDSSave has opened the file and not yet closed it
  file,        \* the bytes of save.sav, <<>> where there is none
  sent,        \* history: the latest command, as the game sent it; "other" stands
               \* for all those without an address
  touched,     \* history: the cells the command at hand has changed
  lost,        \* history: the cells whose bytes the program has failed to save,
               \* where the file holds other bytes
  left         \* history: of each game's latest run, the bytes the next one has to
               \* find

slot    == <<selected, hold, SPIHold, SPIDataPos, SPIData>>
chip    == <<SRAM, SRAMCmd, SRAMAddr, writable>>
storage == <<saving, file>>
history == <<sent, touched, lost, left>>
vars    == <<game, slot, chip, storage, history>>

(***************************************************************************)
(* The chips.                                                              *)
(***************************************************************************)
\* Mutant: the second half's commands work on the first half.
FirstHalfCell == (SRAMAddr % Length[game]) + 1

\* The cell the address register stands for.
Cell == ((SRAMAddr + Offset(SRAMCmd)) % Length[game]) + 1

\* Bytes an erase command clears.
EraseSize == IF SRAMCmd = "eraseSector" THEN Base * Base ELSE Base

\* What may have reached the file when the save ends: the disk may be full, the
\* process may be stopped.
Written == {SRAM} \cup {SubSeq(SRAM, 1, n) : n \in Cuts \cap 0 .. Len(SRAM)}

\* Mutant: the file's bytes are not passed on.
NewChip(g, bytes) == [i \in 1 .. Length[g] |-> Base - 1]

\* What a memory of game g becomes from the bytes of a file: CartRetail takes
\* what fits and leaves the rest as in a new chip.
Loaded(g, bytes) ==
  [i \in 1 .. Length[g] |-> IF i <= Len(bytes) THEN bytes[i] ELSE Base - 1]

(***************************************************************************)
(* The file.                                                               *)
(***************************************************************************)
Nothing == [c \in {} |-> 0]

\* Those of these cells that the file has other bytes for after the step.
Missing(cells) == {c \in cells : Loaded(game', file')[c] # SRAM'[c]}

\* WriteNDSSave opens the file, which empties it, whichever game's save was in it,
OpensFile ==
  /\ saving' = TRUE
  /\ file' = <<>>
  /\ touched' = {} /\ lost' = {}
  /\ left' = [g \in Games |-> Nothing]

\* or it cannot: the file stays as it was and these cells are not saved.  The chip
\* is not told.
CannotOpen(cells) ==
  /\ UNCHANGED <<storage, left>>
  /\ touched' = {}
  /\ lost' = Missing(lost \cup cells)

WriteNDSSave(cells) == OpensFile \/ CannotOpen(cells)

\* It writes all of the memory and closes the file.  Whether all of it was
\* written is not looked at.
WritesFile ==
  /\ saving
  /\ saving' = FALSE
  /\ UNCHANGED <<game, slot, chip, sent, touched, left>>
  /\ \E written \in Written :
       /\ file' = written
       /\ lost' = Missing(Len(written) + 1 .. Len(SRAM))

(***************************************************************************)
(* The slot.                                                               *)
(***************************************************************************)
Running == game # NoGame /\ ~saving

\* Leaving SPI mode with the hold bit set deselects the chip.
HoldAfter(on) == SPIHold /\ ~(selected /\ hold /\ ~on)

WriteSPICnt(on, keep) ==
  /\ Running
  /\ selected' = on
  /\ hold' = keep
  /\ SPIHold' = HoldAfter(on)
  /\ UNCHANGED <<game, SPIDataPos, SPIData, chip, storage, sent, left>>
  /\ IF SPIHold' = SPIHold THEN UNCHANGED <<touched, lost>>
     ELSE touched' = {} /\ lost' = Missing(lost \cup touched)

\* The part of WriteSPIData that is not the chip's.  The byte is the last of its
\* command unless the hold bit is set.  A byte the game writes outside of SPI
\* mode, with the slot disabled (bit 15), or while another is being transferred
\* (bit 7), is dropped and no step.
Transfers(pos) ==
  /\ Running
  /\ selected
  /\ SPIHold' = hold
  /\ SPIDataPos' = pos
  /\ UNCHANGED <<game, selected, hold>>

Last == ~hold

(***************************************************************************)
(* The chip: CartRetail::SPIWrite.                                         *)
(***************************************************************************)
\* The first byte of a command.
SendsOpcode(op) ==
  /\ ~SPIHold
  /\ Transfers(0)
  /\ sent' = [opcode |-> IF op \in Plain THEN "other" ELSE op,
              address |-> <<>>, count |-> 0]
  /\ CASE op \in {"writeEnable", "writeDisable"} ->
            /\ writable' = (op = "writeEnable")
            /\ SPIData' = 0
            /\ UNCHANGED <<SRAMCmd, SRAMAddr>>
       [] OTHER ->
            /\ SRAMCmd' = op
            /\ SRAMAddr' = 0
            /\ SPIData' = Base - 1
            /\ UNCHANGED writable
  /\ touched' = {}
  /\ UNCHANGED <<SRAM, storage, lost, left>>

\* The address register takes one more byte; that of a tiny memory is no longer.
Shifted(byte) ==
  (IF Chip[game] = "tiny" THEN byte ELSE SRAMAddr * Base + byte) % Length[game]

\* The address bytes, among which an erase command clears its cells.
TakesAddress(pos, byte) ==
  /\ pos <= AddressBytes(game)
  /\ LET first == Shifted(byte)
         erases == SRAMCmd \in Erases /\ pos = AddressBytes(game) /\ writable
     IN  /\ SRAMAddr' = (IF erases THEN (first + EraseSize) % Length[game]
                         ELSE first)
         /\ SRAM' = [c \in DOMAIN SRAM |->
              IF erases /\ (c - 1 - first) % Length[game] < EraseSize THEN 0
              ELSE SRAM[c]]
  /\ SPIData' = 0

\* The dummy byte of a fast read, and what follows the address of an erase
\* command.
SkipsByte(pos) ==
  /\ pos > AddressBytes(game)
  /\ SRAMCmd \in Erases \/ pos < Header(game, SRAMCmd)
  /\ SPIData' = 0
  /\ UNCHANGED <<SRAM, SRAMAddr>>

\* Mutants: the address register stays where it is; it runs over.
SameAddress == SRAMAddr
UnboundedAddress == SRAMAddr + 1

NextAddress == (SRAMAddr + 1) % Length[game]

\* A byte of data is read or, on a writable chip, written.  Page program clears
\* its bytes.
TakesData(pos, byte) ==
  /\ pos >= Header(game, SRAMCmd)
  /\ SRAMCmd \in Reads \cup Writes
  /\ SRAMAddr' = NextAddress
  /\ IF SRAMCmd \in Reads
     THEN SPIData' = SRAM[Cell] /\ UNCHANGED SRAM
     ELSE /\ SPIData' = 0
          /\ SRAM' = IF writable
                     THEN [SRAM EXCEPT ![Cell] =
                             IF SRAMCmd = "program" THEN 0 ELSE byte]
                     ELSE SRAM

\* Mutant: erasing is not a way of writing.
SavesWrites == SRAMCmd \in Known(game) \cap Writes /\ Last

\* The last byte of a write command saves the memory.
Saves == SRAMCmd \in Known(game) \ Reads /\ Last

\* Writing the status of an EEPROM leaves only its own bits.
ClearsStatus(pos) ==
  SRAMCmd = "writeStatus" /\ pos = 1 /\ Chip[game] # "flash"

Changed == {c \in DOMAIN SRAM : SRAM'[c] # SRAM[c]}

\* A further byte of a command.
SendsByte(byte) ==
  LET pos == SPIDataPos + 1 IN
  /\ SPIHold
  /\ sent.count < MaxBytes[game]
  /\ Transfers(pos)
  /\ sent' = [sent EXCEPT !.count = @ + 1,
                          !.address = IF /\ sent.opcode # "other"
                                         /\ pos <= AddressBytes(game)
                                      THEN Append(@, byte) ELSE @]
  /\ IF SRAMCmd \in Known(game)
     THEN TakesAddress(pos, byte) \/ SkipsByte(pos) \/ TakesData(pos, byte)
     ELSE SPIData' = Base - 1 /\ UNCHANGED <<SRAM, SRAMAddr>>
  /\ writable' = (writable /\ ~Saves /\ ~ClearsStatus(pos))
  /\ IF Saves THEN WriteNDSSave(touched \cup Changed)
     ELSE touched' = touched \cup Changed /\ UNCHANGED <<storage, lost, left>>
  /\ UNCHANGED SRAMCmd

(***************************************************************************)
(* The app.                                                                *)
(***************************************************************************)
SlotReset ==
  /\ selected' = FALSE /\ hold' = FALSE
  /\ SPIHold' = FALSE /\ SPIDataPos' = 0 /\ SPIData' = 0

ChipReset == SRAMCmd' = "other" /\ SRAMAddr' = 0 /\ writable' = FALSE

NothingSent ==
  /\ sent' = [opcode |-> "other", address |-> <<>>, count |-> 0]
  /\ touched' = {}

\* loadROM: one game per run of the app.  A file that cannot be read is taken for
\* one that is not there.
Launches(g) ==
  /\ game = NoGame
  /\ game' = g
  /\ \E bytes \in {file, <<>>} :
       /\ SRAM' = Loaded(g, bytes)
       /\ UNCHANGED storage
       /\ lost' = IF bytes = file THEN {} ELSE Missing(DOMAIN SRAM')
  /\ left' = [left EXCEPT ![g] = Nothing]
  /\ SlotReset /\ ChipReset /\ NothingSent

\* The bytes that would not be found if the process ended now: those of the
\* command at hand, and those that were not saved.
AtRisk == lost \cup (IF SPIHold THEN touched ELSE {})

\* The process ends, by a crash or by iOS, maybe in the middle of a save, of
\* which any part may have reached the file.
Ends ==
  /\ game # NoGame
  /\ game' = NoGame
  /\ saving' = FALSE
  /\ \E written \in (IF saving THEN Written ELSE {file}) :
       LET safe == IF saving THEN 1 .. Len(written) ELSE DOMAIN SRAM \ AtRisk
       IN  /\ file' = written
           /\ left' = [left EXCEPT ![game] = [c \in safe |-> SRAM[c]]]
  /\ SRAM' = <<>> /\ lost' = {}
  /\ SlotReset /\ ChipReset /\ NothingSent

\* A session loads the snapshot of the other phone; DoSavestate saves the memory
\* it has loaded, if the file can be opened.
LoadsState(snapshot) ==
  /\ Running
  /\ selected' = snapshot.selected /\ hold' = snapshot.hold
  /\ SPIHold' = snapshot.SPIHold
  /\ SPIDataPos' = snapshot.SPIDataPos /\ SPIData' = snapshot.SPIData
  /\ SRAM' = snapshot.SRAM
  /\ SRAMCmd' = snapshot.SRAMCmd /\ SRAMAddr' = snapshot.SRAMAddr
  /\ writable' = snapshot.writable
  /\ sent' = snapshot.sent
  /\ UNCHANGED game
  /\ WriteNDSSave(DOMAIN SRAM')

(***************************************************************************)
(* The specification.                                                      *)
(***************************************************************************)
\* The app is not running and has saved nothing yet.
Init ==
  /\ game = NoGame
  /\ selected = FALSE /\ hold = FALSE
  /\ SPIHold = FALSE /\ SPIDataPos = 0 /\ SPIData = 0
  /\ SRAM = <<>>
  /\ SRAMCmd = "other" /\ SRAMAddr = 0 /\ writable = FALSE
  /\ saving = FALSE /\ file = <<>>
  /\ sent = [opcode |-> "other", address |-> <<>>, count |-> 0]
  /\ touched = {} /\ lost = {}
  /\ left = [g \in Games |-> Nothing]

\* The hold bit has no meaning outside SPI mode; a game that leaves the mode
\* clears it.
Game ==
  \/ \E on, keep \in BOOLEAN : (keep => on) /\ WriteSPICnt(on, keep)
  \/ game # NoGame /\ \E op \in Known(game) \cup Plain : SendsOpcode(op)
  \/ \E byte \in Byte : SendsByte(byte)

Next ==
  \/ Game \/ WritesFile
  \/ \E g \in Games : Launches(g)
  \/ game # NoGame /\ \E snapshot \in Snapshots[game] : LoadsState(snapshot)
  \/ Ends

Spec == Init /\ [][Next]_vars

(***************************************************************************)
(* Properties.                                                             *)
(***************************************************************************)
TypeOK ==
  /\ game \in Games \cup {NoGame}
  /\ selected \in BOOLEAN /\ hold \in BOOLEAN /\ SPIHold \in BOOLEAN
  /\ SPIDataPos \in Nat /\ SPIData \in Byte
  /\ IF game = NoGame THEN SRAM = <<>> /\ SRAMAddr = 0
     ELSE SRAM \in Memory(game) /\ SRAMAddr \in 0 .. Length[game] - 1
  /\ SRAMCmd \in Opcodes
  /\ writable \in BOOLEAN /\ saving \in BOOLEAN
  /\ file \in Seq(Byte)
  /\ sent \in Command
  /\ touched \subseteq DOMAIN SRAM /\ lost \subseteq DOMAIN SRAM
  /\ DOMAIN left = Games
  /\ \A g \in Games :
       /\ DOMAIN left[g] \subseteq 1 .. Length[g]
       /\ left[g] \in [DOMAIN left[g] -> Byte]

\* If the process ended now, the next launch of this game would find every byte as
\* the game sees it, but for those of a write command that is not finished or was
\* cut off by deselecting the chip, those of a save whose file could not be opened,
\* and those past the end of a save that was cut short.  The next save that the
\* file takes in full makes up for all of them.
SafeToEnd ==
  game # NoGame /\ ~saving =>
    \A c \in DOMAIN SRAM : Loaded(game, file)[c] # SRAM[c] => c \in AtRisk

\* A launch finds the bytes that the game's memory held when its latest run ended,
\* but for those that were at risk, whatever other games have been launched in
\* between; unless one of them has been saved or the file cannot be read.
LaunchFindsSave ==
  [][\A g \in Games :
       game = NoGame /\ game' = g =>
         \A c \in DOMAIN left[g] \ lost' : SRAM'[c] = left[g][c]]_vars

LatestCell == CellOf(game, sent)

\* A read answers with the byte at the address the game sent and counted on
\* from, however the command was held, timed and split.
ReadsAsAddressed ==
  /\ game # NoGame /\ sent.opcode \in Reads \cap Known(game)
  /\ sent.count >= Header(game, sent.opcode)
  => SPIData = SRAM[LatestCell]

\* A write changes no cell but the one the game addressed.
WritesAsAddressed ==
  [][\A c \in DOMAIN SRAM :
       /\ sent.opcode \in Writes /\ game' = game /\ SRAM'[c] # SRAM[c]
       /\ \E byte \in Byte : SendsByte(byte)
       => c = LatestCell']_vars
=============================================================================
