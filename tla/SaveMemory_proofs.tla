--------------------------- MODULE SaveMemory_proofs ---------------------------
(***************************************************************************)
(* Proofs about SaveMemory, for every set of games, chips, memory lengths  *)
(* and values of a byte, and wherever a save may be cut short.             *)
(***************************************************************************)
EXTENDS SaveMemory, SequenceTheorems, TLAPS

\* Cells change only in commands that save the memory in the end.
Touching == touched # {} => game # NoGame /\ SRAMCmd \in Known(game) \ Reads

\* The file holds what the latest runs have left.
Kept ==
  /\ \A g \in Games : \A c \in DOMAIN left[g] : Loaded(g, file)[c] = left[g][c]
  /\ saving => \A g \in Games : left[g] = Nothing

IInv == TypeOK /\ SafeToEnd /\ Touching /\ Kept

\* Addresses wrap around within the memory.
LEMMA Wraps == \A a \in Nat : \A n \in Nat \ {0} : a % n \in 0 .. n - 1
  OBVIOUS

\* Remainders: what is taken modulo n may be taken earlier or later.
LEMMA Quotient ==
  ASSUME NEW a \in Nat, NEW n \in Nat \ {0}
  PROVE  a \div n \in Nat /\ a = n * (a \div n) + (a % n)
OBVIOUS

LEMMA Unique ==
  ASSUME NEW n \in Nat \ {0}, NEW d \in Nat, NEW q \in Nat,
         NEW m \in 0 .. n - 1, NEW r \in 0 .. n - 1, n * q + r = n * d + m
  PROVE  r = m
<1>1. CASE q = d
  BY <1>1
<1>2. ASSUME NEW x \in Nat, NEW y \in Nat, x > y PROVE n * x >= n * y + n
  <2>1. PICK z \in Nat : x = y + 1 + z
    <3>1. x - y - 1 \in Nat /\ x = y + 1 + (x - y - 1)
      BY <1>2
    <3> QED
  BY <3>1
  <2>2. n * x = n * y + n + n * z
    BY <2>1
  <2>3. n * z \in Nat /\ n * y \in Nat
    OBVIOUS
  <2> QED
  BY <2>2, <2>3
<1>3. n * q \in Nat /\ n * d \in Nat
  OBVIOUS
<1>4. CASE q > d
  BY <1>2, <1>3, <1>4
<1>5. CASE d > q
  BY <1>2, <1>3, <1>5
<1> QED
  BY <1>1, <1>4, <1>5

LEMMA Multiple ==
  ASSUME NEW n \in Nat \ {0}, NEW x \in Nat, NEW k \in Nat
  PROVE  (x + n * k) % n = x % n
<1> DEFINE y == x + n * k
<1>1. y \in Nat
  OBVIOUS
<1>2. /\ x = n * (x \div n) + (x % n) /\ x \div n \in Nat
      /\ y = n * (y \div n) + (y % n) /\ y \div n \in Nat
  BY <1>1, Quotient
<1>3. x % n \in 0 .. n - 1 /\ y % n \in 0 .. n - 1
  BY <1>1, Wraps
<1>4. (x \div n) + k \in Nat /\ n * ((x \div n) + k) = n * (x \div n) + n * k
  BY <1>2
<1> HIDE DEF y
<1>5. n * ((x \div n) + k) + (x % n) = n * (y \div n) + (y % n)
  <2>1. y = x + n * k
    BY DEF y
  <2>2. n * k \in Nat /\ n * (x \div n) \in Nat /\ n * (y \div n) \in Nat
    BY <1>2
  <2> QED
  BY <1>1, <1>2, <1>3, <1>4, <2>1, <2>2
<1>6. x % n = y % n
  BY <1>2, <1>3, <1>4, <1>5, Unique
<1> QED
  BY <1>6 DEF y

LEMMA Rest ==
  ASSUME NEW n \in Nat \ {0}, NEW x \in Nat, NEW b \in Nat, NEW k \in Nat
  PROVE  ((x % n) * b + k) % n = (x * b + k) % n
<1>1. x = n * (x \div n) + (x % n) /\ x \div n \in Nat
  BY Quotient
<1>2. x % n \in Nat
  BY Wraps
<1>3. x * b = n * ((x \div n) * b) + (x % n) * b
  BY <1>1, <1>2
<1>4. (x % n) * b + k \in Nat /\ (x \div n) * b \in Nat
  BY <1>1, <1>2
<1>5. x * b + k = ((x % n) * b + k) + n * ((x \div n) * b)
  <2>1. (x % n) * b \in Nat /\ n * ((x \div n) * b) \in Nat /\ x * b \in Nat
    BY <1>1, <1>2, <1>4
  <2>2. PICK all \in Nat, part \in Nat, rest \in Nat :
          /\ all = x * b /\ part = n * ((x \div n) * b)
          /\ rest = (x % n) * b
    BY <2>1, Zenon
  <2>3. all = part + rest
    BY <1>3, <2>2, Zenon
  <2>4. all + k = (rest + k) + part
    BY <2>3
  <2> QED
    BY <2>2, <2>4, Zenon
<1>6. PICK y \in Nat, whole \in Nat : y = (x % n) * b + k /\ whole = (x \div n) * b
  BY <1>4, Zenon
<1>7. (y + n * whole) % n = y % n
  BY Multiple, Zenon
<1> QED
  BY <1>5, <1>6, <1>7, Zenon

LEMMA RestPlus ==
  ASSUME NEW n \in Nat \ {0}, NEW x \in Nat, NEW k \in Nat
  PROVE  ((x % n) + k) % n = (x + k) % n
<1>1. x = n * (x \div n) + (x % n) /\ x \div n \in Nat
  BY Quotient
<1>2. x % n \in Nat /\ n * (x \div n) \in Nat
  BY <1>1, Wraps
<1>3. (x % n) + k \in Nat /\ x + k = ((x % n) + k) + n * (x \div n)
  BY <1>1, <1>2
<1>4. (((x % n) + k) + n * (x \div n)) % n = ((x % n) + k) % n
  BY <1>1, <1>3, Multiple, Zenon
<1> QED
  BY <1>3, <1>4, Zenon

\* The address register and its cell lie within the memory.
LEMMA Addresses ==
  ASSUME game \in Games, SRAMAddr \in 0 .. Length[game] - 1, NEW byte \in Byte
  PROVE  /\ Shifted(byte) \in 0 .. Length[game] - 1
         /\ NextAddress \in 0 .. Length[game] - 1
         /\ (Shifted(byte) + EraseSize) % Length[game] \in 0 .. Length[game] - 1
         /\ Cell \in 1 .. Length[game]
<1>1. Length[game] \in Nat \ {0} /\ Base \in Nat /\ byte \in Nat /\ SRAMAddr \in Nat
  BY LengthAssumption, BaseAssumption DEF Byte
<1>2. Base * Base \in Nat /\ SRAMAddr * Base \in Nat
  BY <1>1
<1>3. EraseSize \in Nat /\ Offset(SRAMCmd) \in Nat
  BY <1>1, <1>2 DEF EraseSize, Offset
<1>4. Shifted(byte) \in 0 .. Length[game] - 1
  <2>1. SRAMAddr * Base + byte \in Nat
    BY <1>1, <1>2
  <2>2. QED
    BY <1>1, <2>1, Wraps, Zenon DEF Shifted
<1>5. NextAddress \in 0 .. Length[game] - 1
  <2>1. SRAMAddr + 1 \in Nat
    BY <1>1
  <2>2. QED
    BY <1>1, <2>1, Wraps, Zenon DEF NextAddress
<1>6. (Shifted(byte) + EraseSize) % Length[game] \in 0 .. Length[game] - 1
  <2>1. Shifted(byte) + EraseSize \in Nat
    BY <1>1, <1>3, <1>4
  <2>2. QED
    BY <1>1, <2>1, Wraps, Zenon
<1>7. (SRAMAddr + Offset(SRAMCmd)) % Length[game] \in 0 .. Length[game] - 1
  <2>1. SRAMAddr + Offset(SRAMCmd) \in Nat
    BY <1>1, <1>3
  <2>2. QED
    BY <1>1, <2>1, Wraps, Zenon
<1>8. Cell \in 1 .. Length[game]
  BY <1>1, <1>7 DEF Cell
<1>9. QED
  BY <1>4, <1>5, <1>6, <1>8

\* A memory is a sequence of its length; a save that is cut short is one too.
LEMMA Memories ==
  ASSUME NEW g \in Games, NEW memory \in Memory(g)
  PROVE  /\ memory \in Seq(Byte) /\ Len(memory) = Length[g]
         /\ \A n \in 0 .. Len(memory) : SubSeq(memory, 1, n) \in Seq(Byte)
         /\ Loaded(g, memory) = memory
<1>1. Length[g] \in Nat
  BY LengthAssumption
<1>2. memory \in Seq(Byte) /\ Len(memory) = Length[g]
  BY <1>1, LenProperties DEF Memory
<1>3. \A n \in 0 .. Len(memory) : SubSeq(memory, 1, n) \in Seq(Byte)
  BY <1>1, <1>2
<1>4. Loaded(g, memory) = memory
  BY <1>1, <1>2 DEF Loaded, Memory
<1>5. QED
  BY <1>2, <1>3, <1>4

\* What a launch loads is a memory of the game, whatever the file holds.
LEMMA LoadedType ==
  ASSUME NEW g \in Games, NEW bytes \in Seq(Byte)
  PROVE  Loaded(g, bytes) \in Memory(g)
<1>1. Base - 1 \in Byte /\ Length[g] \in Nat
  BY BaseAssumption, LengthAssumption DEF Byte
<1>2. \A i \in 1 .. Length[g] : i <= Len(bytes) => bytes[i] \in Byte
  BY <1>1
<1>3. QED
  BY <1>1, <1>2 DEF Loaded, Memory

\* No command.
LEMMA NoCommand ==
  /\ [opcode |-> "other", address |-> <<>>, count |-> 0]
       \in Command
  /\ "other" \in Opcodes /\ <<>> \in Seq(Byte) /\ 0 \in Byte
<1>1. "other" \in Opcodes
  BY DEF Opcodes, Plain
<1>2. <<>> \in Seq(Byte) /\ 0 \in Byte
  BY BaseAssumption DEF Byte
<1>3. QED
  BY <1>1, <1>2 DEF Command

\* What is left of a game is a part of its memory.
LeftType ==
  /\ DOMAIN left = Games
  /\ \A g \in Games :
       /\ DOMAIN left[g] \subseteq 1 .. Length[g]
       /\ left[g] \in [DOMAIN left[g] -> Byte]

LEMMA NothingLeft ==
  ASSUME left' = [g \in Games |-> Nothing]
  PROVE  LeftType' /\ Kept'
<1>1. DOMAIN left' = Games /\ \A g \in Games : left'[g] = Nothing
  OBVIOUS
<1>2. DOMAIN Nothing = {} /\ Nothing \in [DOMAIN Nothing -> Byte]
  BY DEF Nothing
<1> QED
  BY <1>1, <1>2 DEF LeftType, Kept

LEMMA SameLeft ==
  ASSUME IInv, left' = left, file' = file, saving' = saving
  PROVE  LeftType' /\ Kept'
<1>1. LeftType
  BY DEF IInv, TypeOK, LeftType
<1>2. LeftType'
  BY <1>1 DEF LeftType
<1>3. Kept'
  BY DEF IInv, Kept, Loaded
<1> QED
  BY <1>2, <1>3

LEMMA InvInit == Init => IInv
<1> SUFFICES ASSUME Init PROVE IInv
  OBVIOUS
<1>1. left = [g \in Games |-> Nothing] /\ SRAM = <<>> /\ touched = {} /\ lost = {}
      /\ game = NoGame /\ saving = FALSE
  BY DEF Init
<1>2. DOMAIN Nothing = {} /\ Nothing \in [DOMAIN Nothing -> Byte]
  BY DEF Nothing
<1>3. LeftType /\ Kept
  BY <1>1, <1>2 DEF LeftType, Kept
<1>4. TypeOK
  BY <1>1, <1>3, NoCommand DEF Init, TypeOK, LeftType
<1>5. SafeToEnd /\ Touching
  BY <1>1 DEF SafeToEnd, Touching
<1>6. QED
  BY <1>3, <1>4, <1>5 DEF IInv

\* Writing the control register changes no memory; it may cut off a command.
LEMMA ControlKeeps ==
  ASSUME IInv, NEW on \in BOOLEAN, NEW keep \in BOOLEAN, WriteSPICnt(on, keep)
  PROVE  IInv'
<1>1. SPIHold' \in BOOLEAN /\ game' = game /\ SRAM' = SRAM /\ SRAMCmd' = SRAMCmd
      /\ left' = left /\ file' = file /\ saving' = saving
      /\ (SPIHold' # SPIHold => SPIHold /\ ~SPIHold')
  BY DEF WriteSPICnt, HoldAfter, chip, storage, IInv, TypeOK
<1>2. LeftType' /\ Kept'
  BY <1>1, SameLeft
<1>3. CASE SPIHold' = SPIHold
  <2>1. touched' = touched /\ lost' = lost
    BY <1>3 DEF WriteSPICnt
  <2>2. TypeOK'
    BY <1>1, <1>2, <2>1
       DEF WriteSPICnt, chip, storage, IInv, TypeOK, LeftType, Memory
  <2>3. SafeToEnd' /\ Touching'
    BY <1>1, <1>3, <2>1
       DEF IInv, SafeToEnd, Touching, AtRisk, Loaded, Known
  <2> QED
    BY <1>2, <2>2, <2>3 DEF IInv
<1>4. CASE SPIHold' # SPIHold
  <2>1. touched' = {} /\ lost' = Missing(lost \cup touched)
    BY <1>4 DEF WriteSPICnt
  <2>2. lost' \subseteq DOMAIN SRAM'
    BY <1>1, <2>1 DEF Missing, IInv, TypeOK
  <2>3. TypeOK'
    BY <1>1, <1>2, <2>1, <2>2
       DEF WriteSPICnt, chip, storage, IInv, TypeOK, LeftType, Memory
  <2>4. SafeToEnd'
    BY <1>1, <1>4, <2>1 DEF IInv, SafeToEnd, AtRisk, Loaded, Missing
  <2>5. Touching'
    BY <2>1 DEF Touching
  <2> QED
    BY <1>2, <2>3, <2>4, <2>5 DEF IInv
<1>5. QED
  BY <1>3, <1>4

\* An opcode changes no memory; no command that changes it is at hand.
LEMMA OpcodeKeeps ==
  ASSUME IInv, game # NoGame, NEW op \in Known(game) \cup Plain, SendsOpcode(op)
  PROVE  IInv'
<1>1. game \in Games /\ op \in Opcodes /\ Length[game] \in Nat \ {0}
  BY ChipAssumption, LengthAssumption
     DEF IInv, TypeOK, Known, Opcodes, Reads, Writes, Erases, Plain
<1>2. Base - 1 \in Byte /\ 0 \in Byte /\ <<>> \in Seq(Byte) /\ "other" \in Opcodes
  BY BaseAssumption DEF Byte, Opcodes, Plain
<1>3. /\ game' = game /\ SRAM' = SRAM /\ file' = file /\ saving' = saving
      /\ left' = left /\ lost' = lost /\ touched' = {} /\ ~SPIHold
  BY DEF SendsOpcode, Transfers, storage
<1>4. SPIData' \in Byte /\ SRAMCmd' \in Opcodes /\ writable' \in BOOLEAN
      /\ SRAMAddr' \in 0 .. Length[game] - 1
  <2>1. CASE op \in {"writeEnable", "writeDisable"}
    BY <1>1, <1>2, <2>1 DEF SendsOpcode, IInv, TypeOK
  <2>2. CASE op \notin {"writeEnable", "writeDisable"}
    BY <1>1, <1>2, <2>2 DEF SendsOpcode, IInv, TypeOK
  <2>3. QED
    BY <2>1, <2>2
<1>5. LeftType' /\ Kept'
  BY <1>3, SameLeft
<1>6. sent' \in Command
  BY <1>1, <1>2 DEF SendsOpcode, Command
<1>7. TypeOK'
  BY <1>1, <1>2, <1>3, <1>4, <1>5, <1>6
     DEF SendsOpcode, Transfers, IInv, TypeOK, LeftType, Memory
<1>8. SafeToEnd'
  BY <1>3 DEF IInv, SafeToEnd, AtRisk, Loaded
<1>9. Touching'
  BY <1>3 DEF Touching
<1>10. QED
  BY <1>5, <1>7, <1>8, <1>9 DEF IInv

\* A byte moves the address within the memory and writes bytes.
LEMMA ByteTypes ==
  ASSUME IInv, NEW byte \in Byte, SendsByte(byte)
  PROVE  /\ game \in Games /\ game' = game
         /\ SRAM' \in Memory(game) /\ SRAMAddr' \in 0 .. Length[game] - 1
         /\ SPIData' \in Byte
<1>1. game \in Games /\ game' = game /\ SRAMAddr \in 0 .. Length[game] - 1
      /\ SRAM \in Memory(game)
  BY DEF SendsByte, Transfers, Running, IInv, TypeOK
<1>2. Base - 1 \in Byte /\ 0 \in Byte
  BY BaseAssumption DEF Byte
<1>3. DOMAIN SRAM = 1 .. Length[game] /\ \A c \in 1 .. Length[game] : SRAM[c] \in Byte
  BY <1>1 DEF Memory
<1>4. CASE SRAMCmd \notin Known(game)
  BY <1>1, <1>2, <1>4 DEF SendsByte
<1>5. CASE TakesAddress(SPIDataPos + 1, byte)
  <2>1. SRAM' \in Memory(game)
    BY <1>2, <1>3, <1>5 DEF TakesAddress, Memory
  <2>2. SRAMAddr' \in 0 .. Length[game] - 1
    BY <1>1, <1>5, Addresses DEF TakesAddress
  <2>3. QED
    BY <1>1, <1>2, <1>5, <2>1, <2>2 DEF TakesAddress
<1>6. CASE SkipsByte(SPIDataPos + 1)
  BY <1>1, <1>2, <1>6 DEF SkipsByte
<1>7. CASE TakesData(SPIDataPos + 1, byte)
  <2>1. SRAMAddr' \in 0 .. Length[game] - 1 /\ Cell \in 1 .. Length[game]
    BY <1>1, <1>7, Addresses DEF TakesData
  <2>2. CASE SRAMCmd \in Reads
    BY <1>1, <1>3, <1>7, <2>1, <2>2 DEF TakesData
  <2>3. CASE SRAMCmd \notin Reads
    <3>1. SRAM' \in Memory(game)
      <4>1. CASE writable
        <5>1. (IF SRAMCmd = "program" THEN 0 ELSE byte) \in Byte
          BY <1>2
        <5>2. QED
          BY <1>1, <1>7, <2>1, <2>3, <4>1, <5>1 DEF TakesData, Memory
      <4>2. CASE ~writable
        BY <1>1, <1>7, <2>3, <4>2 DEF TakesData
      <4>3. QED
        BY <4>1, <4>2
    <3>2. QED
      BY <1>1, <1>2, <1>7, <2>1, <2>3, <3>1 DEF TakesData
  <2>4. QED
    BY <2>2, <2>3
<1>8. QED
  BY <1>4, <1>5, <1>6, <1>7 DEF SendsByte

\* Only a write command that the chip knows changes the memory.
LEMMA ByteChanges ==
  ASSUME IInv, NEW byte \in Byte, SendsByte(byte), SRAMCmd \notin Known(game) \ Reads
  PROVE  SRAM' = SRAM
<1>1. game \in Games /\ SRAM \in Memory(game)
  BY DEF SendsByte, Transfers, Running, IInv, TypeOK
<1>2. CASE SRAMCmd \notin Known(game)
  BY <1>2 DEF SendsByte
<1>3. CASE SRAMCmd \in Reads /\ SRAMCmd \in Known(game)
  <2>1. SRAMCmd \notin Erases
    BY <1>3 DEF Reads, Erases
  <2>2. SRAM = [c \in DOMAIN SRAM |-> SRAM[c]]
    BY <1>1 DEF Memory
  <2>3. CASE TakesAddress(SPIDataPos + 1, byte)
    BY <2>1, <2>2, <2>3 DEF TakesAddress
  <2>4. CASE SkipsByte(SPIDataPos + 1)
    BY <2>4 DEF SkipsByte
  <2>5. CASE TakesData(SPIDataPos + 1, byte)
    BY <1>3, <2>5 DEF TakesData
  <2> QED
    BY <1>3, <2>3, <2>4, <2>5 DEF SendsByte
<1> QED
  BY <1>2, <1>3

\* A byte that does not end a write command saves nothing; one that does opens the
\* file or leaves its cells at risk.
LEMMA ByteKeeps ==
  ASSUME IInv, NEW byte \in Byte, SendsByte(byte)
  PROVE  IInv'
<1>1. /\ game \in Games /\ game' = game
      /\ SRAM' \in Memory(game) /\ SRAMAddr' \in 0 .. Length[game] - 1
      /\ SPIData' \in Byte
  BY ByteTypes
<1>2. game # NoGame /\ SPIHold /\ ~saving /\ SPIHold' = hold /\ SRAMCmd' = SRAMCmd
  BY DEF SendsByte, Transfers, Running
<1>3. /\ sent' \in Command
      /\ SPIDataPos' \in Nat /\ hold' \in BOOLEAN /\ selected' \in BOOLEAN
      /\ writable' \in BOOLEAN
  <2>1. Append(sent.address, byte) \in Seq(Byte) /\ sent.address \in Seq(Byte)
        /\ sent.count + 1 \in Nat /\ sent.opcode \in Opcodes
        /\ SPIDataPos + 1 \in Nat
    BY DEF IInv, TypeOK, Command
  <2>2. PICK address \in Seq(Byte) :
          sent' = [sent EXCEPT !.count = sent.count + 1, !.address = address]
    BY <2>1 DEF SendsByte
  <2>3. sent' \in Command
    BY <2>1, <2>2 DEF IInv, TypeOK, Command
  <2>4. writable' \in BOOLEAN
    BY DEF SendsByte, IInv, TypeOK, Saves, Last, ClearsStatus
  <2>5. QED
    BY <2>1, <2>3, <2>4 DEF SendsByte, Transfers, IInv, TypeOK
<1>4. DOMAIN SRAM = 1 .. Length[game] /\ DOMAIN SRAM' = DOMAIN SRAM
      /\ Changed \subseteq DOMAIN SRAM
  BY <1>1, <1>2 DEF IInv, TypeOK, Memory, Changed
<1>5. SPIHold' \in BOOLEAN /\ SRAMCmd' \in Opcodes
  BY <1>2 DEF IInv, TypeOK
<1>6. ASSUME file' = file, saving' = saving, left' = left,
             touched' \subseteq DOMAIN SRAM, lost' \subseteq DOMAIN SRAM
      PROVE  TypeOK' /\ Kept'
  <2>1. LeftType' /\ Kept'
    BY <1>6, SameLeft
  <2>2. TypeOK'
    BY <1>1, <1>2, <1>3, <1>4, <1>5, <1>6, <2>1 DEF IInv, TypeOK, LeftType
  <2> QED
    BY <2>1, <2>2
<1>7. \A c \in DOMAIN SRAM' : Loaded(game, file)[c] # SRAM'[c]
        => c \in lost \cup (touched \cup Changed)
  BY <1>2, <1>4 DEF IInv, SafeToEnd, AtRisk, Changed
<1>8. CASE Saves /\ OpensFile
  <2>1. saving' = TRUE /\ file' = <<>> /\ touched' = {} /\ lost' = {}
        /\ <<>> \in Seq(Byte)
    BY <1>8 DEF OpensFile
  <2>2. LeftType' /\ Kept'
    BY <1>8, NothingLeft DEF OpensFile
  <2>3. TypeOK'
    BY <1>1, <1>2, <1>3, <1>5, <2>1, <2>2 DEF IInv, TypeOK, LeftType
  <2>4. SafeToEnd' /\ Touching'
    BY <2>1 DEF SafeToEnd, Touching
  <2> QED
    BY <2>2, <2>3, <2>4 DEF IInv
<1>9. CASE Saves /\ CannotOpen(touched \cup Changed)
  <2>1. /\ file' = file /\ saving' = saving /\ left' = left /\ touched' = {}
        /\ lost' = Missing(lost \cup (touched \cup Changed))
    BY <1>9 DEF CannotOpen, storage
  <2>2. lost' \subseteq DOMAIN SRAM
    BY <1>4, <2>1 DEF Missing, IInv, TypeOK
  <2>3. TypeOK' /\ Kept'
    BY <1>6, <2>1, <2>2
  <2>4. SafeToEnd'
    <3>1. \A c \in DOMAIN SRAM' : Loaded(game, file)[c] # SRAM'[c] => c \in lost'
      BY <1>1, <1>7, <2>1 DEF Missing
    <3> QED
      BY <1>1, <2>1, <3>1 DEF SafeToEnd, AtRisk, Loaded
  <2>5. Touching'
    BY <2>1 DEF Touching
  <2> QED
    BY <2>3, <2>4, <2>5 DEF IInv
<1>10. CASE ~Saves
  <2>1. /\ saving' = saving /\ file' = file /\ left' = left /\ lost' = lost
        /\ touched' = touched \cup Changed
    BY <1>10 DEF SendsByte, storage
  <2>2. touched' \subseteq DOMAIN SRAM /\ lost' \subseteq DOMAIN SRAM
    BY <1>4, <2>1 DEF IInv, TypeOK
  <2>3. TypeOK' /\ Kept'
    BY <1>6, <2>1, <2>2
  <2>4. CASE SRAMCmd \in Known(game) \ Reads
    <3>1. SPIHold'
      BY <1>2, <1>10, <2>4 DEF Saves, Last
    <3>2. SafeToEnd'
      BY <1>1, <1>7, <2>1, <3>1 DEF SafeToEnd, AtRisk, Loaded
    <3>3. Touching'
      BY <1>1, <1>2, <2>4 DEF Touching, Known
    <3> QED
      BY <2>3, <3>2, <3>3 DEF IInv
  <2>5. CASE SRAMCmd \notin Known(game) \ Reads
    <3>1. touched = {} /\ SRAM' = SRAM
      BY <2>5, ByteChanges DEF IInv, Touching
    <3>2. Changed = {}
      BY <3>1 DEF Changed
    <3>3. touched' = {} /\ lost' = lost
      BY <2>1, <3>1, <3>2
    <3>4. \A c \in DOMAIN SRAM' : Loaded(game, file)[c] # SRAM'[c] => c \in lost
      BY <1>7, <3>1, <3>2
    <3>5. SafeToEnd'
      BY <1>1, <2>1, <3>3, <3>4 DEF SafeToEnd, AtRisk, Loaded
    <3>6. Touching'
      BY <3>3 DEF Touching
    <3> QED
      BY <2>3, <3>5, <3>6 DEF IInv
  <2> QED
    BY <2>4, <2>5
<1> QED
  BY <1>8, <1>9, <1>10 DEF SendsByte, WriteNDSSave

\* What reaches the file is a sequence of bytes that agrees with the memory as far
\* as it goes.
LEMMA Writing ==
  ASSUME NEW g \in Games, NEW memory \in Memory(g), NEW written,
         \/ written = memory
         \/ \E n \in 0 .. Len(memory) : written = SubSeq(memory, 1, n)
  PROVE  /\ written \in Seq(Byte) /\ Len(written) \in 0 .. Length[g]
         /\ \A c \in 1 .. Len(written) : Loaded(g, written)[c] = memory[c]
<1>1. memory \in Seq(Byte) /\ Len(memory) = Length[g] /\ Length[g] \in Nat
  BY Memories, LengthAssumption
<1>2. CASE written = memory
  BY <1>1, <1>2 DEF Loaded
<1>3. ASSUME NEW n \in 0 .. Len(memory), written = SubSeq(memory, 1, n)
      PROVE  /\ written \in Seq(Byte) /\ Len(written) \in 0 .. Length[g]
             /\ \A c \in 1 .. Len(written) : Loaded(g, written)[c] = memory[c]
  <2>1. /\ written \in Seq(Byte) /\ Len(written) = n
        /\ \A c \in 1 .. n : written[c] = memory[c]
    BY <1>1, <1>3
  <2> QED
    BY <1>1, <2>1 DEF Loaded
<1> QED
  BY <1>2, <1>3

\* The end of a save.
LEMMA WriteKeeps ==
  ASSUME IInv, WritesFile
  PROVE  IInv'
<1>1. /\ game' = game /\ SRAM' = SRAM /\ saving' = FALSE /\ saving
      /\ SPIHold' = SPIHold /\ SRAMCmd' = SRAMCmd /\ left' = left
      /\ touched' = touched
  BY DEF WritesFile, slot, chip
<1>2. PICK written \in Written :
        file' = written /\ lost' = Missing(Len(written) + 1 .. Len(SRAM))
  BY DEF WritesFile
<1>3. LeftType' /\ Kept'
  <2>1. \A g \in Games : left[g] = Nothing
    BY <1>1 DEF IInv, Kept
  <2>2. DOMAIN Nothing = {}
    BY DEF Nothing
  <2> QED
    BY <1>1, <2>1, <2>2 DEF IInv, TypeOK, LeftType, Kept
<1>4. Touching'
  BY <1>1 DEF IInv, Touching, Known
<1>5. CASE game = NoGame
  <2>1. SRAM = <<>>
    BY <1>5 DEF IInv, TypeOK
  <2>2. file' = <<>> /\ lost' = {}
    BY <1>2, <2>1 DEF Written, Missing
  <2>3. <<>> \in Seq(Byte) /\ touched' = {} /\ game' = NoGame /\ SRAM' = <<>>
    BY <1>1, <1>5, <2>1 DEF IInv, TypeOK
  <2>4. TypeOK'
    BY <1>1, <1>3, <2>2, <2>3
       DEF WritesFile, slot, chip, IInv, TypeOK, LeftType
  <2> QED
    BY <1>1, <1>3, <1>4, <1>5, <2>4 DEF IInv, SafeToEnd
<1>6. CASE game \in Games
  <2>1. SRAM \in Memory(game) /\ Length[game] \in Nat
    BY <1>6, GamesAssumption, LengthAssumption DEF IInv, TypeOK
  <2>2. DOMAIN SRAM = 1 .. Length[game] /\ Len(SRAM) = Length[game]
    BY <1>6, <2>1, Memories DEF Memory
  <2>3. /\ written \in Seq(Byte) /\ Len(written) \in 0 .. Length[game]
        /\ \A c \in 1 .. Len(written) : Loaded(game, written)[c] = SRAM[c]
    BY <1>6, <2>1, Writing DEF Written
  <2>4. lost' \subseteq DOMAIN SRAM
    BY <1>2, <2>1, <2>2, <2>3 DEF Missing
  <2>5. TypeOK'
    BY <1>1, <1>2, <1>3, <2>3, <2>4
       DEF WritesFile, slot, chip, IInv, TypeOK, LeftType, Memory
  <2>6. SafeToEnd'
    <3>1. \A c \in DOMAIN SRAM : Loaded(game, written)[c] # SRAM[c]
            => c \in Len(written) + 1 .. Len(SRAM)
      BY <2>1, <2>2, <2>3
    <3>2. \A c \in DOMAIN SRAM : Loaded(game, written)[c] # SRAM[c] => c \in lost'
      BY <1>1, <1>2, <3>1 DEF Missing
    <3> QED
      BY <1>1, <1>2, <3>2 DEF SafeToEnd, AtRisk, Loaded
  <2> QED
    BY <1>3, <1>4, <2>5, <2>6 DEF IInv
<1> QED
  BY <1>5, <1>6 DEF IInv, TypeOK

\* A launch fills the chip from the file, or from nothing if it cannot be read.
LEMMA LaunchKeeps ==
  ASSUME IInv, NEW g \in Games, Launches(g)
  PROVE  IInv'
<1>1. file \in Seq(Byte) /\ <<>> \in Seq(Byte)
  BY DEF IInv, TypeOK
<1>2. PICK bytes \in {file, <<>>} :
        /\ SRAM' = Loaded(g, bytes)
        /\ lost' = IF bytes = file THEN {} ELSE Missing(DOMAIN SRAM')
  BY DEF Launches
<1>3. /\ game' = g /\ file' = file /\ saving' = saving /\ touched' = {}
      /\ left' = [left EXCEPT ![g] = Nothing]
  BY DEF Launches, storage, NothingSent
<1>4. Loaded(g, bytes) \in Memory(g)
  BY <1>1, LoadedType
<1>5. Length[g] \in Nat \ {0} /\ 0 \in 0 .. Length[g] - 1
  BY LengthAssumption
<1>6. g # NoGame
  BY GamesAssumption
<1>7. LeftType' /\ Kept'
  <2>1. DOMAIN Nothing = {} /\ Nothing \in [DOMAIN Nothing -> Byte]
    BY DEF Nothing
  <2>2. LeftType
    BY DEF IInv, TypeOK, LeftType
  <2>3. LeftType'
    BY <1>3, <2>1, <2>2 DEF LeftType
  <2>4. Kept'
    BY <1>3, <2>1, <2>2 DEF IInv, Kept, LeftType, Loaded
  <2> QED
    BY <2>3, <2>4
<1>8. lost' \subseteq DOMAIN SRAM'
  BY <1>2 DEF Missing
<1>9. TypeOK'
  BY <1>1, <1>2, <1>3, <1>4, <1>5, <1>6, <1>7, <1>8, NoCommand
     DEF Launches, SlotReset, ChipReset, NothingSent, IInv, TypeOK, LeftType, Memory
<1>10. SafeToEnd'
  BY <1>2, <1>3 DEF SafeToEnd, AtRisk, Missing, Loaded
<1>11. Touching'
  BY <1>3 DEF Touching
<1>12. QED
  BY <1>7, <1>9, <1>10, <1>11 DEF IInv

\* The end of the process leaves what the file holds of the memory.
LEMMA EndKeeps ==
  ASSUME IInv, Ends
  PROVE  IInv'
<1>1. game \in Games /\ SRAM \in Memory(game) /\ Length[game] \in Nat
  BY LengthAssumption DEF Ends, IInv, TypeOK
<1>2. PICK written \in (IF saving THEN Written ELSE {file}) :
        /\ file' = written
        /\ left' = [left EXCEPT ![game] =
             [c \in (IF saving THEN 1 .. Len(written) ELSE DOMAIN SRAM \ AtRisk)
                |-> SRAM[c]]]
  BY DEF Ends
<1> DEFINE safe == IF saving THEN 1 .. Len(written) ELSE DOMAIN SRAM \ AtRisk
<1>3. game' = NoGame /\ SRAM' = <<>> /\ saving' = FALSE /\ lost' = {} /\ touched' = {}
  BY DEF Ends, NothingSent
<1>4. DOMAIN SRAM = 1 .. Length[game] /\ \A c \in DOMAIN SRAM : SRAM[c] \in Byte
  BY <1>1 DEF Memory
<1>5. /\ written \in Seq(Byte) /\ safe \subseteq DOMAIN SRAM
      /\ \A c \in safe : Loaded(game, written)[c] = SRAM[c]
  <2>1. CASE saving
    <3>1. /\ written \in Seq(Byte) /\ Len(written) \in 0 .. Length[game]
          /\ \A c \in 1 .. Len(written) : Loaded(game, written)[c] = SRAM[c]
      BY <1>1, <1>2, <2>1, Writing DEF Written
    <3> QED
      BY <1>1, <1>4, <2>1, <3>1
  <2>2. CASE ~saving
    BY <1>1, <1>2, <2>2, GamesAssumption DEF IInv, TypeOK, SafeToEnd
  <2> QED
    BY <2>1, <2>2
<1>6. LeftType' /\ Kept'
  <2>1. LeftType
    BY DEF IInv, TypeOK, LeftType
  <2>2. /\ DOMAIN left' = Games
        /\ left'[game] = [c \in safe |-> SRAM[c]]
        /\ \A g \in Games \ {game} : left'[g] = left[g]
    BY <1>1, <1>2, <2>1 DEF LeftType
  <2>3. DOMAIN left'[game] = safe /\ left'[game] \in [safe -> Byte]
        /\ \A c \in safe : left'[game][c] = SRAM[c]
    BY <1>4, <1>5, <2>2
  <2>4. LeftType'
    BY <1>4, <1>5, <2>1, <2>2, <2>3 DEF LeftType
  <2>5. \A g \in Games \ {game} :
          \A c \in DOMAIN left[g] : Loaded(g, written)[c] = left[g][c]
    <3>1. CASE saving
      <4>1. \A g \in Games : DOMAIN left[g] = {}
        BY <3>1 DEF IInv, Kept, Nothing
      <4> QED
        BY <4>1
    <3>2. CASE ~saving
      BY <1>2, <3>2 DEF IInv, Kept
    <3> QED
      BY <3>1, <3>2
  <2>6. Kept'
    <3>1. \A g \in Games : \A c \in DOMAIN left'[g] : Loaded(g, written)[c] = left'[g][c]
      <4> HIDE DEF safe
      <4> QED
        BY <1>5, <2>2, <2>3, <2>5
    <3> QED
      <4>1. \A g \in Games : \A c \in DOMAIN left'[g] :
              Loaded(g, file')[c] = left'[g][c]
        BY <1>2, <3>1
      <4>2. ~saving'
        BY <1>3
      <4>3. \A g \in Games : Loaded(g, file)' = Loaded(g, file')
        BY DEF Loaded
      <4> QED
        BY <4>1, <4>2, <4>3 DEF Kept
  <2> QED
    BY <2>4, <2>6
<1>7. file' \in Seq(Byte)
  BY <1>2, <1>5
<1>8. TypeOK'
  BY <1>3, <1>6, <1>7, NoCommand
     DEF Ends, SlotReset, ChipReset, NothingSent, IInv, TypeOK, LeftType
<1>9. SafeToEnd' /\ Touching'
  BY <1>3 DEF SafeToEnd, Touching
<1>10. QED
  BY <1>6, <1>8, <1>9 DEF IInv

\* A loaded snapshot is saved at once, or all of it is at risk.
LEMMA LoadKeeps ==
  ASSUME IInv, game # NoGame, NEW snapshot \in Snapshots[game], LoadsState(snapshot)
  PROVE  IInv'
<1>1. game \in Games /\ snapshot \in Snapshot(game)
  BY SnapshotsAssumption DEF IInv, TypeOK
<1>2. /\ selected' \in BOOLEAN /\ hold' \in BOOLEAN /\ SPIHold' \in BOOLEAN
      /\ SPIDataPos' \in Nat /\ SPIData' \in Byte /\ SRAM' \in Memory(game)
      /\ SRAMCmd' \in Opcodes /\ SRAMAddr' \in 0 .. Length[game] - 1
      /\ writable' \in BOOLEAN /\ sent' \in Command /\ game' = game
  BY <1>1 DEF LoadsState, Snapshot
<1>3. CASE OpensFile
  <2>1. saving' = TRUE /\ file' = <<>> /\ touched' = {} /\ lost' = {}
        /\ <<>> \in Seq(Byte)
    BY <1>3 DEF OpensFile
  <2>2. LeftType' /\ Kept'
    BY <1>3, NothingLeft DEF OpensFile
  <2>3. TypeOK'
    BY <1>1, <1>2, <2>1, <2>2 DEF IInv, TypeOK, LeftType, Memory
  <2>4. SafeToEnd' /\ Touching'
    BY <2>1 DEF SafeToEnd, Touching
  <2> QED
    BY <2>2, <2>3, <2>4 DEF IInv
<1>4. CASE CannotOpen(DOMAIN SRAM')
  <2>1. /\ file' = file /\ saving' = saving /\ left' = left /\ touched' = {}
        /\ lost' = Missing(lost \cup DOMAIN SRAM')
    BY <1>4 DEF CannotOpen, storage
  <2>2. DOMAIN SRAM = 1 .. Length[game] /\ DOMAIN SRAM' = DOMAIN SRAM
    BY <1>1, <1>2 DEF IInv, TypeOK, Memory
  <2>3. lost' \subseteq DOMAIN SRAM'
    BY <2>1, <2>2 DEF Missing, IInv, TypeOK
  <2>4. LeftType' /\ Kept'
    BY <2>1, SameLeft
  <2>5. TypeOK'
    BY <1>1, <1>2, <2>1, <2>3, <2>4 DEF IInv, TypeOK, LeftType, Memory
  <2>6. SafeToEnd'
    BY <2>1 DEF SafeToEnd, AtRisk, Missing, Loaded
  <2>7. Touching'
    BY <2>1 DEF Touching
  <2> QED
    BY <2>4, <2>5, <2>6, <2>7 DEF IInv
<1>5. QED
  BY <1>3, <1>4 DEF LoadsState, WriteNDSSave

LEMMA InvStep == IInv /\ [Next]_vars => IInv'
<1> SUFFICES ASSUME IInv, [Next]_vars PROVE IInv'
  OBVIOUS
<1>1. CASE Game
  BY <1>1, ControlKeeps, OpcodeKeeps, ByteKeeps DEF Game
<1>2. CASE WritesFile
  BY <1>2, WriteKeeps
<1>3. CASE \E g \in Games : Launches(g)
  BY <1>3, LaunchKeeps
<1>4. CASE game # NoGame /\ \E snapshot \in Snapshots[game] : LoadsState(snapshot)
  BY <1>4, LoadKeeps
<1>5. CASE Ends
  BY <1>5, EndKeeps
<1>6. CASE UNCHANGED vars
  <2>1. LeftType' /\ Kept'
    BY <1>6, SameLeft DEF vars, storage, history
  <2>2. TypeOK'
    BY <1>6, <2>1 DEF vars, slot, chip, storage, history, IInv, TypeOK, LeftType, Memory
  <2>3. SafeToEnd' /\ Touching'
    BY <1>6 DEF vars, slot, chip, storage, history, IInv, SafeToEnd, Touching, AtRisk,
                Loaded, Known
  <2> QED
    BY <2>1, <2>2, <2>3 DEF IInv
<1>7. QED
  BY <1>1, <1>2, <1>3, <1>4, <1>5, <1>6 DEF Next

LEMMA Invariance == Spec => []IInv
<1>1. QED
  BY InvInit, InvStep, PTL DEF Spec

\* Every register and the file stay in their ranges; the address register never
\* leaves the memory.
THEOREM TypeCorrect == Spec => []TypeOK
<1>1. IInv => TypeOK
  BY DEF IInv
<1>2. QED
  BY <1>1, Invariance, PTL

\* Whenever the process ends, the game's next launch finds the memory as it was, but
\* for the bytes of an unfinished command, of a save whose file could not be opened
\* and of the missing part of one that was cut short.
THEOREM EndsSafely == Spec => []SafeToEnd
<1>1. IInv => SafeToEnd
  BY DEF IInv
<1>2. QED
  BY <1>1, Invariance, PTL

\* A launch finds, as far as it can read the file, what the game's latest run left
\* there, unless another game has been saved since.
THEOREM LaunchesFindSave == Spec => LaunchFindsSave
<1>1. IInv /\ [Next]_vars =>
        [\A g \in Games :
           game = NoGame /\ game' = g =>
             \A c \in DOMAIN left[g] \ lost' : SRAM'[c] = left[g][c]]_vars
  <2>1. SUFFICES ASSUME IInv, Next, NEW g \in Games, game = NoGame, game' = g,
                        NEW c \in DOMAIN left[g] \ lost'
                 PROVE  SRAM'[c] = left[g][c]
    OBVIOUS
  <2>2. g # NoGame
    BY GamesAssumption
  <2>3. Launches(g)
    <3>1. CASE Game
      BY <2>1, <2>2, <3>1 DEF Game, WriteSPICnt, Running, SendsByte, Transfers
    <3>2. CASE WritesFile
      BY <2>1, <2>2, <3>2 DEF WritesFile
    <3>3. CASE \E h \in Games : Launches(h)
      BY <2>1, <3>3 DEF Launches
    <3>4. CASE Ends
      BY <2>1, <3>4 DEF Ends
    <3>5. QED
      BY <2>1, <3>1, <3>2, <3>3, <3>4 DEF Next
  <2>4. PICK bytes \in {file, <<>>} :
          /\ SRAM' = Loaded(g, bytes) /\ file' = file
          /\ lost' = IF bytes = file THEN {} ELSE Missing(DOMAIN SRAM')
    BY <2>3 DEF Launches, storage
  <2>5. c \in DOMAIN left[g] /\ c \notin lost' /\ c \in 1 .. Length[g]
    BY <2>1 DEF IInv, TypeOK
  <2>6. Loaded(g, file)[c] = left[g][c]
    BY <2>1, <2>5 DEF IInv, Kept
  <2>7. CASE bytes = file
    BY <2>4, <2>6, <2>7
  <2>8. CASE bytes # file
    <3>1. c \in DOMAIN SRAM'
      BY <2>4, <2>5 DEF Loaded
    <3>2. Loaded(g, file)[c] = SRAM'[c]
      BY <2>1, <2>4, <2>5, <2>8, <3>1 DEF Missing, Loaded
    <3> QED
      BY <2>6, <3>2
  <2>9. QED
    BY <2>7, <2>8
<1>2. QED
  BY <1>1, Invariance, PTL DEF Spec, LaunchFindsSave

(***************************************************************************)
(* Addresses.                                                              *)
(***************************************************************************)
Addressing == sent.opcode \in Reads \cup Writes

\* Only reads and writes are answered or change cells one by one.
LEMMA NotAddressing ==
  /\ \A op \in Plain : op \notin Reads \cup Writes
  /\ "other" \in Plain
BY DEF Plain, Reads, Writes

\* The chip's registers follow the command.
Tracks ==
  game # NoGame /\ Addressing =>
    /\ sent.opcode \in Known(game)
    /\ SRAMCmd = sent.opcode
    /\ SPIDataPos = sent.count
    /\ Len(sent.address) = IF sent.count <= AddressBytes(game)
                           THEN sent.count ELSE AddressBytes(game)
    /\ SRAMAddr = (Address(sent.address)
                     + (IF sent.count < Header(game, sent.opcode) THEN 0
                        ELSE sent.count - Header(game, sent.opcode) + 1))
                    % Length[game]

\* One more byte of an address.
LEMMA Appends ==
  ASSUME NEW bytes \in Seq(Byte), NEW byte \in Byte, Len(bytes) \in 0 .. 2
  PROVE  Address(Append(bytes, byte)) = Address(bytes) * Base + byte
<1>1. Base \in Nat /\ byte \in Nat /\ \A i \in 1 .. Len(bytes) : bytes[i] \in Nat
  BY BaseAssumption DEF Byte
<1>2. /\ Len(Append(bytes, byte)) = Len(bytes) + 1
      /\ \A i \in 1 .. Len(bytes) : Append(bytes, byte)[i] = bytes[i]
      /\ Append(bytes, byte)[Len(bytes) + 1] = byte
  OBVIOUS
<1>3. CASE Len(bytes) = 0
  BY <1>1, <1>2, <1>3 DEF Address
<1>4. CASE Len(bytes) = 1
  BY <1>1, <1>2, <1>4 DEF Address
<1>5. CASE Len(bytes) = 2
  BY <1>1, <1>2, <1>5 DEF Address
<1> QED
  BY <1>3, <1>4, <1>5

LEMMA AddressIsNat ==
  ASSUME NEW bytes \in Seq(Byte), Len(bytes) \in 0 .. 3
  PROVE  Address(bytes) \in Nat
<1>1. Base \in Nat /\ \A i \in 1 .. Len(bytes) : bytes[i] \in Nat
  BY BaseAssumption DEF Byte
<1>2. CASE Len(bytes) \in {0, 1}
  BY <1>1, <1>2 DEF Address
<1>3. CASE Len(bytes) = 2
  <2>1. bytes[1] * Base \in Nat /\ bytes[2] \in Nat
    BY <1>1, <1>3
  <2> QED
    BY <1>3, <2>1 DEF Address
<1>4. CASE Len(bytes) = 3
  <2>1. bytes[1] * Base \in Nat /\ bytes[2] \in Nat /\ bytes[3] \in Nat
    BY <1>1, <1>4
  <2>2. (bytes[1] * Base + bytes[2]) * Base \in Nat
    BY <1>1, <2>1
  <2> QED
    BY <1>4, <2>1, <2>2 DEF Address
<1> QED
  BY <1>2, <1>3, <1>4

\* What is known in the middle of a command.
LEMMA CommandFacts ==
  ASSUME IInv, Tracks, game \in Games, Addressing
  PROVE  /\ Length[game] \in Nat \ {0}
         /\ sent.count \in Nat /\ sent.address \in Seq(Byte)
         /\ AddressBytes(game) \in 1 .. 3 /\ Header(game, sent.opcode) \in Nat
         /\ Header(game, sent.opcode) > AddressBytes(game)
         /\ Len(sent.address) \in 0 .. 3
         /\ Address(sent.address) \in Nat
         /\ Offset(sent.opcode) \in Nat
         /\ sent.opcode \notin Erases
<1>1. game # NoGame
  BY GamesAssumption
<1>2. Length[game] \in Nat \ {0} /\ Base \in Nat
  BY LengthAssumption, BaseAssumption
<1>3. sent.count \in Nat /\ sent.address \in Seq(Byte)
  BY DEF IInv, TypeOK, Command
<1>4. AddressBytes(game) \in 1 .. 3
  BY ChipAssumption DEF AddressBytes
<1>5. Header(game, sent.opcode) \in Nat /\ Header(game, sent.opcode) > AddressBytes(game)
  BY <1>4 DEF Header
<1>6. Len(sent.address) \in 0 .. 3
  <2>1. Len(sent.address) = IF sent.count <= AddressBytes(game)
                            THEN sent.count ELSE AddressBytes(game)
    BY <1>1 DEF Tracks
  <2> QED
    BY <1>3, <1>4, <2>1
<1>7. Address(sent.address) \in Nat
  BY <1>3, <1>6, AddressIsNat
<1>8. Offset(sent.opcode) \in Nat /\ sent.opcode \notin Erases
  BY <1>2 DEF Offset, Addressing, Reads, Writes, Erases
<1> QED
  BY <1>2, <1>3, <1>4, <1>5, <1>6, <1>7, <1>8

\* A byte of the address.
LEMMA AddressByteTracks ==
  ASSUME IInv, Tracks, NEW byte \in Byte, SendsByte(byte), Addressing,
         sent.count < AddressBytes(game)
  PROVE  Tracks' /\ SRAM' = SRAM /\ sent'.count < Header(game, sent.opcode)
<1>1. game \in Games /\ game # NoGame /\ game' = game /\ SRAM \in Memory(game)
      /\ SRAMAddr \in Nat
  BY LengthAssumption DEF SendsByte, Transfers, Running, IInv, TypeOK
<1>2. /\ Length[game] \in Nat \ {0}
      /\ sent.count \in Nat /\ sent.address \in Seq(Byte)
      /\ AddressBytes(game) \in 1 .. 3 /\ Header(game, sent.opcode) \in Nat
      /\ Header(game, sent.opcode) > AddressBytes(game)
      /\ Len(sent.address) \in 0 .. 3
      /\ Address(sent.address) \in Nat
      /\ sent.opcode \notin Erases
  BY <1>1, CommandFacts
<1>3. /\ sent.opcode \in Known(game) /\ SRAMCmd = sent.opcode
      /\ SPIDataPos = sent.count /\ Len(sent.address) = sent.count
      /\ SRAMAddr = (Address(sent.address) + 0) % Length[game]
  BY <1>1, <1>2 DEF Tracks
<1>4. sent' = [sent EXCEPT !.count = sent.count + 1,
                           !.address = IF SPIDataPos + 1 <= AddressBytes(game)
                                       THEN Append(sent.address, byte)
                                       ELSE sent.address]
  BY NotAddressing DEF SendsByte, Addressing
<1>5. /\ sent'.count = sent.count + 1 /\ sent'.opcode = sent.opcode
      /\ sent'.address = Append(sent.address, byte)
  BY <1>2, <1>3, <1>4 DEF IInv, TypeOK, Command
<1>6. TakesAddress(SPIDataPos + 1, byte)
  BY <1>2, <1>3 DEF SendsByte, SkipsByte, TakesData
<1>7. SRAMAddr' = Shifted(byte) /\ SRAM' = [c \in DOMAIN SRAM |-> SRAM[c]]
  BY <1>2, <1>3, <1>6 DEF TakesAddress
<1>8. SRAM' = SRAM
  BY <1>1, <1>7 DEF Memory
<1>9. SRAMAddr' = (Address(sent'.address) + 0) % Length[game]
  <2>1. Base \in Nat /\ byte \in Nat
    BY BaseAssumption DEF Byte
  <2>2. SRAMAddr = Address(sent.address) % Length[game]
    BY <1>2, <1>3
  <2>3. SRAMAddr' = ((Address(sent.address) % Length[game]) * Base + byte) % Length[game]
    <3>1. CASE Chip[game] = "tiny"
      <4>1. AddressBytes(game) = 1
        BY <3>1 DEF AddressBytes
      <4>2. Len(sent.address) = 0
        BY <1>2, <1>3, <4>1
      <4>3. Address(sent.address) % Length[game] = 0
        BY <1>2, <4>2 DEF Address
      <4>4. SRAMAddr' = byte % Length[game]
        BY <1>7, <3>1 DEF Shifted
      <4>5. 0 * Base + byte = byte
        BY <2>1
      <4> QED
        BY <4>3, <4>4, <4>5, Zenon
    <3>2. CASE Chip[game] # "tiny"
      BY <1>7, <2>2, <3>2 DEF Shifted
    <3> QED
      BY <3>1, <3>2
  <2>4. SRAMAddr' = (Address(sent.address) * Base + byte) % Length[game]
    <3>1. Address(sent.address) \in Nat /\ Length[game] \in Nat \ {0}
      BY <1>2
    <3>2. ((Address(sent.address) % Length[game]) * Base + byte) % Length[game]
            = (Address(sent.address) * Base + byte) % Length[game]
      <4>1. PICK x \in Nat, n \in Nat \ {0}, b \in Nat, k \in Nat :
              /\ x = Address(sent.address) /\ n = Length[game]
              /\ b = Base /\ k = byte
        BY <2>1, <3>1, Zenon
      <4>2. ((x % n) * b + k) % n = (x * b + k) % n
        BY Rest, ZenonT(40)
      <4> QED
        BY <4>1, <4>2, Zenon
    <3> QED
      BY <2>3, <3>2, Zenon
  <2>5. Address(sent'.address) = Address(sent.address) * Base + byte
    <3>1. Len(sent.address) \in 0 .. 2
      BY <1>2, <1>3
    <3> QED
      BY <1>2, <1>5, <3>1, Appends
  <2>6. Address(sent.address) * Base \in Nat
    BY <1>2, <2>1
  <2> QED
    BY <2>1, <2>4, <2>5, <2>6
<1>10. Len(sent'.address) = sent'.count /\ sent'.count <= AddressBytes(game)
  BY <1>2, <1>3, <1>5
<1>11. SPIDataPos' = sent'.count /\ SRAMCmd' = SRAMCmd
  BY <1>3, <1>5 DEF SendsByte, Transfers
<1> QED
  BY <1>1, <1>2, <1>3, <1>5, <1>8, <1>9, <1>10, <1>11 DEF Tracks

\* The dummy byte of a fast read.
LEMMA SkippedByteTracks ==
  ASSUME IInv, Tracks, NEW byte \in Byte, SendsByte(byte), Addressing,
         sent.count >= AddressBytes(game),
         sent.count + 1 < Header(game, sent.opcode)
  PROVE  Tracks' /\ SRAM' = SRAM /\ sent'.count < Header(game, sent.opcode)
<1>1. game \in Games /\ game # NoGame /\ game' = game
  BY DEF SendsByte, Transfers, Running, IInv, TypeOK
<1>2. /\ sent.count \in Nat /\ sent.address \in Seq(Byte)
      /\ AddressBytes(game) \in 1 .. 3 /\ Header(game, sent.opcode) \in Nat
      /\ Header(game, sent.opcode) > AddressBytes(game)
      /\ sent.opcode \notin Erases
  BY <1>1, CommandFacts
<1>3. /\ sent.opcode \in Known(game) /\ SRAMCmd = sent.opcode
      /\ SPIDataPos = sent.count /\ Len(sent.address) = AddressBytes(game)
      /\ SRAMAddr = (Address(sent.address) + 0) % Length[game]
  BY <1>1, <1>2 DEF Tracks
<1>4. sent' = [sent EXCEPT !.count = sent.count + 1,
                           !.address = IF SPIDataPos + 1 <= AddressBytes(game)
                                       THEN Append(sent.address, byte)
                                       ELSE sent.address]
  BY NotAddressing DEF SendsByte, Addressing
<1>5. /\ sent'.count = sent.count + 1 /\ sent'.opcode = sent.opcode
      /\ sent'.address = sent.address
  BY <1>2, <1>3, <1>4 DEF IInv, TypeOK, Command
<1>6. SkipsByte(SPIDataPos + 1)
  BY <1>2, <1>3 DEF SendsByte, TakesAddress, TakesData
<1>7. SRAM' = SRAM /\ SRAMAddr' = SRAMAddr
  BY <1>6 DEF SkipsByte
<1>8. SPIDataPos' = sent'.count /\ SRAMCmd' = SRAMCmd
  BY <1>3, <1>5 DEF SendsByte, Transfers
<1> QED
  BY <1>1, <1>2, <1>3, <1>5, <1>7, <1>8 DEF Tracks

\* A byte of data: the chip's cell is the one the command has come to.
LEMMA DataByteTracks ==
  ASSUME IInv, Tracks, NEW byte \in Byte, SendsByte(byte), Addressing,
         sent.count + 1 >= Header(game, sent.opcode)
  PROVE  /\ Tracks' /\ TakesData(SPIDataPos + 1, byte)
         /\ SRAMCmd = sent.opcode /\ Cell = LatestCell'
<1>1. game \in Games /\ game # NoGame /\ game' = game
  BY DEF SendsByte, Transfers, Running, IInv, TypeOK
<1>2. /\ Length[game] \in Nat \ {0}
      /\ sent.count \in Nat /\ sent.address \in Seq(Byte)
      /\ AddressBytes(game) \in 1 .. 3 /\ Header(game, sent.opcode) \in Nat
      /\ Header(game, sent.opcode) > AddressBytes(game)
      /\ Address(sent.address) \in Nat /\ Offset(sent.opcode) \in Nat
      /\ sent.opcode \notin Erases
  BY <1>1, CommandFacts
<1>3. /\ sent.opcode \in Known(game) /\ SRAMCmd = sent.opcode
      /\ SPIDataPos = sent.count /\ Len(sent.address) = AddressBytes(game)
  BY <1>1, <1>2 DEF Tracks
<1> DEFINE k == sent.count + 1 - Header(game, sent.opcode)
           a == Address(sent.address)
<1>4. k \in Nat /\ a \in Nat
  BY <1>2
<1>5. SRAMAddr = (a + k) % Length[game]
  <2>1. SRAMAddr = (a + (IF sent.count < Header(game, sent.opcode) THEN 0
                         ELSE sent.count - Header(game, sent.opcode) + 1))
                     % Length[game]
    BY <1>1 DEF Tracks
  <2>2. k = IF sent.count < Header(game, sent.opcode) THEN 0
            ELSE sent.count - Header(game, sent.opcode) + 1
    BY <1>2
  <2> QED
    BY <2>1, <2>2
<1>6. sent' = [sent EXCEPT !.count = sent.count + 1,
                           !.address = IF SPIDataPos + 1 <= AddressBytes(game)
                                       THEN Append(sent.address, byte)
                                       ELSE sent.address]
  BY NotAddressing DEF SendsByte, Addressing
<1>7. /\ sent'.count = sent.count + 1 /\ sent'.opcode = sent.opcode
      /\ sent'.address = sent.address
  BY <1>2, <1>3, <1>6 DEF IInv, TypeOK, Command
<1>8. TakesData(SPIDataPos + 1, byte)
  BY <1>2, <1>3 DEF SendsByte, TakesAddress, SkipsByte
<1>9. SPIDataPos' = sent'.count /\ SRAMCmd' = SRAMCmd
  BY <1>3, <1>7 DEF SendsByte, Transfers
<1>10. SRAMAddr' = (a + (k + 1)) % Length[game]
  <2>1. SRAMAddr' = (SRAMAddr + 1) % Length[game]
    BY <1>8 DEF TakesData, NextAddress
  <2>2. SRAMAddr' = ((a + k) + 1) % Length[game]
    <3> HIDE DEF a, k
    <3>1. a + k \in Nat
      BY <1>4
    <3> QED
      BY <1>2, <1>5, <2>1, <3>1, RestPlus
  <2>3. (a + k) + 1 = a + (k + 1)
    BY <1>4
  <2> QED
    BY <2>2, <2>3
<1>11. Cell = LatestCell'
  <2>1. Cell = ((((a + k) % Length[game]) + Offset(sent.opcode)) % Length[game]) + 1
    BY <1>3, <1>5 DEF Cell
  <2>2. a + k \in Nat
    BY <1>4
  <2>3. (((a + k) % Length[game]) + Offset(sent.opcode)) % Length[game]
          = ((a + k) + Offset(sent.opcode)) % Length[game]
    <3> HIDE DEF a, k
    <3> QED
      BY <1>2, <2>2, RestPlus
  <2>4. (a + k) + Offset(sent.opcode)
          = a + Offset(sent.opcode) + (sent.count + 1) - Header(game, sent.opcode)
    <3>1. PICK x \in Nat, o \in Nat, c \in Nat, h \in Nat :
            x = a /\ o = Offset(sent.opcode) /\ c = sent.count
              /\ h = Header(game, sent.opcode)
      BY <1>2, <1>4, Zenon
    <3>2. (x + (c + 1 - h)) + o = x + o + (c + 1) - h
      OBVIOUS
    <3> QED
      BY <3>1, <3>2, Zenon
  <2>5. LatestCell' = ((a + Offset(sent.opcode) + (sent.count + 1)
                          - Header(game, sent.opcode)) % Length[game]) + 1
    BY <1>1, <1>7 DEF LatestCell, CellOf
  <2> QED
    BY <2>1, <2>3, <2>4, <2>5
<1>12. Tracks'
  <2>1. ~(sent'.count < Header(game, sent'.opcode))
        /\ sent'.count - Header(game, sent'.opcode) + 1 = k + 1
    BY <1>2, <1>7
  <2>2. Len(sent'.address) = IF sent'.count <= AddressBytes(game)
                             THEN sent'.count ELSE AddressBytes(game)
    BY <1>2, <1>3, <1>7
  <2> QED
    BY <1>1, <1>3, <1>7, <1>9, <1>10, <2>1, <2>2 DEF Tracks
<1> QED
  BY <1>3, <1>8, <1>11, <1>12

\* A byte moves the registers on, answers a read and changes only the cell
\* addressed.
LEMMA ByteTracks ==
  ASSUME IInv, Tracks, ReadsAsAddressed, NEW byte \in Byte, SendsByte(byte)
  PROVE  /\ Tracks' /\ ReadsAsAddressed'
         /\ \A c \in DOMAIN SRAM :
              sent.opcode \in Writes /\ SRAM'[c] # SRAM[c] => c = LatestCell'
<1>1. game \in Games /\ game # NoGame /\ game' = game /\ SRAM \in Memory(game)
  BY DEF SendsByte, Transfers, Running, IInv, TypeOK
<1>2. sent'.opcode = sent.opcode
  BY DEF SendsByte, IInv, TypeOK, Command
<1>3. CASE ~Addressing
  BY <1>2, <1>3 DEF Tracks, Addressing, ReadsAsAddressed
<1>4. CASE Addressing
  <2>0. /\ sent.count \in Nat
        /\ AddressBytes(game) \in 1 .. 3 /\ Header(game, sent.opcode) \in Nat
    BY <1>1, <1>4, CommandFacts
  <2>1. CASE sent.count + 1 < Header(game, sent.opcode)
    <3>1. Tracks' /\ SRAM' = SRAM /\ sent'.count < Header(game, sent.opcode)
      <4>1. CASE sent.count < AddressBytes(game)
        BY <1>4, <4>1, AddressByteTracks
      <4>2. CASE sent.count >= AddressBytes(game)
        BY <1>4, <2>1, <4>2, SkippedByteTracks
      <4> QED
        BY <2>0, <4>1, <4>2
    <3>2. sent'.count \in Nat
      BY <2>0 DEF SendsByte, IInv, TypeOK, Command
    <3>3. ReadsAsAddressed'
      BY <1>1, <1>2, <2>0, <3>1, <3>2 DEF ReadsAsAddressed
    <3> QED
      BY <3>1, <3>3
  <2>2. CASE sent.count + 1 >= Header(game, sent.opcode)
    <3>1. /\ Tracks' /\ TakesData(SPIDataPos + 1, byte)
          /\ SRAMCmd = sent.opcode /\ Cell = LatestCell'
      BY <1>4, <2>2, DataByteTracks
    <3>2. CASE sent.opcode \in Reads
      <4>1. SPIData' = SRAM[Cell] /\ SRAM' = SRAM
        BY <3>1, <3>2 DEF TakesData
      <4> QED
        BY <3>1, <4>1 DEF ReadsAsAddressed
    <3>3. CASE sent.opcode \notin Reads
      <4>1. ReadsAsAddressed'
        BY <1>2, <3>3 DEF ReadsAsAddressed
      <4>2. \A c \in DOMAIN SRAM : SRAM'[c] # SRAM[c] => c = Cell
        BY <1>1, <3>1, <3>3 DEF TakesData, Memory
      <4> QED
        BY <3>1, <4>1, <4>2
    <3> QED
      BY <3>2, <3>3
  <2> QED
    BY <2>0, <2>1, <2>2
<1> QED
  BY <1>3, <1>4

LEMMA OpcodeTracks ==
  ASSUME IInv, game # NoGame, NEW op \in Known(game) \cup Plain, SendsOpcode(op)
  PROVE  Tracks' /\ ReadsAsAddressed'
<1>1. game \in Games /\ game' = game /\ Length[game] \in Nat \ {0}
  BY LengthAssumption DEF IInv, TypeOK, SendsOpcode, Transfers
<1>2. /\ sent' = [opcode |-> IF op \in Plain THEN "other" ELSE op,
                  address |-> <<>>, count |-> 0]
      /\ SPIDataPos' = 0
  BY DEF SendsOpcode, Transfers
<1>3. AddressBytes(game) \in 1 .. 3
  BY <1>1, ChipAssumption DEF AddressBytes
<1>4. Header(game, op) \in Nat /\ Header(game, op) > 0
  BY <1>3 DEF Header
<1>5. CASE op \in Reads \cup Writes
  <2>0. sent' = [opcode |-> op, address |-> <<>>, count |-> 0]
    BY <1>2, <1>5, NotAddressing
  <2>1. op \in Known(game) /\ op \notin {"writeEnable", "writeDisable"}
    BY <1>5, NotAddressing DEF Plain
  <2>2. SRAMCmd' = op /\ SRAMAddr' = 0
    BY <2>1 DEF SendsOpcode
  <2>3. Address(<<>>) = 0 /\ Len(<<>>) = 0
    BY DEF Address
  <2>4. (0 + 0) % Length[game] = 0
    BY <1>1
  <2> QED
    BY <1>1, <1>2, <1>3, <1>4, <2>0, <2>1, <2>2, <2>3, <2>4 DEF Tracks, ReadsAsAddressed
<1>6. CASE op \notin Reads \cup Writes
  <2>1. sent'.opcode \notin Reads \cup Writes
    BY <1>2, <1>6, NotAddressing
  <2> QED
    BY <2>1 DEF Tracks, Addressing, ReadsAsAddressed
<1> QED
  BY <1>5, <1>6

LEMMA LoadTracks ==
  ASSUME IInv, game # NoGame, NEW snapshot \in Snapshots[game], LoadsState(snapshot)
  PROVE  Tracks' /\ ReadsAsAddressed'
<1>1. game \in Games /\ snapshot \in Snapshot(game) /\ Follows(game, snapshot)
  BY SnapshotsAssumption DEF IInv, TypeOK
<1>2. /\ game' = game /\ sent' = snapshot.sent /\ SRAMCmd' = snapshot.SRAMCmd
      /\ SPIDataPos' = snapshot.SPIDataPos /\ SRAMAddr' = snapshot.SRAMAddr
      /\ SPIData' = snapshot.SPIData /\ SRAM' = snapshot.SRAM
  BY DEF LoadsState
<1> QED
  BY <1>1, <1>2 DEF Follows, Tracks, Addressing, ReadsAsAddressed, LatestCell

LEMMA TracksInit == Init => Tracks /\ ReadsAsAddressed
BY DEF Init, Tracks, ReadsAsAddressed

LEMMA TracksStep ==
  IInv /\ Tracks /\ ReadsAsAddressed /\ [Next]_vars => Tracks' /\ ReadsAsAddressed'
<1> SUFFICES ASSUME IInv, Tracks, ReadsAsAddressed, [Next]_vars
             PROVE  Tracks' /\ ReadsAsAddressed'
  OBVIOUS
<1>1. CASE \E on, keep \in BOOLEAN : WriteSPICnt(on, keep)
  BY <1>1 DEF WriteSPICnt, chip, Tracks, Addressing, ReadsAsAddressed, LatestCell
<1>2. CASE game # NoGame /\ \E op \in Known(game) \cup Plain : SendsOpcode(op)
  BY <1>2, OpcodeTracks
<1>3. CASE \E byte \in Byte : SendsByte(byte)
  BY <1>3, ByteTracks
<1>4. CASE WritesFile
  BY <1>4 DEF WritesFile, slot, chip, Tracks, Addressing, ReadsAsAddressed, LatestCell
<1>5. CASE (\E g \in Games : Launches(g)) \/ Ends
  <2>1. sent'.opcode = "other"
    BY <1>5 DEF Launches, Ends, NothingSent
  <2> QED
    BY <2>1, NotAddressing DEF Tracks, Addressing, ReadsAsAddressed
<1>6. CASE game # NoGame /\ \E snapshot \in Snapshots[game] : LoadsState(snapshot)
  BY <1>6, LoadTracks
<1>7. CASE UNCHANGED vars
  BY <1>7 DEF vars, slot, chip, history, Tracks, Addressing, ReadsAsAddressed, LatestCell
<1> QED
  BY <1>1, <1>2, <1>3, <1>4, <1>5, <1>6, <1>7 DEF Next, Game

LEMMA Tracking == Spec => [](IInv /\ Tracks /\ ReadsAsAddressed)
BY InvInit, InvStep, TracksInit, TracksStep, PTL DEF Spec

\* A read answers with the byte the game addressed, however it split the command.
THEOREM ReadsReach == Spec => []ReadsAsAddressed
BY Tracking, PTL

\* A write changes the cell the game addressed and no other.
THEOREM WritesReach == Spec => WritesAsAddressed
<1>1. IInv /\ Tracks /\ ReadsAsAddressed /\ [Next]_vars =>
        [\A c \in DOMAIN SRAM :
           /\ sent.opcode \in Writes /\ game' = game /\ SRAM'[c] # SRAM[c]
           /\ \E byte \in Byte : SendsByte(byte)
           => c = LatestCell']_vars
  <2> SUFFICES ASSUME IInv, Tracks, ReadsAsAddressed, NEW c \in DOMAIN SRAM,
                      sent.opcode \in Writes, SRAM'[c] # SRAM[c],
                      NEW byte \in Byte, SendsByte(byte)
               PROVE  c = LatestCell'
    OBVIOUS
  <2> QED
    BY ByteTracks
<1> QED
  BY <1>1, Tracking, PTL DEF Spec, WritesAsAddressed

=============================================================================
