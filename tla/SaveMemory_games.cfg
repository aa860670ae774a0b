SPECIFICATION Spec
CONSTANTS
  Games = {"platformer", "puzzle"}
  Chip <- Cartridges
  Length <- Lengths
  Base = 2
  MaxBytes <- Bytes
  Snapshots <- PeerSnapshots
  Cuts = {1}
INVARIANTS
  TypeOK
  SafeToEnd
  ReadsAsAddressed
PROPERTIES
  LaunchFindsSave
  WritesAsAddressed
