SPECIFICATION Spec
CONSTANTS
  a = a
  p = p
  q = q
  point = point
  Right = Right
  Left = Left
  Buttons = {a}
  Pads = {p, q}
  Points = {point}
  Samples = {0, 1}
  Silence = 0
  Slots = 4
  Chunk = 2
  MaxFailures = 1
  Scenes <- ThreeScenes
INVARIANTS
  TypeOK
  NothingSticks
  RestsInBackground
  NodesAddUp
PROPERTIES
  FlagIsTrueAgain
  PlaysAsFifo
  ReachesBackground
  GameRuns
  ReleasesReachGame
