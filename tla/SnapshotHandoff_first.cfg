SPECIFICATION Spec
CONSTANTS
  a = a
  b = b
  Keys = {a, b}
  Settings <- ThreeSettings
  Window = 2
SYMMETRY KeySymmetry
INVARIANTS
  SameFrames
