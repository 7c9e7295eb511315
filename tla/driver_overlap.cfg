SPECIFICATION Spec
CONSTANTS
  Offsets = {0, 16, 32, 48}
  Sizes = {8, 40}
  HeapEnds = {64, 96}
INVARIANTS
  NoOverlap
