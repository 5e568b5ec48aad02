SPECIFICATION Spec
CONSTANTS
  Seqs <- MCSeqs
  Pos <- MCPos
  Layouts <- MCLayouts
  MaxBatch = 2
  MaxQueued = 1
  MaxPos = 3
  Allowed = {}
INVARIANTS IndexesAgree NoGaps WindowWhole RefusedOnlyWhenFull
PROPERTY KeepsSequences
