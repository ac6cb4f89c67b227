\* Two chunks and three words; series up to 13 items; a corpus of five positions.
SPECIFICATION Spec
CONSTANTS
  Chunk = {c1, c2}
  Word = {w1, w2, w3}
  MaxFreq = 2
  Lengths <- SeriesLengths
  Window = 10
  Peak = 20
  Size = 5
SYMMETRY Interchangeable
INVARIANTS
  TypeOK
  MergeIsExact
  FinalIsTop
  BinsKeepTotals
  ContextIsWindow
\* A computation ends.
CHECK_DEADLOCK FALSE
