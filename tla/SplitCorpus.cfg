\* Two splits of every size and a deletion, a corpus of three positions.
SPECIFICATION Spec
CONSTANTS
  Splitter = {s1, s2}
  Deleter = {d1}
  Size = 3
  Asked <- Asks
  MaxChunks = 2
  NoFile = NoFile
  Blank = Blank
INVARIANTS
  TypeOK
  SplitCoversCorpus
  NoMixedSplits
  OkMeansComputed
  DeleteIsComplete
SYMMETRY Interchangeable
\* The requests end.
CHECK_DEADLOCK FALSE
