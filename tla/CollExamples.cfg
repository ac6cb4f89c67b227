\* Any request to one of the handlers; two lemmas of a word form, three collocates.
SPECIFICATION FairSpec
CONSTANTS
  MaxLemmas = 2
  MaxColls = 3
INVARIANTS
  TypeOK
  RefusedOnce
  OkIsTrue
  BlameIsRight
  EveryCollocateAccounted
  NobodyLeftWaiting
PROPERTIES
  EveryRequestEnds
\* A request ends.
CHECK_DEADLOCK FALSE
