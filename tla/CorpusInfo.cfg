\* Two requests that may overlap in everything; a corpus with and one without a file.
SPECIFICATION Spec
CONSTANTS
  c1 = c1
  c2 = c2
  l1 = l1
  l2 = l2
  Asks <- FewAsks
  Request = {r1, r2}
  Corpus = {c1, c2}
  Configured = {c1}
  Lang = {l1, l2}
  TextProps = {p1, p2}
  MaxChanges = 1
  Nobody = Nobody
INVARIANTS
  TypeOK
  InfoIsRight
PROPERTIES
  EveryRequestEnds
\* The requests of a behaviour come to an end.
CHECK_DEADLOCK FALSE
