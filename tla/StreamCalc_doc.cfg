\* Two chunks, a channel that holds both messages.
SPECIFICATION Spec
CONSTANTS
  Chunk = {c1, c2}
  Cap = 2
  Nobody = Nobody
INVARIANT LastIsComplete
CHECK_DEADLOCK FALSE
