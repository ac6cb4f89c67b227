\* Three chunks, a channel of one place.
SPECIFICATION FairSpec
CONSTANTS
  Chunk = {c1, c2, c3}
  Cap = 1
  Nobody = Nobody
INVARIANTS
  TypeOK
  NoSendAfterClose
  OneMessagePerChunk
  CopyIsCoherent
PROPERTY StreamCloses
\* A stream ends; a handler that has left may block the others for ever.
CHECK_DEADLOCK FALSE
