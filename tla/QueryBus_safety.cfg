\* Two concurrent calls, two workers, one failure of any kind.
SPECIFICATION Spec
CONSTANTS
  Query = {q1, q2}
  Worker = {w1, w2}
  NoQuery = NoQuery
  Value = {value, userError}
  ChannelSize = 1
  MaxFaults = 1
SYMMETRY Symmetry
INVARIANTS
  TypeOK
  SingleExecution
  PublishedReachesCaller
  NotifiedFindsResult
  HonestAnswer
PROPERTIES
  ImplementsService
  
