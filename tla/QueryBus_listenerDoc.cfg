\* One call, no failure.
SPECIFICATION Spec
CONSTANTS
  Query = {q1}
  Worker = {w1}
  NoQuery = NoQuery
  Value = {value, userError}
  ChannelSize = 1
  MaxFaults = 0
INVARIANT InactiveMeansNobody
