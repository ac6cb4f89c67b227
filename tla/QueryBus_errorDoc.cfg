\* One call, one failure.
SPECIFICATION Spec
CONSTANTS
  Query = {q1}
  Worker = {w1}
  NoQuery = NoQuery
  Value = {value, userError}
  ChannelSize = 1
  MaxFaults = 1
INVARIANT ErrorMeansUnpublished
