\* One call, two workers that may go down, two failures of any kind.
SPECIFICATION FairSpec
CONSTANTS
  Query = {q1}
  Worker = {w1, w2}
  NoQuery = NoQuery
  Value = {value, userError}
  ChannelSize = 1
  MaxFaults = 2
PROPERTIES
  QueueDrains
  ListenerReleased
  ServiceProgress
