\* Three jobs; the handlers, their answers and their failures in every order.
SPECIFICATION FairSpec
CONSTANT Jobs = 3
INVARIANTS
  TypeOK
  OkIsComplete
  BadRequestIffUserError
PROPERTIES
  NothingAfterResponse
  EveryRequestAnswered
\* A request ends.
CHECK_DEADLOCK FALSE
