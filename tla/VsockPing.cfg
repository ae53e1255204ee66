\* A channel of one message, so that the receipt waits for the response to be
\* taken; a guest that is not the example sends up to three messages.
CONSTANTS
  Ids = {r1, r2}
  RequestId = r1
  MaxSent = 3
  Capacity = 1
SPECIFICATION FairSpec
INVARIANT OkMeansAnswered
PROPERTY PingEnds
\* Both mains return.
CHECK_DEADLOCK FALSE
