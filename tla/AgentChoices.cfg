SPECIFICATION FairSpec
CONSTANTS
  NumCalls = 2
  NumTurns = 3
  MaxBatch = 2
  PollLimit = 1
  MaxLag = 2
  NumSubmits = 2
  None = None
INVARIANTS
  TypeOK
  OneResultPerCall
  CardIsAcceptable
  ResumesAnswered
  OfferReachesUser
PROPERTY PanelSettles
CHECK_DEADLOCK FALSE
