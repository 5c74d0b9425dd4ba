\* Zero and three request numbers: one that has been seen by neither function of the
\* servo cycle, by one, or by both.
SPECIFICATION FairSpec
CONSTANTS
  RequestModulus = 4
  None = None
INVARIANT FeedWaitsForTheProgram
PROPERTY AcknowledgementIsFresh
PROPERTY AbortsArrive
