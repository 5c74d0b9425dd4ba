\* Four servo periods, a stream of one frame, a recording of two, and two faults: calls
\* that fail, threads that die and late answers, in every combination of two. At most
\* three presses of Retry Save come between two looks of the worker at the counter (one
\* failure and one late answer), so four values are enough.
SPECIFICATION FairSpec
CONSTANTS
  Depth = 2
  MaxFrames = 2
  Retries = 4
  MaxCycle = 4
  MaxFaults = 2
  None = None
INVARIANTS
  CompleteMeansAll
  NamedIsWhole
  SavedIsDurable
PROPERTY FinishedIsSaved
CHECK_DEADLOCK FALSE
