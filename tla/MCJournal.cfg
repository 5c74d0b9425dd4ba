SPECIFICATION Spec
CONSTANTS
  s1 = s1
  s2 = s2
  s3 = s3
  Supervisors <- Three
  MaxFaults = 2
  None = None
SYMMETRY Symmetry
INVARIANTS AcknowledgedSurvives LinesAreWhole SuccessIsRecorded
CHECK_DEADLOCK FALSE
