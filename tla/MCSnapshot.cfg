SPECIFICATION Spec
CONSTANTS
  Pins = {p1, p2}
  Values = {TRUE, FALSE}
  Initial <- MCInitial
  Modulus = 8
  ReadWindow = 3
  Attempts = 2
PROPERTY AtomicSnapshotSpec
