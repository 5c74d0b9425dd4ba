\* The sequence wraps at six, the dropped-packet counter at two; the decoder misreads
\* the wheel once and the runtime asks for one reset.
SPECIFICATION FairSpec
CONSTANTS
  SequenceModulus = 6
  CounterModulus = 2
  PacketTimeout = 1
  MaxErrors = 1
  MaxRequests = 1
  None = None
  WireCapacity = 1
  LossWindow = 1
INVARIANT DropsAreCounted
PROPERTY QuadratureFaultIsHeld
PROPERTY PressIsReported
