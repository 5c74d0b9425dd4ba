\* Pendant Mode: jogs, replacements, stops, limits, backoff and its release.
CONSTANTS
    None = None
    XMotor = mX
    YMotor = mY
    Motors = {mX, mY}
    Quadratures = {0}
    Pulses <- MCPulses
    ClockwiseSign <- MCClockwise
    GateSettle = 2
    LimitReset = 2
    LimitResetValidate = 1
    LimitResetTimeout = 2
    MotionAcceptTimeout = 2
    MotionStopTimeout = 2
    JogTimeout = 2
    BounceTimeout = 2
    TimerCap = 3
    BouncePulses = 2
    Inputs <- MCJogInputs
SPECIFICATION Spec
INVARIANT LatchResetHasAnOwner PhasesKeepTheirSubject
INVARIANT OnlyAwayFromTheLimit IncrementsNeedArming
PROPERTY ReversalsStopFirst AbandonedJogsAreStopped AttributionIsKept
