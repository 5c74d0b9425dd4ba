\* Pendant Mode off: the gate, the requests, the gesture, startup and limits.
CONSTANTS
    None = None
    XMotor = mX
    YMotor = mY
    Motors = {mX, mY}
    Quadratures = {0}
    Pulses <- MCPulses
    ClockwiseSign <- MCClockwise
    GateSettle = 2
    LimitReset = 2
    LimitResetValidate = 1
    LimitResetTimeout = 2
    MotionAcceptTimeout = 1
    MotionStopTimeout = 1
    JogTimeout = 1
    BounceTimeout = 2
    TimerCap = 3
    BouncePulses = 2
    Inputs <- MCPowerInputs
SPECIFICATION Spec
INVARIANT FaultedIsInert GateMeansRecovered
INVARIANT MachineOnNeedsTheGesture
PROPERTY StartupHappensOnce
