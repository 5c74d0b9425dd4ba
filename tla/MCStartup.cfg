\* A cold start with three lapses, none of them while a request is up.
CONSTANTS
    None = None
    XMotor = mX
    YMotor = mY
    Motors = {mX, mY}
    Quadratures = {0}
    Pulses <- MCPulses
    ClockwiseSign <- MCClockwise
    GateSettle = 2
    LimitReset = 1
    LimitResetValidate = 1
    LimitResetTimeout = 1
    MotionAcceptTimeout = 1
    MotionStopTimeout = 1
    JogTimeout = 1
    BounceTimeout = 1
    TimerCap = 3
    BouncePulses = 2
    Inputs = {}
    MesaStable = 1
    LatchReset = 1
    LatchSettle = 1
    ArmLow = 1
    OkWait = 2
    OkStable = 2
    GuardCap = 2
    Staleness = 2
    Requests = 1
    Frames <- MCStartupFrames
    Lapses = 3
    LapseMidway = FALSE
SPECIFICATION StartSpec
PROPERTY ColdStartCompletes
