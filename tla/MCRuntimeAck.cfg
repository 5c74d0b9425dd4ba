\* A late decoder acknowledgement after the watchdog has faulted.
CONSTANTS
    None = None
    XMotor = mX
    YMotor = mY
    Motors = {mX, mY}
    Quadratures = {0}
    Pulses <- MCPulses
    ClockwiseSign <- MCClockwise
    GateSettle = 1
    LimitReset = 1
    LimitResetValidate = 1
    LimitResetTimeout = 1
    MotionAcceptTimeout = 1
    MotionStopTimeout = 1
    JogTimeout = 1
    BounceTimeout = 1
    TimerCap = 2
    BouncePulses = 2
    Inputs = {}
    MesaStable = 1
    LatchReset = 1
    LatchSettle = 1
    ArmLow = 1
    OkWait = 1
    OkStable = 1
    GuardCap = 1
    Staleness = 3
    Requests = 2
    Frames <- MCFrames
SPECIFICATION RuntimeSpec
PROPERTY WatchdogFaultIsRetained
