\* The runtime around the supervisor and the motion channel behind it.
CONSTANTS
    None = None
    XMotor = mX
    YMotor = mY
    Motors = {mX, mY}
    Quadratures = {0}
    Pulses <- MCServoPulses
    ClockwiseSign <- MCClockwise
    GateSettle = 1
    LimitReset = 1
    LimitResetValidate = 1
    LimitResetTimeout = 1
    MotionAcceptTimeout = 2
    MotionStopTimeout = 1
    JogTimeout = 1
    BounceTimeout = 1
    TimerCap = 3
    BouncePulses = 2
    Inputs = {}
    MesaStable = 1
    LatchReset = 1
    LatchSettle = 1
    ArmLow = 1
    OkWait = 1
    OkStable = 1
    GuardCap = 1
    Staleness = 2
    Requests = 1
    Frames <- MCServoFrames
    Budget = 2
    CountMax = 4
SPECIFICATION ServoSpec
INVARIANT GuardFaultsAreHeld CommandsAreOfThisCycle
INVARIANT StaleTaskStartsNoJog PressIsObeyed
INVARIANT NothingIsRefused
PROPERTY OffersAreExact OnlyContactsOrphan OpenCommitsNeedMachineOn
