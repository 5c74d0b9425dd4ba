\* The button goes down again while the recovery it completed is re-arming LinuxCNC.
CONSTANTS
    None = None
    XMotor = mX
    YMotor = mY
    Motors = {mX, mY}
    Quadratures = {0}
    Pulses <- MCPulses
    ClockwiseSign <- MCClockwise
    GateSettle = 2
    LimitReset = 2
    LimitResetValidate = 1
    LimitResetTimeout = 2
    MotionAcceptTimeout = 1
    MotionStopTimeout = 1
    JogTimeout = 1
    BounceTimeout = 2
    TimerCap = 3
    BouncePulses = 2
    Inputs <- MCLoopInputs
    PressMidway = TRUE
SPECIFICATION LoopSpec

PROPERTY RearmedAfterRelease
