\* One axis, two counter values: every stage and every restart is reached.
CONSTANTS
    None = None
    Motors = {mX}
    XMotor = mX
    Quadratures = {0, 1}
    Samples <- MCSamples
SPECIFICATION Spec
CHECK_DEADLOCK TRUE
PROPERTY ScriptIsFollowed
