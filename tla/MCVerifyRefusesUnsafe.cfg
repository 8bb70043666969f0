SPECIFICATION Spec
CONSTANTS
    PosMax = 3
    MinVolts = 2
    MaxVolts = 4
    RailMax = 5
    LossyBus = FALSE
PROPERTY
    VerifyRefusesUnsafe
