SPECIFICATION FairSpec
CONSTANTS
    PosMax = 3
    MinVolts = 2
    MaxVolts = 4
    RailMax = 5
    LossyBus = TRUE
INVARIANTS
    TypeOK
    LookupIsNearest
    PulsesAtVoltageAsked
    CeilingAfterSmoothBoot
PROPERTIES
    GradualRamp
    RampEnds
