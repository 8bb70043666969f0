SPECIFICATION Spec
CONSTANTS
    Size = 3
    Cycle = 3
INVARIANTS
    TypeOK
    BufferHoldsTheLast
    ReadingsAreTheirOwn
    StraySamplesAreVoltage
    LatestIsAveraged
