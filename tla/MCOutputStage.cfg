SPECIFICATION Spec
CONSTANTS
    NaN = NaN
    Requests <- MCRequests
    Undefined <- MCUndefined
    StopTimes <- MCStopTimes
    IsrTimes <- MCIsrTimes
    MaxLag = 1596
INVARIANTS
    TypeOK
    NoSwitchHeldClosed
    WholeBridge
    PulsesAreWatched
    PulseAsAccepted
    SwitchesApart
