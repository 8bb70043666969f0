SPECIFICATION FairSpec
CONSTANTS
    boot = boot
    job = job
    ParamSets = {boot}
    DefaultParams = boot
    Target <- MCNoTarget
    Interval = 1
    SkipCount = 1
    MaxCount = 1
    SpuriousEdges = FALSE
PROPERTIES
    FaultServed
    DisableStopsOutput
    ContactReported
    PulsesComeBack
