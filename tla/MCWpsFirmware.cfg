SPECIFICATION Spec
CONSTANTS
    boot = boot
    job = job
    ParamSets <- MCParamSets
    DefaultParams = boot
    Target <- MCTarget
    Interval = 2
    SkipCount = 2
    MaxCount = 2
    SpuriousEdges = TRUE
INVARIANTS
    TypeOK
    FaultCutBeforePoll
    PulsesMatchMode
    PreparationIsCurrent
    RateCountsThisOperation
    LowPgoodIsPendingOrMasked
    SilentUnlessOperating
PROPERTIES
    TotalNeverFallsWhileLive
    ImplementsSupervisor
