SPECIFICATION Spec
CONSTANTS
    boot = boot
    job = job
    ParamSets <- MCParamSets
    DefaultParams = boot
    Target <- MCTarget
    Interval = 2
    SkipCount = 2
    MaxCount = 2
    SpuriousEdges = FALSE
INVARIANT
    DarkWhileReporting
