SPECIFICATION Spec
CONSTANTS
    Workers = {w1, w2}
    NoWorker = NoWorker
    QueueMax = 1
    WireMax = 1
INVARIANTS
    TypeOK
    NoOrphanWithoutHaste
    QuietIsDisconnected
    LiveButtonTellsTheTruth
PROPERTIES
    DisconnectCompletes
    ReadoutRecovers
