CONSTANTS
    Modules = {m1}
    Versions = {v1, v2}
    NoVersion = NoVersion
SPECIFICATION FairSpec
INVARIANTS
    TypeOK
    PodsKeepWorkerVersion
PROPERTIES
    WorkerVersionNeverJumps
    UpgradeConverges
    ImplementsUpgrade
