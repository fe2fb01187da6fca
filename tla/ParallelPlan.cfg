SPECIFICATION Spec
CONSTANTS
    WorkerMaximum = 4
    CountMaximum = 6
    IntMax = 5
    XlenMax = 24
    MaxTasks = 13
    ChunksPerWorker = 3
    MinimumChunkTasks = 2
    Halves <- MCHalves
INVARIANTS
    TypeOK
    EveryWorkerCanDrawAChunk
    ChunkingNeverDecidesThreading
    TargetsFit
PROPERTY
    AnswerRestoresSetting
