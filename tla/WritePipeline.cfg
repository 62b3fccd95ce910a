CONSTANTS
    Users = {A, B}
    FirstUser = A
    MaxWrites = 5
    MaxPending = 4
    Overtaking = TRUE
    MaxFaults = 2
SPECIFICATION FairSpec
INVARIANTS TypeOK NoAssertFails PipelineIsQueueFront RepliesMatchPipeline OrderKept AckedWasApplied CallbacksAwaitTheirWrite
PROPERTIES Refines QueueDrains
CHECK_DEADLOCK FALSE
