CONSTANTS
    ga = ga
    gb = gb
    Main = Main
    Components = 5
    MaxSteps = 6
    Startable <- MCStartable
    Task <- MCTask
    Steps <- MCSteps
    PoolSize = 4
    Readers = {r1}
    Payload <- MCPayload
    Blank <- MCBlank
    Partitions = {0, 1}
    PartitionMask <- MCPartitionMask
    FrameSize = 2
    MaxBytes <- MCMaxBytes
    MaxPos = 5
SPECIFICATION BothSpec
INVARIANTS SteppedWhileUp NothingLeftUp FailuresReported WholeFramesInOrder FlushStopsAtGrace
PROPERTIES StopReachesAll StopReturns FramesAreConsumed
