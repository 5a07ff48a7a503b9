SPECIFICATION FeedSpec
CONSTANTS
    PoolSize = 4
    Readers = {r1, r2}
    Payload <- MCPayload
    Blank <- MCBlank
    Datagrams = {1, 2}
    MaxBytes = 3
INVARIANT FlushedIsConsumed
