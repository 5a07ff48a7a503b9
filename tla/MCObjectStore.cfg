SPECIFICATION StoreSpec
CONSTANTS
    Keys = {k1, k2}
    Objects = {o1, o2}
    MaxDate = 3
    MaxGuards = 2
    Guarded = FALSE
    Nil = Nil
INVARIANT OneRowAtMost
CHECK_DEADLOCK FALSE
