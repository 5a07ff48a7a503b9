CONSTANTS
    a1 = a1
    a2 = a2
    p0 = p0
    p1 = p1
    Agents = {a1, a2}
    Series = {x}
    Partitions = {p0}
    PartitionOf <- MCOnePartition
    Trades <- MCAllTrade
    Prices = {low, high}
    Slots = {s1}
    MaxTokens <- MCTokens
    QueueCapacity = 1
    Amendable <- MCAmendable
    Scenarios = {"accept", "reject"}
    AcceptStates = {"LIVE", "NOT_ON_BOOK"}
    Null = Null
SPECIFICATION Spec
SYMMETRY MCSymmetry
INVARIANTS MapsAgree PendingIsUnanswered NothingLate BookIsVenues NoOrderInError
