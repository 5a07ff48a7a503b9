CONSTANTS
    a1 = a1
    a2 = a2
    p0 = p0
    p1 = p1
    Agents = {a1, a2}
    Series = {p0, p1}
    Partitions = {p0, p1}
    PartitionOf <- MCTwoPartitions
    Trades <- MCAllTrade
    Prices = {low, high}
    Slots = {s1}
    MaxTokens <- MCOneToken
    QueueCapacity = 1
    Amendable <- MCAllPatient
    Scenarios = {"accept", "reject"}
    AcceptStates = {"LIVE"}
    Null = Null
SPECIFICATION Spec
PROPERTIES OthersOrdersIgnored
