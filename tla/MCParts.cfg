CONSTANTS
    CAPACITY = 2
    T = {t0, t1}
    ZeroT = t0
    NoValue = NoValue
    MaxPosition = 5
    ga = ga
    gb = gb
    Main = Main
    Thread <- MCThread
    Turns = 5
    TurnsOf <- MCTurnsOf
    Points = 3
    Ifcs = {1, 2}
    p1 = p1
    p2 = p2
    Parts = {p1, p2}
    MaskOf <- MCMaskOf
    LoginQueueCapacity = 1
    MaxOrders = 1
    MaxBeats = 1
    Answers = {"A", "J"}
    Keys = {1}
    Objects = {1, 2}
    MaxDate = 3
    MaxGuards = 2
    Guarded = TRUE
    Nil = NoValue
    Components = 6
    Startable = {0, 1, 3, 4}
    ChunkCapacity = 2
    MaxCapacity = 5
    Times = {1, 2, 3}
    NoObject = NoValue
    Constructed <- MCEntries
    bin_count = 4
    Increments <- MCIncrements
    MaxIndex = 9
    MaxAdds = 4
    TableKeys = {0, 1, 4, 5, 8}
    TableValues = {1, 2}
    InitialCapacity = 2
    CapacityLimit = 8
    NoEntry = NoValue
    PageSize = 2
    Capacity = 4
    Window = 3
    MaxBytes = 12
    BookSeries = {1, 2}
    Oids = {1, 2}
    BookPrices = {1, 2}
    Quantities = {1, 2}
    Orders = {0, 1, 2}
    Levels = {0, 1, 2}
    Repricing = FALSE
    Absent = NoValue
SPECIFICATION PartsSpec
INVARIANTS
    NoSlotRace TimersAreHonest LoginOnceThenOrders
    TableIsMap EventsInOrder CountIsWindow BuffersKeepBytes BooksAreVenues AsOfIsHistory
PROPERTIES
    HonestRefusal ImplementsFifo ImplementsLifecycle SequentialLifecycle
    EveryValueConsumed BarrierEnds StopJoins AgentsRun
CHECK_DEADLOCK FALSE
