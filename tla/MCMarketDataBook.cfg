SPECIFICATION BookSpec
CONSTANTS
    BookSeries = {b1, b2}
    Oids = {1, 2}
    BookPrices = {1, 2}
    Quantities = {1, 2}
    Orders = {0, 1, 2}
    Levels = {0, 1, 2}
    Repricing = TRUE
    Absent = Absent
INVARIANT NoEmptyLevel
CHECK_DEADLOCK FALSE
