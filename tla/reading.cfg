CONSTANTS
    NoFile = NoFile
    File = {f1, f2}
    Caller = {c1, c2}
    Limit = 1
    MaxScan = 7
    MaxRecords = 3
    MaxScanErrors = 1
    Row = {1, 2, 3}
    PageLimit = 1
    MaxNow = 2
    MaxWrites = 2
    Entry = {1, 2, 3, 4, 5, 6}
    Id <- Ids
    Dated <- Days
    NodeOf <- Places
SYMMETRY Symmetry
SPECIFICATION Spec
INVARIANT SummaryIsExact
INVARIANT NothingIsSkipped
INVARIANT HistoryIsExact
INVARIANT TailCatchesUp
INVARIANT LogIsExact
CHECK_DEADLOCK FALSE
