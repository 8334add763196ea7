CONSTANTS
    Limits <- MCLimits
    ValidNames = {"one", "two"}
    Streams = {s1, s2}
    Events <- MCEvents
    Requests <- MCRequests
    TransactionUpdates = TRUE
    UtxoUpdates = TRUE
    MempoolTransactionUpdates = TRUE
    EncodingThreads = 2
    ParallelMinimum = 2
    MaxEvents = 2
    MaxChanges = 1
SPECIFICATION Spec
SYMMETRY StreamSymmetry
INVARIANTS
    TypeOK
    UpdatesWhole
    EachFilterForItself
    PayloadAsAsked
    TransactionWithItsUtxos
    NotationDoesNotMatter
CHECK_DEADLOCK FALSE
