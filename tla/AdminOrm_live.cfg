SPECIFICATION FairSpec
CONSTANTS
    Calls = {c1, c2, c3}
    Keys = {k1}
    Commands <- TwoCommands
    MaxConnections = 2
    None = None
PROPERTIES
    EveryCallReturns
    TransactionsEnd
    ImplementsLedger
CHECK_DEADLOCK FALSE
