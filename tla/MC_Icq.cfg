SPECIFICATION Spec
CONSTANTS
    Connection = {"connection-0"}
    Channel = {c1, c2}
    NoChannel = NoChannel
    Version = "icq-1"
    Versions = {"icq-1", "icq-2"}
    Answer <- MCAnswer
    ConsumerWired = TRUE
    Extractor = "test"
    QueryTimeout = 2
    One = 2
    ParamChoices <- MCChoices
    GenesisParams <- MCGenesis
    OraclePrices = {}
    NoQuery = NoQuery
    Faults = {"close", "client", "slow", "host", "import"}
    MaxTime = 3
INVARIANTS TypeOK PendingInFlight Paced MappedAlive
PROPERTIES NotForgotten LedgerSpec
CHECK_DEADLOCK FALSE
SYMMETRY ChannelSymmetry
