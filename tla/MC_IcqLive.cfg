SPECIFICATION FairSpec
CONSTANTS
    Connection = {"connection-0"}
    Channel = {c1}
    NoChannel = NoChannel
    Version = "icq-1"
    Versions = {"icq-1", "icq-2"}
    Answer <- MCLiveAnswer
    ConsumerWired = TRUE
    Extractor = "test"
    QueryTimeout = 2
    One = 2
    ParamChoices <- MCLiveChoices
    GenesisParams <- MCGenesis
    OraclePrices = {0, 2}
    NoQuery = NoQuery
    Faults = {"close", "slow", "host"}
    MaxTime = 3
PROPERTIES StaysPositive Settled
CHECK_DEADLOCK FALSE
