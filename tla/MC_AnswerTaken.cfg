SPECIFICATION Spec
CONSTANTS
    Connection = {"connection-0"}
    Channel = {c1}
    NoChannel = NoChannel
    Version = "icq-1"
    Versions = {"icq-1", "icq-2"}
    Answer <- MCLiveAnswer
    ConsumerWired = TRUE
    Extractor = "icq_async"
    QueryTimeout = 2
    One = 2
    ParamChoices <- MCLiveChoices
    GenesisParams <- MCGenesis
    OraclePrices = {0, 2}
    NoQuery = NoQuery
    Faults = {"close", "slow", "host"}
    MaxTime = 3
PROPERTY AnswerTaken
CHECK_DEADLOCK FALSE
