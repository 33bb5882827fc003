SPECIFICATION FairSpec
CONSTANTS
    One = 2
    Channel = {"channel-0"}
    Version = "pricefeed-1"
    Versions = {"pricefeed-1", "pricefeed-2"}
    Incoming <- MCIncoming
    Timeouts = {0, 1, 2}
    OraclePrices <- MCOraclePrices
    MaxSent = 2
    MaxIncoming = 2
    MaxTime = 2
INVARIANTS TypeOK PriceHasSource
PROPERTIES  ResponseTaken RequestSettled
CHECK_DEADLOCK FALSE
