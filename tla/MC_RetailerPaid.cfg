SPECIFICATION Spec
CONSTANTS
    u1 = u1
    u2 = u2
    w1 = w1
    User = {u1, u2}
    Wallet = {w1}
    NoAddr = NoAddr
    NoParams = NoParams
    Authority = Authority
    Prec = 20
    Micro = 10
    GenesisBal <- MCGenesisBal
    ParamChoices <- MCParamChoices
    GenesisParams <- MCGenesisParams
    Prices <- MCPrices
    Txs <- MCTxs
PROPERTY RetailerPaid
CHECK_DEADLOCK FALSE
