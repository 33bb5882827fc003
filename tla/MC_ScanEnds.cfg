SPECIFICATION QFairSpec
CONSTANTS
    User = {u1, u2}
    Blocked = {m}
    Spelling <- MCSpelling
    Symbol <- MCSymbol
    Lower <- MCLower
    ValidDenom <- MCSymbol
    Authority = Authority
    GenesisParams <- MCGenesis
    ParamChoices = {}
    GenesisSupply <- MCSupply
    NoToken = NoToken
    MaxSequence = 2
    SupplyBound = 1
    Base = 4
    Width = 1
    Limits = {0, 1}
    AllCreators = AllCreators
    NotFound = NotFound
PROPERTY ScanEnds
