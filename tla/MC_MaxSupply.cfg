SPECIFICATION Spec
CONSTANTS
    User = {u1, u2}
    Blocked = {m}
    Spelling <- MCSpelling
    Symbol <- MCSymbol
    Lower <- MCLower
    ValidDenom <- MCValid
    Authority = Authority
    GenesisParams <- MCGenesis
    ParamChoices <- MCChoices
    GenesisSupply <- MCSupply
    NoToken = NoToken
    MaxSequence = 2
    SupplyBound = 3
INVARIANT WithinMaxSupply
