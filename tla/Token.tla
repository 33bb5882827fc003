------------------------------- MODULE Token -------------------------------
(***************************************************************************)
(* x/token: creation of tokens with their metadata record, symbol index,    *)
(* creator index, creator counter and sequence, minting and burning through *)
(* the bank module, params, and the export and import of genesis.           *)
(*                                                                          *)
(* A token ID "token_%03d" is its sequence number.  A symbol is compared    *)
(* and turned into the denom "u..." in lower case, so Lower maps the        *)
(* spellings users submit to the symbols the stores and the bank know.      *)
(* Each message is one transaction: what is refused changes nothing.        *)
(***************************************************************************)
EXTENDS Integers, FiniteSets

CONSTANTS
    User,           \* accounts that sign messages
    Blocked,        \* addresses the bank refuses as recipients of module coins
    Spelling,       \* symbols as users write them
    Symbol,         \* symbols in lower case
    Lower,          \* strings.ToLower
    ValidDenom,     \* the symbols whose denom sdk.NewCoin accepts
    Authority,      \* the gov module address
    GenesisParams,
    ParamChoices,   \* params that may be proposed
    GenesisSupply,  \* bank supply at genesis, the native coin's included
    NoToken,        \* a metadata key that is not set
    MaxSequence,    \* bound: tokens ever created between two genesis imports
    SupplyBound     \* bound: supply of a denom

ParamType == [max : Nat, reserved : SUBSET Spelling]
Account   == User \cup Blocked
TokenId   == 1 .. MaxSequence

Metadata ==
    [symbol : Spelling, max : Nat, current : Nat, mintable : BOOLEAN, creator : User]

ASSUME TokenAssumption ==
    /\ Lower \in [Spelling -> Symbol]
    /\ GenesisParams \in ParamType /\ ParamChoices \subseteq ParamType
    /\ GenesisSupply \in [Symbol -> Nat]
    /\ NoToken \notin Metadata
    /\ MaxSequence \in Nat /\ SupplyBound \in Nat

VARIABLES
    params,
    metadata,      \* tm_: token ID to metadata
    symbolIndex,   \* si_: lower-case symbol to token ID, 0 when not set
    creatorIndex,  \* ci_: pairs of a creator and a token ID
    creatorCount,  \* cc_: tokens of a creator
    sequence,      \* ts: the last token ID
    bal, supply,   \* the bank's balances and supply per denom
    carried        \* history: supply when this chain's genesis was imported

stores == <<metadata, symbolIndex, creatorIndex, creatorCount, sequence>>
vars == <<params, stores, bal, supply, carried>>

-----------------------------------------------------------------------------
(* The bank (external).                                                     *)

\* MintCoins to the module account, then SendCoinsFromModuleToAccount.
BankMint(to, sym, amount) ==
    /\ sym \in ValidDenom
    /\ to \notin Blocked
    /\ supply[sym] + amount <= SupplyBound
    /\ supply' = [supply EXCEPT ![sym] = @ + amount]
    /\ bal' = [bal EXCEPT ![to][sym] = @ + amount]

\* SendCoinsFromAccountToModule, then BurnCoins.
BankBurn(from, sym, amount) ==
    /\ amount <= bal[from][sym] /\ amount <= supply[sym]
    /\ supply' = [supply EXCEPT ![sym] = @ - amount]
    /\ bal' = [bal EXCEPT ![from][sym] = @ - amount]

-----------------------------------------------------------------------------
(* Creating a token (msg_server_create_token.go).                           *)

ValidateBasic(initial, max, mintable) ==
    /\ initial > 0 /\ max > 0
    /\ initial <= max
    /\ ~mintable => initial = max

ReservedSymbol(sym) == \E r \in params.reserved : sym = Lower[r]

\* Mutation: the index is asked for the symbol as it was typed.
SymbolUniqueAsTyped(symbol) ==
    \A i \in TokenId : metadata[i] # NoToken => metadata[i].symbol # symbol

SymbolUnique(symbol) == symbolIndex[Lower[symbol]] = 0

WithinCreatorLimit(creator) == creatorCount[creator] < params.max

\* Mutation: the counter is written back as it was read.
NextCountStale(creator) == creatorCount[creator]

NextCount(creator) == creatorCount[creator] + 1

\* Mutation: the sequence is the number of tokens of the creator.
NextTokenSequencePerCreator(creator) == creatorCount[creator] + 1

NextTokenSequence(creator) == sequence + 1

\* storeTokenMetadata with generateTokenID: the record and the three indexes.
StoreTokenMetadata(id, creator, meta) ==
    /\ sequence' = id
    /\ metadata' = [metadata EXCEPT ![id] = meta]
    /\ symbolIndex' = [symbolIndex EXCEPT ![Lower[meta.symbol]] = id]
    /\ creatorIndex' = creatorIndex \cup {<<creator, id>>}
    /\ creatorCount' = [creatorCount EXCEPT ![creator] = NextCount(creator)]

CreateToken(creator, symbol, initial, max, mintable) ==
    /\ ValidateBasic(initial, max, mintable)
    /\ ~ReservedSymbol(Lower[symbol])
    /\ SymbolUnique(symbol)
    /\ WithinCreatorLimit(creator)
    /\ NextTokenSequence(creator) <= MaxSequence
    /\ StoreTokenMetadata(NextTokenSequence(creator), creator,
                          [symbol |-> symbol, max |-> max, current |-> initial,
                           mintable |-> mintable, creator |-> creator])
    /\ BankMint(creator, Lower[symbol], initial)
    /\ UNCHANGED <<params, carried>>

-----------------------------------------------------------------------------
(* Minting and burning.                                                     *)

\* Mutation: a token is mintable whatever its metadata says.
MayMintAlways(meta) == TRUE

\* The only condition on a mint: neither the maximum supply nor the signer is looked at.
MayMint(meta) == meta.mintable

Mint(id, to, amount) ==
    /\ metadata[id] # NoToken
    /\ MayMint(metadata[id])
    /\ BankMint(to, Lower[metadata[id].symbol], amount)
    /\ UNCHANGED <<params, stores, carried>>

\* Mutation: the coins are burned without having been taken from the sender.
BurnUncovered(from, id, amount) ==
    /\ metadata[id] # NoToken
    /\ supply' = [supply EXCEPT ![Lower[metadata[id].symbol]] = @ - amount]
    /\ UNCHANGED <<params, stores, bal, carried>>

Burn(from, id, amount) ==
    /\ metadata[id] # NoToken
    /\ BankBurn(from, Lower[metadata[id].symbol], amount)
    /\ UNCHANGED <<params, stores, carried>>

-----------------------------------------------------------------------------
(* Params and genesis.                                                      *)

\* Zero params are accepted and ignored; other params need a limit.
UpdateParams(signer, p) ==
    /\ signer = Authority
    /\ p.max # 0
    /\ params' = p
    /\ UNCHANGED <<stores, bal, supply, carried>>

\* A chain started from its own exported genesis: the bank exports its balances,
\* x/token only its params.
ExportImport ==
    /\ metadata' = [i \in TokenId |-> NoToken]
    /\ symbolIndex' = [s \in Symbol |-> 0]
    /\ creatorIndex' = {}
    /\ creatorCount' = [u \in User |-> 0]
    /\ sequence' = 0
    /\ carried' = supply
    /\ UNCHANGED <<params, bal, supply>>

Init ==
    /\ params = GenesisParams
    /\ metadata = [i \in TokenId |-> NoToken]
    /\ symbolIndex = [s \in Symbol |-> 0]
    /\ creatorIndex = {}
    /\ creatorCount = [u \in User |-> 0]
    /\ sequence = 0
    /\ bal = [a \in Account |-> [s \in Symbol |-> 0]]
    /\ supply = GenesisSupply
    /\ carried = GenesisSupply

Next ==
    \/ \E creator \in User, symbol \in Spelling, initial, max \in 0 .. SupplyBound,
          mintable \in BOOLEAN : CreateToken(creator, symbol, initial, max, mintable)
    \/ \E id \in TokenId, to \in Account, amount \in 1 .. SupplyBound : Mint(id, to, amount)
    \/ \E from \in User, id \in TokenId, amount \in 1 .. SupplyBound : Burn(from, id, amount)
    \/ \E signer \in User \cup {Authority}, p \in ParamChoices : UpdateParams(signer, p)
    \/ ExportImport

Spec == Init /\ [][Next]_vars

-----------------------------------------------------------------------------
(* Properties.                                                              *)

\* Every store holds what its codec writes, and neither a balance nor the supply of a
\* denom falls below zero by a burn.
TypeOK ==
    /\ params \in ParamType
    /\ metadata \in [TokenId -> Metadata \cup {NoToken}]
    /\ symbolIndex \in [Symbol -> TokenId \cup {0}]
    /\ creatorIndex \subseteq User \X TokenId
    /\ creatorCount \in [User -> Nat]
    /\ sequence \in 0 .. MaxSequence
    /\ bal \in [Account -> [Symbol -> Nat]]
    /\ supply \in [Symbol -> Nat]
    /\ carried \in [Symbol -> Nat]

Created == {i \in TokenId : metadata[i] # NoToken}
SymbolOf(i) == Lower[metadata[i].symbol]
TokensOf(creator) == {i \in Created : metadata[i].creator = creator}

\* The symbol index and the metadata agree in both directions, so two spellings of a
\* symbol never lead to two tokens with one denom, and no token is without its entry.
SymbolIndexExact ==
    /\ \A s \in Symbol : symbolIndex[s] # 0 =>
          symbolIndex[s] \in Created /\ SymbolOf(symbolIndex[s]) = s
    /\ \A i \in Created : symbolIndex[SymbolOf(i)] = i

\* The creator index lists exactly the tokens whose metadata name the creator, and the
\* counter that enforces the limit is their number.
CreatorIndexExact ==
    /\ \A u \in User, i \in TokenId : <<u, i>> \in creatorIndex <=> i \in TokensOf(u)
    /\ \A u \in User : creatorCount[u] = Cardinality(TokensOf(u))

\* Coins of a denom come from its token: while no token owns it, its supply does not
\* exceed what genesis brought; a fixed-supply token never gets beyond its maximum above
\* that, whoever mints or burns.  This is about the messages of x/token: other modules of
\* the chain mint too (x/mint the native denom), through the bank and not through these.
FixedSupply ==
    /\ \A s \in Symbol : symbolIndex[s] = 0 => supply[s] <= carried[s]
    /\ \A i \in Created : ~metadata[i].mintable =>
          supply[SymbolOf(i)] <= metadata[i].max + carried[SymbolOf(i)]

\* The metadata of a token is written once: no later token takes over its ID, in any
\* order of creations by several creators (the store never asks whether the key is set).
\* Only a start from exported genesis drops tokens, and then all of them.
MetadataKept ==
    [][\/ \A i \in Created : metadata'[i] = metadata[i]
       \/ Created' = {}]_vars

\* A creator's tokens pass the limit in force only if it was lowered below them.
LimitKept ==
    [][\A u \in User : Cardinality(TokensOf(u)') > Cardinality(TokensOf(u))
                          => Cardinality(TokensOf(u)') <= params.max]_vars

Registry == INSTANCE TokenRegistry WITH
    Amount <- 1 .. SupplyBound,
    limit <- params.max,
    tokens <- {[id |-> i, symbol |-> SymbolOf(i), creator |-> metadata[i].creator,
                max |-> metadata[i].max, mintable |-> metadata[i].mintable] : i \in Created},
    coins <- supply

\* The five stores of x/token and the bank act as one register: what createToken decides
\* by the symbol index, the creator's counter and the sequence is what the tokens there
\* are would decide, and mints and burns reach the coins of their own token only.
RegistrySpec == Registry!Spec

-----------------------------------------------------------------------------
(* What documents and comments say of the code, and the code does not do.   *)

\* errors.go: "minting would exceed max supply" is an error: the supply minted for a
\* token stays within its maximum.
WithinMaxSupply ==
    \A i \in Created : supply[SymbolOf(i)] <= metadata[i].max + carried[SymbolOf(i)]
=============================================================================
