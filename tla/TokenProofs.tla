---------------------------- MODULE TokenProofs ----------------------------
(***************************************************************************)
(* Proofs about Token for every set of users, symbols and params and every  *)
(* number of tokens: the indexes are exact and the supply of fixed-supply   *)
(* tokens is bounded.                                                       *)
(***************************************************************************)
EXTENDS Token, FiniteSetTheorems, TLAPS

\* The sequence number is the last ID in use: this is why a creation never meets a
\* metadata key that is set, which the code does not check.
SequenceExact == \A i \in TokenId : metadata[i] # NoToken <=> i <= sequence

IndInv ==
    /\ TypeOK
    /\ SequenceExact
    /\ SymbolIndexExact
    /\ CreatorIndexExact
    /\ FixedSupply

-----------------------------------------------------------------------------
(* What a creation writes.                                                  *)

\* The effect of a creation on the stores, with the new ID named.
LEMMA CreateTokenEffect ==
    ASSUME TypeOK, SequenceExact,
           NEW creator \in User, NEW symbol \in Spelling,
           NEW initial \in 0 .. SupplyBound, NEW max \in 0 .. SupplyBound,
           NEW mintable \in BOOLEAN,
           CreateToken(creator, symbol, initial, max, mintable)
    PROVE  LET id == sequence + 1
               meta == [symbol |-> symbol, max |-> max, current |-> initial,
                        mintable |-> mintable, creator |-> creator]
               s == Lower[symbol]
           IN  /\ id \in TokenId /\ metadata[id] = NoToken
               /\ meta \in Metadata /\ meta # NoToken /\ s \in Symbol
               /\ sequence' = id
               /\ metadata' = [metadata EXCEPT ![id] = meta]
               /\ symbolIndex[s] = 0
               /\ symbolIndex' = [symbolIndex EXCEPT ![s] = id]
               /\ creatorIndex' = creatorIndex \cup {<<creator, id>>}
               /\ creatorCount[creator] < params.max
               /\ creatorCount' = [creatorCount EXCEPT ![creator] = @ + 1]
               /\ supply' = [supply EXCEPT ![s] = @ + initial]
               /\ bal' = [bal EXCEPT ![creator][s] = @ + initial]
               /\ initial \in Nat /\ max \in Nat /\ initial <= max
               /\ params' = params /\ carried' = carried
<1> DEFINE id == sequence + 1
           meta == [symbol |-> symbol, max |-> max, current |-> initial,
                    mintable |-> mintable, creator |-> creator]
<1>1. sequence \in Nat /\ id <= MaxSequence /\ MaxSequence \in Nat
  BY TokenAssumption DEF TypeOK, CreateToken, NextTokenSequence
<1>2. id \in TokenId /\ ~(id <= sequence)
  BY <1>1 DEF TokenId
<1>3. metadata[id] = NoToken
  BY <1>2 DEF SequenceExact
<1>4. initial \in Nat /\ max \in Nat /\ initial <= max
  BY TokenAssumption DEF CreateToken, ValidateBasic
<1>5. meta \in Metadata /\ meta # NoToken
  BY <1>4, TokenAssumption DEF Metadata
<1>6. Lower[symbol] \in Symbol
  BY TokenAssumption
<1>7. /\ sequence' = id
      /\ metadata' = [metadata EXCEPT ![id] = meta]
      /\ symbolIndex' = [symbolIndex EXCEPT ![Lower[symbol]] = id]
      /\ creatorIndex' = creatorIndex \cup {<<creator, id>>}
      /\ creatorCount' = [creatorCount EXCEPT ![creator] = @ + 1]
  BY DEF CreateToken, StoreTokenMetadata, NextTokenSequence, NextCount
<1>8. /\ symbolIndex[Lower[symbol]] = 0 /\ creatorCount[creator] < params.max
      /\ supply' = [supply EXCEPT ![Lower[symbol]] = @ + initial]
      /\ bal' = [bal EXCEPT ![creator][Lower[symbol]] = @ + initial]
      /\ params' = params /\ carried' = carried
  BY DEF CreateToken, SymbolUnique, WithinCreatorLimit, BankMint
<1>9. QED
  BY <1>2, <1>3, <1>4, <1>5, <1>6, <1>7, <1>8

\* The token IDs of a creator form a finite set.
LEMMA TokensOfFinite == \A u : IsFiniteSet(TokensOf(u))
<1>1. IsFiniteSet(TokenId)
  BY FS_Interval, TokenAssumption DEF TokenId
<1>2. \A u : TokensOf(u) \subseteq TokenId
  BY DEF TokensOf, Created
<1>3. QED
  BY <1>1, <1>2, FS_Subset

-----------------------------------------------------------------------------
(* The steps.                                                               *)

\* Creating a token keeps the invariant.
LEMMA CreateTokenKeeps ==
    ASSUME IndInv,
           NEW creator \in User, NEW symbol \in Spelling,
           NEW initial \in 0 .. SupplyBound, NEW max \in 0 .. SupplyBound,
           NEW mintable \in BOOLEAN,
           CreateToken(creator, symbol, initial, max, mintable)
    PROVE  IndInv'
<1> DEFINE meta == [symbol |-> symbol, max |-> max, current |-> initial,
                    mintable |-> mintable, creator |-> creator]
           s == Lower[symbol]
           sym(i) == Lower[metadata'[i].symbol]
<1>0. TypeOK /\ SequenceExact /\ SymbolIndexExact /\ CreatorIndexExact /\ FixedSupply
  BY DEF IndInv
<1>1. PICK id \in TokenId :
      /\ id = sequence + 1 /\ metadata[id] = NoToken
      /\ meta \in Metadata /\ meta # NoToken /\ s \in Symbol
      /\ sequence' = id
      /\ metadata' = [metadata EXCEPT ![id] = meta]
      /\ symbolIndex[s] = 0
      /\ symbolIndex' = [symbolIndex EXCEPT ![s] = id]
      /\ creatorIndex' = creatorIndex \cup {<<creator, id>>}
      /\ creatorCount' = [creatorCount EXCEPT ![creator] = @ + 1]
      /\ supply' = [supply EXCEPT ![s] = @ + initial]
      /\ bal' = [bal EXCEPT ![creator][s] = @ + initial]
      /\ initial \in Nat /\ max \in Nat /\ initial <= max
      /\ params' = params /\ carried' = carried
  BY <1>0, CreateTokenEffect
<1>2. /\ meta.symbol = symbol /\ meta.max = max /\ meta.mintable = mintable
      /\ meta.creator = creator
  OBVIOUS
<1> HIDE DEF meta
<1>3. /\ metadata'[id] = meta
      /\ \A i \in TokenId : i # id => metadata'[i] = metadata[i]
      /\ Created' = Created \cup {id} /\ id \notin Created
  BY <1>0, <1>1 DEF TypeOK, Created
<1>4. \A i \in Created : i \in TokenId /\ i # id /\ sym(i) = SymbolOf(i)
  BY <1>3 DEF Created, SymbolOf
<1>5. sym(id) = s
  BY <1>2, <1>3
<1> HIDE DEF sym
<1>6. TypeOK'
  <2>1. metadata' \in [TokenId -> Metadata \cup {NoToken}]
    BY <1>0, <1>1 DEF TypeOK
  <2>2. symbolIndex' \in [Symbol -> TokenId \cup {0}]
    BY <1>0, <1>1 DEF TypeOK
  <2>3. creatorIndex' \subseteq User \X TokenId
    BY <1>0, <1>1 DEF TypeOK
  <2>4. creatorCount' \in [User -> Nat]
    BY <1>0, <1>1 DEF TypeOK
  <2>5. sequence' \in 0 .. MaxSequence
    BY <1>1, TokenAssumption DEF TokenId
  <2>6. supply' \in [Symbol -> Nat]
    BY <1>0, <1>1 DEF TypeOK
  <2>7. bal' \in [Account -> [Symbol -> Nat]]
    BY <1>0, <1>1 DEF TypeOK, Account
  <2>8. QED
    BY <1>0, <1>1, <2>1, <2>2, <2>3, <2>4, <2>5, <2>6, <2>7 DEF TypeOK
<1>7. SequenceExact'
  <2>1. sequence \in Nat
    BY <1>0 DEF TypeOK
  <2>2. \A i \in TokenId : i \in Nat
    BY DEF TokenId
  <2>3. QED
    BY <1>0, <1>1, <1>3, <2>1, <2>2 DEF SequenceExact
<1>8. SymbolIndexExact'
  <2>1. \A t \in Symbol : symbolIndex'[t] = IF t = s THEN id ELSE symbolIndex[t]
    BY <1>0, <1>1 DEF TypeOK
  <2>2. \A i \in Created : SymbolOf(i) \in Symbol /\ SymbolOf(i) # s
    <3>1. \A i \in Created : metadata[i] \in Metadata /\ i # 0
      BY <1>0 DEF TypeOK, Created, TokenId
    <3>2. \A i \in Created : SymbolOf(i) \in Symbol
      BY <3>1, TokenAssumption DEF SymbolOf, Metadata
    <3>3. QED
      BY <1>0, <1>1, <3>1, <3>2 DEF SymbolIndexExact
  <2>3. \A t \in Symbol : symbolIndex'[t] # 0 =>
           symbolIndex'[t] \in Created' /\ sym(symbolIndex'[t]) = t
    BY <1>0, <1>3, <1>4, <1>5, <2>1 DEF SymbolIndexExact
  <2>4. \A i \in Created' : symbolIndex'[sym(i)] = i
    BY <1>0, <1>1, <1>3, <1>4, <1>5, <2>1, <2>2 DEF SymbolIndexExact
  <2>5. QED
    BY <2>3, <2>4 DEF SymbolIndexExact, SymbolOf, sym
<1>9. CreatorIndexExact'
  <2>1. \A u \in User : u # creator => TokensOf(u)' = TokensOf(u)
    BY <1>2, <1>3, <1>4 DEF TokensOf
  <2>2. TokensOf(creator)' = TokensOf(creator) \cup {id} /\ id \notin TokensOf(creator)
    BY <1>2, <1>3, <1>4 DEF TokensOf
  <2>3. \A u \in User, i \in TokenId : <<u, i>> \in creatorIndex' <=> i \in TokensOf(u)'
    <3>1. SUFFICES ASSUME NEW u \in User, NEW i \in TokenId
                   PROVE  <<u, i>> \in creatorIndex' <=> i \in TokensOf(u)'
      OBVIOUS
    <3>2. <<u, i>> \in creatorIndex <=> i \in TokensOf(u)
      BY <1>0 DEF CreatorIndexExact
    <3>3. <<u, i>> \in creatorIndex' <=> <<u, i>> \in creatorIndex \/ (u = creator /\ i = id)
      BY <1>1
    <3>4. QED
      BY <2>1, <2>2, <3>2, <3>3
  <2>4. Cardinality(TokensOf(creator)') = Cardinality(TokensOf(creator)) + 1
    BY <2>2, TokensOfFinite, FS_AddElement
  <2>5. \A u \in User : creatorCount'[u] = Cardinality(TokensOf(u)')
    BY <1>0, <1>1, <2>1, <2>4 DEF CreatorIndexExact, TypeOK
  <2>6. QED
    BY <2>3, <2>5 DEF CreatorIndexExact
<1>10. FixedSupply'
  <2>1. supply[s] \in Nat /\ carried[s] \in Nat /\ supply[s] <= carried[s]
    BY <1>0, <1>1 DEF TypeOK, FixedSupply
  <2>2. \A t \in Symbol : /\ supply'[t] = IF t = s THEN supply[s] + initial ELSE supply[t]
                          /\ symbolIndex'[t] = IF t = s THEN id ELSE symbolIndex[t]
    BY <1>0, <1>1 DEF TypeOK
  <2>3. \A t \in Symbol : symbolIndex'[t] = 0 => supply'[t] <= carried'[t]
    BY <1>0, <1>1, <2>2 DEF FixedSupply, TokenId
  <2>4. ASSUME NEW i \in Created', ~metadata'[i].mintable
        PROVE  supply'[sym(i)] <= metadata'[i].max + carried'[sym(i)]
    <3>1. CASE i = id
      <4>1. supply'[s] = supply[s] + initial /\ carried'[s] = carried[s]
        BY <1>1, <2>2
      <4>2. metadata'[i].max = max /\ sym(i) = s
        BY <1>2, <1>3, <1>5, <3>1
      <4>3. QED
        BY <1>1, <2>1, <4>1, <4>2
    <3>2. CASE i # id
      <4>1. i \in Created /\ metadata'[i] = metadata[i] /\ sym(i) = SymbolOf(i)
        BY <1>3, <1>4, <3>2
      <4>2. SymbolOf(i) \in Symbol /\ SymbolOf(i) # s
        <5>1. metadata[i] \in Metadata /\ i # 0
          <6>1. i \in TokenId /\ metadata[i] # NoToken
            BY <4>1 DEF Created
          <6>2. QED
            BY <1>0, <6>1 DEF TypeOK, TokenId
        <5>2. SymbolOf(i) \in Symbol
          BY <5>1, TokenAssumption DEF SymbolOf, Metadata
        <5>3. QED
          BY <1>0, <1>1, <4>1, <5>1, <5>2 DEF SymbolIndexExact
      <4>3. QED
        BY <1>0, <1>1, <2>2, <2>4, <4>1, <4>2 DEF FixedSupply
    <3>3. QED
      BY <3>1, <3>2
  <2>5. QED
    BY <2>3, <2>4 DEF FixedSupply, SymbolOf, sym
<1>11. QED
  BY <1>6, <1>7, <1>8, <1>9, <1>10 DEF IndInv

\* Nothing but the balances and one denom's supply changes: the stores' part of the
\* invariant carries over, and the supply's does when it is not raised, or is raised for a
\* mintable token.
LEMMA SupplyChangeKeeps ==
    ASSUME IndInv, NEW id \in TokenId, metadata[id] # NoToken,
           bal' \in [Account -> [Symbol -> Nat]], supply' \in [Symbol -> Nat],
           \A s \in Symbol : s # SymbolOf(id) => supply'[s] = supply[s],
           metadata[id].mintable \/ supply'[SymbolOf(id)] <= supply[SymbolOf(id)],
           UNCHANGED <<params, stores, carried>>
    PROVE  IndInv'
<1>0. TypeOK /\ SequenceExact /\ SymbolIndexExact /\ CreatorIndexExact /\ FixedSupply
  BY DEF IndInv
<1>1. /\ params' = params /\ metadata' = metadata /\ symbolIndex' = symbolIndex
      /\ creatorIndex' = creatorIndex /\ creatorCount' = creatorCount
      /\ sequence' = sequence /\ carried' = carried
  BY DEF stores
<1>2. TypeOK'
  BY <1>0, <1>1 DEF TypeOK
<1>3. SequenceExact' /\ SymbolIndexExact' /\ CreatorIndexExact'
  BY <1>0, <1>1 DEF SequenceExact, SymbolIndexExact, CreatorIndexExact, Created, SymbolOf,
                    TokensOf
<1>4. FixedSupply'
  <2>1. id \in Created /\ symbolIndex[SymbolOf(id)] = id /\ id # 0
    BY <1>0 DEF SymbolIndexExact, Created, TokenId
  <2>2. \A i \in Created : SymbolOf(i) \in Symbol /\ metadata[i].max \in Nat
    <3>1. \A i \in Created : metadata[i] \in Metadata
      BY <1>0 DEF TypeOK, Created
    <3>2. QED
      BY <3>1, TokenAssumption DEF SymbolOf, Metadata
  <2>3. \A s \in Symbol : supply[s] \in Nat /\ carried[s] \in Nat /\ supply'[s] \in Nat
    BY <1>0 DEF TypeOK
  <2>4. \A s \in Symbol : symbolIndex[s] = 0 => supply'[s] <= carried[s]
    BY <1>0, <2>1 DEF FixedSupply
  <2>5. ASSUME NEW i \in Created, ~metadata[i].mintable
        PROVE  supply'[SymbolOf(i)] <= metadata[i].max + carried[SymbolOf(i)]
    <3>1. supply[SymbolOf(i)] <= metadata[i].max + carried[SymbolOf(i)]
      BY <1>0, <2>5 DEF FixedSupply
    <3>2. CASE i = id
      BY <2>1, <2>2, <2>3, <2>5, <3>1, <3>2
    <3>3. CASE i # id
      <4>1. SymbolOf(i) # SymbolOf(id)
        BY <1>0, <2>1, <3>3 DEF SymbolIndexExact
      <4>2. QED
        BY <2>2, <3>1, <4>1
    <3>4. QED
      BY <3>2, <3>3
  <2>6. QED
    BY <1>1, <2>4, <2>5 DEF FixedSupply, Created, SymbolOf
<1>5. QED
  BY <1>2, <1>3, <1>4 DEF IndInv

\* Every step keeps the invariant.
LEMMA NextKeeps ==
    ASSUME IndInv, [Next]_vars
    PROVE  IndInv'
<1>0. TypeOK /\ SequenceExact /\ SymbolIndexExact /\ CreatorIndexExact /\ FixedSupply
  BY DEF IndInv
<1>1. ASSUME NEW creator \in User, NEW symbol \in Spelling,
             NEW initial \in 0 .. SupplyBound, NEW max \in 0 .. SupplyBound,
             NEW mintable \in BOOLEAN,
             CreateToken(creator, symbol, initial, max, mintable)
      PROVE  IndInv'
  BY <1>1, CreateTokenKeeps
<1>2. ASSUME NEW id \in TokenId, metadata[id] # NoToken
      PROVE  SymbolOf(id) \in Symbol
  <2>1. metadata[id] \in Metadata
    BY <1>0, <1>2 DEF TypeOK
  <2>2. QED
    BY <2>1, TokenAssumption DEF SymbolOf, Metadata
<1>3. ASSUME NEW id \in TokenId, NEW to \in Account, NEW amount \in 1 .. SupplyBound,
             Mint(id, to, amount)
      PROVE  IndInv'
  <2>1. /\ metadata[id] # NoToken /\ metadata[id].mintable
        /\ supply' = [supply EXCEPT ![SymbolOf(id)] = @ + amount]
        /\ bal' = [bal EXCEPT ![to][SymbolOf(id)] = @ + amount]
        /\ UNCHANGED <<params, stores, carried>>
    BY <1>3 DEF Mint, MayMint, BankMint, SymbolOf
  <2>2. SymbolOf(id) \in Symbol /\ amount \in Nat
    BY <1>2, <2>1, TokenAssumption
  <2>3. supply' \in [Symbol -> Nat] /\ bal' \in [Account -> [Symbol -> Nat]]
    BY <1>0, <2>1, <2>2 DEF TypeOK
  <2>4. \A s \in Symbol : s # SymbolOf(id) => supply'[s] = supply[s]
    BY <1>0, <2>1 DEF TypeOK
  <2>5. QED
    BY <2>1, <2>3, <2>4, SupplyChangeKeeps
<1>4. ASSUME NEW from \in User, NEW id \in TokenId, NEW amount \in 1 .. SupplyBound,
             Burn(from, id, amount)
      PROVE  IndInv'
  <2>1. /\ metadata[id] # NoToken
        /\ amount <= bal[from][SymbolOf(id)] /\ amount <= supply[SymbolOf(id)]
        /\ supply' = [supply EXCEPT ![SymbolOf(id)] = @ - amount]
        /\ bal' = [bal EXCEPT ![from][SymbolOf(id)] = @ - amount]
        /\ UNCHANGED <<params, stores, carried>>
    BY <1>4 DEF Burn, BankBurn, SymbolOf
  <2>2. SymbolOf(id) \in Symbol /\ amount \in Nat /\ from \in Account
    BY <1>2, <2>1, TokenAssumption DEF Account
  <2>3. supply' \in [Symbol -> Nat] /\ supply'[SymbolOf(id)] <= supply[SymbolOf(id)]
    BY <1>0, <2>1, <2>2 DEF TypeOK
  <2>4. bal' \in [Account -> [Symbol -> Nat]]
    BY <1>0, <2>1, <2>2 DEF TypeOK
  <2>5. \A s \in Symbol : s # SymbolOf(id) => supply'[s] = supply[s]
    BY <1>0, <2>1 DEF TypeOK
  <2>6. QED
    BY <2>1, <2>3, <2>4, <2>5, SupplyChangeKeeps
<1>5. ASSUME NEW signer, NEW p \in ParamChoices, UpdateParams(signer, p)
      PROVE  IndInv'
  <2>1. /\ params' \in ParamType /\ UNCHANGED <<stores, bal, supply, carried>>
    BY <1>5, TokenAssumption DEF UpdateParams
  <2>2. QED
    BY <1>0, <2>1 DEF IndInv, TypeOK, SequenceExact, SymbolIndexExact, CreatorIndexExact,
                      FixedSupply, Created, SymbolOf, TokensOf, stores
<1>6. CASE ExportImport
  <2>1. Created' = {} /\ \A u : TokensOf(u)' = {}
    BY <1>6 DEF ExportImport, Created, TokensOf
  <2>2. TypeOK'
    BY <1>0, <1>6, TokenAssumption DEF TypeOK, ExportImport
  <2>3. SequenceExact'
    BY <1>6 DEF ExportImport, SequenceExact, TokenId
  <2>4. SymbolIndexExact'
    BY <1>6, <2>1 DEF ExportImport, SymbolIndexExact
  <2>5. CreatorIndexExact'
    BY <1>6, <2>1, FS_EmptySet DEF ExportImport, CreatorIndexExact
  <2>6. FixedSupply'
    BY <1>0, <1>6, <2>1 DEF ExportImport, FixedSupply, TypeOK
  <2>7. QED
    BY <2>2, <2>3, <2>4, <2>5, <2>6 DEF IndInv
<1>7. CASE UNCHANGED vars
  BY <1>0, <1>7 DEF IndInv, TypeOK, SequenceExact, SymbolIndexExact, CreatorIndexExact,
                    FixedSupply, Created, SymbolOf, TokensOf, vars, stores
<1>8. QED
  BY <1>1, <1>3, <1>4, <1>5, <1>6, <1>7 DEF Next

LEMMA InitKeeps == Init => IndInv
<1>1. SUFFICES ASSUME Init PROVE IndInv
  OBVIOUS
<1>2. Created = {} /\ \A u : TokensOf(u) = {}
  BY <1>1 DEF Init, Created, TokensOf
<1>3. TypeOK
  BY <1>1, TokenAssumption DEF Init, TypeOK
<1>4. SequenceExact /\ SymbolIndexExact
  BY <1>1, <1>2 DEF Init, SequenceExact, SymbolIndexExact, TokenId
<1>5. CreatorIndexExact
  BY <1>1, <1>2, FS_EmptySet DEF Init, CreatorIndexExact
<1>6. FixedSupply
  BY <1>1, <1>2, TokenAssumption DEF Init, FixedSupply
<1>7. QED
  BY <1>3, <1>4, <1>5, <1>6 DEF IndInv

-----------------------------------------------------------------------------
(* Theorems.                                                                *)

\* The inductive invariant holds in every state.
THEOREM Invariant == Spec => []IndInv
<1>1. Init => IndInv
  BY InitKeeps
<1>2. IndInv /\ [Next]_vars => IndInv'
  BY NextKeeps
<1>3. QED
  BY <1>1, <1>2, PTL DEF Spec

\* Types: in particular sequence numbers, counters, balances and supplies stay natural.
THEOREM TokenTypeCorrect == Spec => []TypeOK
<1>1. IndInv => TypeOK
  BY DEF IndInv
<1>2. QED
  BY <1>1, Invariant, PTL

\* For every set of creators and spellings, the symbol index and the metadata agree in
\* both directions after any sequence of creations, mints, burns, params changes and
\* genesis imports.
THEOREM SymbolIndexAlwaysExact == Spec => []SymbolIndexExact
<1>1. IndInv => SymbolIndexExact
  BY DEF IndInv
<1>2. QED
  BY <1>1, Invariant, PTL

\* The creator index and the creator counter are exact.
THEOREM CreatorIndexAlwaysExact == Spec => []CreatorIndexExact
<1>1. IndInv => CreatorIndexExact
  BY DEF IndInv
<1>2. QED
  BY <1>1, Invariant, PTL

\* Denoms without a token and fixed-supply tokens keep within their bound.
THEOREM FixedSupplyAlways == Spec => []FixedSupply
<1>1. IndInv => FixedSupply
  BY DEF IndInv
<1>2. QED
  BY <1>1, Invariant, PTL

\* No creation, by whomever and in whatever order, writes over the metadata of a token.
THEOREM MetadataAlwaysKept == Spec => MetadataKept
<1> DEFINE A == \/ \A i \in Created : metadata'[i] = metadata[i]
                \/ Created' = {}
<1>1. ASSUME IndInv, [Next]_vars
      PROVE  A
  <2>1. ASSUME NEW creator \in User, NEW symbol \in Spelling,
               NEW initial \in 0 .. SupplyBound, NEW max \in 0 .. SupplyBound,
               NEW mintable \in BOOLEAN,
               CreateToken(creator, symbol, initial, max, mintable)
        PROVE  A
    <3> DEFINE id == sequence + 1
    <3>1. /\ id <= MaxSequence
          /\ \E meta : metadata' = [metadata EXCEPT ![id] = meta]
      BY <2>1 DEF CreateToken, StoreTokenMetadata, NextTokenSequence
    <3>2. sequence \in Nat /\ metadata \in [TokenId -> Metadata \cup {NoToken}]
      BY <1>1 DEF IndInv, TypeOK
    <3>3. id \in TokenId /\ ~(id <= sequence)
      BY <3>1, <3>2, TokenAssumption DEF TokenId
    <3>4. metadata[id] = NoToken
      BY <1>1, <3>3 DEF IndInv, SequenceExact
    <3>5. QED
      BY <3>1, <3>2, <3>4 DEF Created
  <2>2. CASE metadata' = metadata
    BY <2>2
  <2>3. CASE ExportImport
    BY <2>3 DEF ExportImport, Created
  <2>4. QED
    BY <1>1, <2>1, <2>2, <2>3 DEF Next, Mint, Burn, UpdateParams, stores, vars
<1>2. QED
  BY <1>1, Invariant, PTL DEF Spec, MetadataKept

\* The number of tokens whose metadata name a creator grows only within the limit.
THEOREM LimitAlwaysKept == Spec => LimitKept
<1> DEFINE A == \A u \in User : Cardinality(TokensOf(u)') > Cardinality(TokensOf(u))
                                  => Cardinality(TokensOf(u)') <= params.max
<1>1. ASSUME IndInv, [Next]_vars
      PROVE  A
  <2>1. /\ creatorCount \in [User -> Nat] /\ params.max \in Nat
        /\ \A u \in User : /\ Cardinality(TokensOf(u)) = creatorCount[u]
                           /\ Cardinality(TokensOf(u)') = creatorCount'[u]
    BY <1>1, NextKeeps DEF IndInv, TypeOK, ParamType, CreatorIndexExact
  <2>2. ASSUME NEW creator \in User, NEW symbol \in Spelling,
               NEW initial \in 0 .. SupplyBound, NEW max \in 0 .. SupplyBound,
               NEW mintable \in BOOLEAN,
               CreateToken(creator, symbol, initial, max, mintable)
        PROVE  A
    <3>1. /\ creatorCount' = [creatorCount EXCEPT ![creator] = @ + 1]
          /\ creatorCount[creator] < params.max
      BY <2>2 DEF CreateToken, StoreTokenMetadata, NextCount, WithinCreatorLimit
    <3>2. QED
      BY <2>1, <3>1
  <2>3. CASE creatorCount' = creatorCount
    BY <2>1, <2>3
  <2>4. CASE ExportImport
    BY <2>1, <2>4 DEF ExportImport
  <2>5. QED
    BY <1>1, <2>2, <2>3, <2>4 DEF Next, Mint, Burn, UpdateParams, stores, vars
<1>2. QED
  BY <1>1, Invariant, PTL DEF Spec, LimitKept

-----------------------------------------------------------------------------
(* The stores implement the register.                                       *)

\* The entry of a token in the register.
EntryOf(i) ==
    [id |-> i, symbol |-> SymbolOf(i), creator |-> metadata[i].creator,
     max |-> metadata[i].max, mintable |-> metadata[i].mintable]

Entries == {EntryOf(i) : i \in Created}

\* A creator has no more entries than the counter says.
LEMMA EntriesCounted ==
    ASSUME IndInv, NEW u \in User
    PROVE  /\ Cardinality({e \in Entries : e.creator = u}) \in Nat
           /\ Cardinality({e \in Entries : e.creator = u}) <= creatorCount[u]
<1> DEFINE S == TokensOf(u)
           T == {e \in Entries : e.creator = u}
           f == [i \in S |-> EntryOf(i)]
<1>1. IsFiniteSet(S) /\ Cardinality(S) = creatorCount[u]
  BY TokensOfFinite DEF IndInv, CreatorIndexExact
<1>2. \A i \in S : EntryOf(i) \in T
  BY DEF TokensOf, Entries, EntryOf
<1>3. \A e \in T : \E i \in S : EntryOf(i) = e
  BY DEF TokensOf, Entries, EntryOf
<1> HIDE DEF S, T
<1>4. f \in Surjection(S, T)
  BY <1>2, <1>3 DEF Surjection
<1>5. IsFiniteSet(T) /\ Cardinality(T) <= Cardinality(S)
  BY <1>1, <1>4, FS_Surjection
<1>6. Cardinality(T) \in Nat
  BY <1>5, FS_CardinalityType
<1>7. QED
  BY <1>1, <1>5, <1>6 DEF T

\* The register counts as FiniteSets does.
LEMMA SameCardinality == \A S : Registry!Cardinality(S) = Cardinality(S)
BY Zenon DEF Registry!Cardinality, Cardinality

\* A token keeps its entry while its metadata stay.
LEMMA EntriesKept ==
    ASSUME metadata' = metadata
    PROVE  Entries' = Entries
BY DEF Entries, EntryOf, Created, SymbolOf

\* A creation enters the new token.
LEMMA CreateTokenEnters ==
    ASSUME IndInv,
           NEW creator \in User, NEW symbol \in Spelling,
           NEW initial \in 0 .. SupplyBound, NEW max \in 0 .. SupplyBound,
           NEW mintable \in BOOLEAN,
           CreateToken(creator, symbol, initial, max, mintable)
    PROVE  /\ initial \in 1 .. SupplyBound
           /\ \E t \in Entries' \ Entries :
                 /\ t \in Registry!Entry
                 /\ \A o \in Entries : o.id # t.id /\ o.symbol # t.symbol
                 /\ Cardinality({o \in Entries : o.creator = t.creator}) < params.max
                 /\ initial <= t.max /\ (t.mintable \/ initial = t.max)
                 /\ Entries' = Entries \cup {t}
                 /\ supply' = [supply EXCEPT ![t.symbol] = @ + initial]
                 /\ params' = params
<1> DEFINE meta == [symbol |-> symbol, max |-> max, current |-> initial,
                    mintable |-> mintable, creator |-> creator]
           s == Lower[symbol]
<1>0. TypeOK /\ SequenceExact /\ SymbolIndexExact
  BY DEF IndInv
<1>1. PICK id \in TokenId :
      /\ metadata[id] = NoToken
      /\ meta \in Metadata /\ meta # NoToken /\ s \in Symbol
      /\ metadata' = [metadata EXCEPT ![id] = meta]
      /\ symbolIndex[s] = 0
      /\ creatorCount[creator] < params.max
      /\ supply' = [supply EXCEPT ![s] = @ + initial]
      /\ initial \in Nat /\ max \in Nat /\ initial <= max
      /\ params' = params
  BY <1>0, CreateTokenEffect
<1>2. initial \in 1 .. SupplyBound /\ (mintable \/ initial = max)
  BY <1>1, TokenAssumption DEF CreateToken, ValidateBasic
<1> DEFINE t == [id |-> id, symbol |-> s, creator |-> creator, max |-> max,
                 mintable |-> mintable]
<1>3. /\ metadata'[id] = meta
      /\ \A i \in TokenId : i # id => metadata'[i] = metadata[i]
      /\ Created' = Created \cup {id} /\ id \notin Created
  BY <1>0, <1>1 DEF TypeOK, Created
<1>4. \A i \in Created : i # id /\ EntryOf(i)' = EntryOf(i)
  BY <1>3 DEF Created, EntryOf, SymbolOf
<1>5. [id |-> id, symbol |-> Lower[metadata'[id].symbol], creator |-> metadata'[id].creator,
       max |-> metadata'[id].max, mintable |-> metadata'[id].mintable] = t
  BY <1>3
<1>6. Entries' = Entries \cup {t}
  <2>1. Entries' = {[id |-> i, symbol |-> Lower[metadata'[i].symbol],
                     creator |-> metadata'[i].creator, max |-> metadata'[i].max,
                     mintable |-> metadata'[i].mintable] : i \in Created'}
    BY DEF Entries, EntryOf, SymbolOf
  <2>2. \A i \in Created :
           [id |-> i, symbol |-> Lower[metadata'[i].symbol],
            creator |-> metadata'[i].creator, max |-> metadata'[i].max,
            mintable |-> metadata'[i].mintable] = EntryOf(i)
    BY <1>3 DEF Created, EntryOf, SymbolOf
  <2>3. QED
    BY <1>3, <1>5, <2>1, <2>2 DEF Entries
<1>7. \A o \in Entries : o.id # id /\ o.symbol # s
  <2>1. ASSUME NEW i \in Created PROVE i # id /\ SymbolOf(i) # s
    <3>1. i # 0 /\ symbolIndex[SymbolOf(i)] = i
      BY <1>0 DEF Created, TokenId, SymbolIndexExact
    <3>2. QED
      BY <1>1, <1>3, <3>1
  <2>2. QED
    BY <2>1 DEF Entries, EntryOf
<1>8. t \in Registry!Entry
  BY <1>1 DEF Registry!Entry, TokenId
<1>9. t.id = id /\ t.symbol = s /\ t.creator = creator /\ t.max = max /\ t.mintable = mintable
  OBVIOUS
<1> HIDE DEF t, meta, s
<1>10. t \in Entries' \ Entries
  BY <1>6, <1>7, <1>9
<1>11. Cardinality({o \in Entries : o.creator = t.creator}) < params.max
  <2>1. creatorCount[creator] \in Nat /\ params.max \in Nat
    BY <1>0 DEF TypeOK, ParamType
  <2>2. /\ Cardinality({o \in Entries : o.creator = creator}) \in Nat
        /\ Cardinality({o \in Entries : o.creator = creator}) <= creatorCount[creator]
    BY EntriesCounted
  <2>3. QED
    BY <1>1, <1>9, <2>1, <2>2
<1>12. QED
  BY <1>1, <1>2, <1>6, <1>7, <1>8, <1>9, <1>10, <1>11

\* The stores of x/token and the bank implement the register of tokens, for every number
\* of creators, symbols and tokens.
THEOREM StoresImplementRegistry == Spec => RegistrySpec
<1>1. Init => Registry!Init
  <2>1. SUFFICES ASSUME Init PROVE Registry!Init
    OBVIOUS
  <2>2. Created = {} /\ params.max \in Nat /\ supply \in [Symbol -> Nat]
    BY <2>1, TokenAssumption DEF Init, Created, ParamType
  <2>3. QED
    BY <2>2 DEF Registry!Init
<1>2. IndInv /\ [Next]_vars => [Registry!Next]_(Registry!register)
  <2>1. SUFFICES ASSUME IndInv, [Next]_vars PROVE [Registry!Next]_(Registry!register)
    OBVIOUS
  <2>2. TypeOK
    BY <2>1 DEF IndInv
  <2>3. Entries = {[id |-> i, symbol |-> SymbolOf(i), creator |-> metadata[i].creator,
                    max |-> metadata[i].max, mintable |-> metadata[i].mintable] : i \in Created}
    BY DEF Entries, EntryOf
  <2>4. Entries' = {[id |-> i, symbol |-> SymbolOf(i), creator |-> metadata[i].creator,
                     max |-> metadata[i].max, mintable |-> metadata[i].mintable] : i \in Created}'
    BY DEF Entries, EntryOf
  <2>5. ASSUME NEW creator \in User, NEW symbol \in Spelling,
               NEW initial \in 0 .. SupplyBound, NEW max \in 0 .. SupplyBound,
               NEW mintable \in BOOLEAN,
               CreateToken(creator, symbol, initial, max, mintable)
        PROVE  Registry!Next
    <3>1. PICK t \in Entries' \ Entries :
             /\ t \in Registry!Entry
             /\ \A o \in Entries : o.id # t.id /\ o.symbol # t.symbol
             /\ Cardinality({o \in Entries : o.creator = t.creator}) < params.max
             /\ initial <= t.max /\ (t.mintable \/ initial = t.max)
             /\ Entries' = Entries \cup {t}
             /\ supply' = [supply EXCEPT ![t.symbol] = @ + initial]
             /\ params' = params
      BY <2>1, <2>5, CreateTokenEnters
    <3>2. initial \in 1 .. SupplyBound
      BY <2>1, <2>5, CreateTokenEnters
    <3>3. Registry!Enter(t, initial)
      BY <2>3, <2>4, <3>1, SameCardinality DEF Registry!Enter
    <3>4. QED
      BY <2>3, <2>4, <3>1, <3>2, <3>3 DEF Registry!Next
  <2>6. ASSUME NEW id \in TokenId, NEW to \in Account, NEW amount \in 1 .. SupplyBound,
               Mint(id, to, amount)
        PROVE  Registry!Next
    <3>1. /\ metadata[id] # NoToken /\ metadata[id].mintable
          /\ supply' = [supply EXCEPT ![SymbolOf(id)] = @ + amount]
          /\ params' = params /\ metadata' = metadata
      BY <2>6 DEF Mint, MayMint, BankMint, SymbolOf, stores
    <3>2. EntryOf(id) \in Entries /\ EntryOf(id).mintable /\ EntryOf(id).symbol = SymbolOf(id)
      BY <3>1 DEF Entries, EntryOf, Created
    <3>3. Entries' = Entries
      BY <3>1, EntriesKept
    <3>4. QED
      BY <2>3, <2>4, <3>1, <3>2, <3>3 DEF Registry!Next, Registry!Issue
  <2>7. ASSUME NEW from \in User, NEW id \in TokenId, NEW amount \in 1 .. SupplyBound,
               Burn(from, id, amount)
        PROVE  Registry!Next
    <3>1. /\ metadata[id] # NoToken /\ amount <= supply[SymbolOf(id)]
          /\ supply' = [supply EXCEPT ![SymbolOf(id)] = @ - amount]
          /\ params' = params /\ metadata' = metadata
      BY <2>7 DEF Burn, BankBurn, SymbolOf, stores
    <3>2. EntryOf(id) \in Entries /\ EntryOf(id).symbol = SymbolOf(id)
      BY <3>1 DEF Entries, EntryOf, Created
    <3>3. Entries' = Entries
      BY <3>1, EntriesKept
    <3>4. QED
      BY <2>3, <2>4, <3>1, <3>2, <3>3 DEF Registry!Next, Registry!Redeem
  <2>8. ASSUME NEW signer, NEW p \in ParamChoices, UpdateParams(signer, p)
        PROVE  Registry!Next
    <3>1. /\ params'.max \in Nat \ {0} /\ metadata' = metadata /\ supply' = supply
      BY <2>8, TokenAssumption DEF UpdateParams, ParamType, stores
    <3>2. Entries' = Entries
      BY <3>1, EntriesKept
    <3>3. QED
      BY <2>3, <2>4, <3>1, <3>2 DEF Registry!Next, Registry!Limit
  <2>9. CASE ExportImport
    <3>1. Entries' = {} /\ params' = params /\ supply' = supply
      BY <2>9 DEF ExportImport, Entries, Created
    <3>2. QED
      BY <2>3, <2>4, <3>1 DEF Registry!Next, Registry!Restart
  <2>10. CASE UNCHANGED vars
    <3>1. metadata' = metadata /\ params' = params /\ supply' = supply
      BY <2>10 DEF vars, stores
    <3>2. Entries' = Entries
      BY <3>1, EntriesKept
    <3>3. QED
      BY <2>3, <2>4, <3>1, <3>2 DEF Registry!register
  <2>11. QED
    BY <2>1, <2>5, <2>6, <2>7, <2>8, <2>9, <2>10 DEF Next
<1>3. QED
  BY <1>1, <1>2, Invariant, PTL DEF Spec, RegistrySpec, Registry!Spec
=============================================================================
