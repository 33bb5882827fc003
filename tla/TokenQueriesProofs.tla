------------------------- MODULE TokenQueriesProofs -------------------------
(***************************************************************************)
(* Proofs about the listings of x/token, for any number of tokens, any page *)
(* size and any format of the IDs.  That no token is missed uses nothing of  *)
(* the order of the keys, only that a token's position counts the keys      *)
(* before its own; that none is shown twice uses that the order is total    *)
(* and that a new ID within the width comes last.                           *)
(***************************************************************************)
EXTENDS KeyOrderProofs, TokenProofs

Shown(i) == \E e \in scan.seen : e[2] = i

\* What is kept while a listing is read: a token that was there at the start and has not
\* been shown lies at or behind the offset of the next page.
Ahead ==
    scan.status = "open" =>
        \A i \in scan.start :
            /\ i \in Listed(scan.of)
            /\ Shown(i) \/ Position(i, Listed(scan.of)) >= scan.offset

QInv ==
    /\ IndInv
    /\ ScanOK
    /\ scan.status # "failed"
    /\ Ahead
    /\ NoneMissed

-----------------------------------------------------------------------------
(* Lemmas on the operators.                                                 *)

\* A position only grows with the listing.
LEMMA PositionGrows ==
    ASSUME NEW S, NEW T, S \subseteq T, T \subseteq TokenId, NEW i
    PROVE  Position(i, S) \in Nat /\ Position(i, T) \in Nat /\ Position(i, S) <= Position(i, T)
<1> DEFINE A == {j \in S : Before(j, i)}
           B == {j \in T : Before(j, i)}
<1>1. IsFiniteSet(TokenId)
  BY FS_Interval, TokenAssumption DEF TokenId
<1>2. A \subseteq B /\ B \subseteq TokenId
  OBVIOUS
<1>3. Position(i, S) = Cardinality(A) /\ Position(i, T) = Cardinality(B)
  BY DEF Position
<1> HIDE DEF A, B
<1>4. IsFiniteSet(B) /\ IsFiniteSet(A) /\ Cardinality(A) <= Cardinality(B)
  BY <1>1, <1>2, FS_Subset
<1>5. Cardinality(A) \in Nat /\ Cardinality(B) \in Nat
  BY <1>4, FS_CardinalityType
<1>6. QED
  BY <1>3, <1>4, <1>5

\* A page shows what lies from its offset on, but for what a further page is announced
\* for, which lies behind the next offset.
LEMMA PageShows ==
    ASSUME NEW S, S \subseteq TokenId, NEW offset \in Nat, NEW limit \in Nat, NEW i \in S,
           Position(i, S) >= offset
    PROVE  \/ i \in Page(S, offset, limit)
           \/ More(S, offset, limit) /\ Position(i, S) >= offset + limit
<1>1. Position(i, S) \in Nat
  BY PositionGrows
<1>2. CASE limit > 0 /\ Position(i, S) >= offset + limit
  BY <1>2 DEF More
<1>3. CASE ~(limit > 0 /\ Position(i, S) >= offset + limit)
  BY <1>1, <1>3 DEF Page
<1>4. QED
  BY <1>2, <1>3

\* A listing has the tokens whose metadata name the creator, and all of them can be
\* looked up.
LEMMA ListedExact ==
    ASSUME IndInv
    PROVE  /\ Listed(AllCreators) = Created
           /\ \A u \in User : Listed(u) = {i \in Created : metadata[i].creator = u}
           /\ \A i \in Created : TokenById(i) = metadata[i] /\ TokenById(i) # NotFound
<1>1. TypeOK /\ CreatorIndexExact
  BY DEF IndInv
<1>2. Listed(AllCreators) = Created
  BY DEF Listed, Created
<1>3. ASSUME NEW u \in User PROVE Listed(u) = {i \in Created : metadata[i].creator = u}
  <2>1. Listed(u) = {i \in TokenId : <<u, i>> \in creatorIndex}
    BY QueriesAssumption DEF Listed
  <2>2. \A i \in TokenId : <<u, i>> \in creatorIndex <=> i \in TokensOf(u)
    BY <1>1 DEF CreatorIndexExact
  <2>3. QED
    BY <2>1, <2>2 DEF TokensOf, Created
<1>4. ASSUME NEW i \in Created PROVE TokenById(i) = metadata[i] /\ TokenById(i) # NotFound
  BY <1>1, QueriesAssumption DEF Created, TokenById, TypeOK
<1>5. QED
  BY <1>2, <1>3, <1>4

\* The first part of LookupsAgree.
LEMMA SymbolLookup ==
    ASSUME IndInv, NEW i \in Created, NEW s \in Spelling, Lower[s] = SymbolOf(i)
    PROVE  TokenBySymbol(s) = TokenById(i)
<1>1. symbolIndex[Lower[s]] = i
  BY DEF IndInv, SymbolIndexExact
<1>2. i # 0
  BY TokenAssumption DEF Created, TokenId
<1>3. QED
  BY <1>1, <1>2 DEF TokenBySymbol

-----------------------------------------------------------------------------
(* The steps.                                                               *)

\* What a creation writes of what the listings read.
LEMMA CreateWrites ==
    ASSUME IndInv, NEW creator \in User, NEW symbol \in Spelling, Create(creator, symbol)
    PROVE  /\ IndInv' /\ scan' = scan
           /\ sequence + 1 \in TokenId /\ metadata[sequence + 1] = NoToken
           /\ sequence' = sequence + 1
           /\ \A i \in TokenId : i # sequence + 1 => metadata'[i] = metadata[i]
           /\ creatorIndex' = creatorIndex \cup {<<creator, sequence + 1>>}
<1>0. TypeOK /\ SequenceExact
  BY DEF IndInv
<1>1. CreateToken(creator, symbol, 1, 1, FALSE) /\ scan' = scan
  BY DEF Create
<1>2. 1 \in 0 .. SupplyBound
  <2>1. supply[Lower[symbol]] \in Nat /\ supply[Lower[symbol]] + 1 <= SupplyBound
    BY <1>0, <1>1, TokenAssumption DEF TypeOK, CreateToken, BankMint
  <2>2. QED
    BY <2>1, TokenAssumption
<1>3. IndInv'
  BY <1>1, <1>2, CreateTokenKeeps
<1>4. /\ sequence + 1 \in TokenId /\ metadata[sequence + 1] = NoToken
      /\ sequence' = sequence + 1
      /\ creatorIndex' = creatorIndex \cup {<<creator, sequence + 1>>}
  BY <1>0, <1>1, <1>2, CreateTokenEffect
<1>5. \A i \in TokenId : i # sequence + 1 => metadata'[i] = metadata[i]
  BY <1>0, <1>1 DEF CreateToken, StoreTokenMetadata, NextTokenSequence, TypeOK
<1>6. QED
  BY <1>1, <1>3, <1>4, <1>5

\* A creation enlarges the listings.
LEMMA CreateKeeps ==
    ASSUME QInv, NEW creator \in User, NEW symbol \in Spelling, Create(creator, symbol)
    PROVE  QInv'
<1>0. IndInv /\ ScanOK
  BY DEF QInv
<1>1. IndInv' /\ scan' = scan
  BY <1>0, CreateWrites
<1>2. /\ \A i \in TokenId : i # sequence + 1 => metadata'[i] = metadata[i]
      /\ creatorIndex' = creatorIndex \cup {<<creator, sequence + 1>>}
      /\ metadata[sequence + 1] = NoToken
  BY <1>0, CreateWrites
<1>3. Listed(scan.of) \subseteq Listed(scan.of)' /\ Listed(scan.of)' \subseteq TokenId
  BY <1>1, <1>2 DEF Listed
<1>4. Ahead'
  <2>1. SUFFICES ASSUME scan.status = "open", NEW i \in scan.start
                 PROVE  /\ i \in Listed(scan.of)'
                        /\ Shown(i) \/ Position(i, Listed(scan.of)') >= scan.offset
    BY <1>1 DEF Ahead, Shown, Position
  <2>2. i \in Listed(scan.of) /\ (Shown(i) \/ Position(i, Listed(scan.of)) >= scan.offset)
    BY <2>1 DEF QInv, Ahead
  <2>3. /\ Position(i, Listed(scan.of)) \in Nat /\ Position(i, Listed(scan.of)') \in Nat
        /\ Position(i, Listed(scan.of)) <= Position(i, Listed(scan.of)')
    BY <1>3, PositionGrows
  <2>4. scan.offset \in Nat
    BY <1>0 DEF ScanOK, Scan
  <2>5. QED
    BY <1>3, <2>2, <2>3, <2>4
<1>5. QED
  BY <1>0, <1>1, <1>4 DEF QInv, ScanOK, NoneMissed

LEMMA BeginScanKeeps ==
    ASSUME QInv, NEW of \in User \cup {AllCreators}, NEW by \in Way, NEW limit \in Limits,
           BeginScan(of, by, limit)
    PROVE  QInv'
<1> DEFINE start == {i \in Created : of \in {AllCreators, metadata[i].creator}}
<1>0. IndInv /\ TypeOK
  BY DEF QInv, IndInv
<1>1. /\ scan' = [status |-> "open", of |-> of, by |-> by, limit |-> limit, offset |-> 0,
                  parity |-> 0, start |-> start, first |-> sequence, seen |-> {}]
      /\ UNCHANGED vars
  BY DEF BeginScan
<1>2. start \subseteq TokenId
  BY DEF Created
<1>3. start \subseteq Listed(of)
  BY <1>0, ListedExact, QueriesAssumption
<1>4. sequence \in Nat /\ limit \in Nat
  BY <1>0, QueriesAssumption, TokenAssumption DEF TypeOK
<1>5. Listed(of) \subseteq TokenId /\ \A i : Position(i, Listed(of)) \in Nat
  <2>1. Listed(of) \subseteq TokenId
    BY DEF Listed
  <2>2. QED
    BY <2>1, PositionGrows
<1> HIDE DEF start
<1>6. ScanOK'
  BY <1>1, <1>2, <1>4 DEF ScanOK, Scan
<1>7. /\ scan'.status = "open" /\ scan'.of = of /\ scan'.offset = 0 /\ scan'.start = start
      /\ metadata' = metadata /\ creatorIndex' = creatorIndex
  BY <1>1 DEF vars, stores
<1>8. Ahead'
  <2>1. SUFFICES ASSUME NEW i \in start
                 PROVE  i \in Listed(of) /\ Position(i, Listed(of)) >= 0
    BY <1>7 DEF Ahead, Listed, Position
  <2>2. QED
    BY <1>3, <1>5
<1>9. IndInv'
  BY <1>0, <1>1, NextKeeps
<1>10. QED
  BY <1>6, <1>7, <1>8, <1>9 DEF QInv, NoneMissed

LEMMA NextPageKeeps ==
    ASSUME QInv, NextPage
    PROVE  QInv'
<1> DEFINE ids  == Listed(scan.of)
           page == Page(ids, scan.offset, scan.limit)
           more == More(ids, scan.offset, scan.limit)
<1>0. IndInv /\ ScanOK /\ Ahead /\ scan.status = "open" /\ UNCHANGED vars
  BY DEF QInv, NextPage
<1>1. /\ scan.of \in User \cup {AllCreators} /\ scan.limit \in Nat /\ scan.offset \in Nat
      /\ scan.start \subseteq TokenId /\ scan.seen \subseteq Nat \X TokenId
  BY <1>0 DEF ScanOK, Scan
<1>2. ids \subseteq TokenId /\ page \subseteq ids
  BY DEF Listed, Page
<1>3. Answered(scan.of, page)
  <2>1. CASE scan.of = AllCreators
    BY <2>1 DEF Answered
  <2>2. CASE scan.of \in User
    <3>1. ids \subseteq Created
      BY <1>0, <2>2, ListedExact
    <3>2. QED
      BY <1>0, <1>2, <3>1, ListedExact DEF Answered
  <2>3. QED
    BY <1>1, <2>1, <2>2
<1>4. scan' = [scan EXCEPT !.status = IF more THEN "open" ELSE "done",
                           !.offset = IF more /\ scan.by = "offset" THEN @ + scan.limit ELSE @,
                           !.parity = 1 - @,
                           !.seen = @ \cup ({scan.offset} \X page)]
  BY <1>3 DEF NextPage
<1>5. ASSUME NEW i \in scan.start
      PROVE  /\ i \in ids
             /\ (\E e \in scan.seen \cup ({scan.offset} \X page) : e[2] = i)
                   \/ (more /\ Position(i, ids) >= scan.offset + scan.limit)
  <2>1. i \in ids /\ (Shown(i) \/ Position(i, ids) >= scan.offset)
    BY <1>0 DEF Ahead
  <2>2. CASE Shown(i)
    BY <2>1, <2>2 DEF Shown
  <2>3. CASE Position(i, ids) >= scan.offset
    <3>1. i \in page \/ (more /\ Position(i, ids) >= scan.offset + scan.limit)
      BY <1>1, <1>2, <2>1, <2>3, PageShows
    <3>2. CASE i \in page
      <4>1. <<scan.offset, i>> \in {scan.offset} \X page
        BY <3>2
      <4>2. QED
        BY <2>1, <4>1
    <3>3. QED
      BY <2>1, <3>1, <3>2
  <2>4. QED
    BY <2>1, <2>2, <2>3
<1>6. page \subseteq TokenId /\ (more \in BOOLEAN)
  BY <1>2 DEF More
<1>7. scan \in Scan
  BY <1>0 DEF ScanOK
<1> HIDE DEF ids, page, more
<1>8. ScanOK'
  <2> DEFINE st == IF more THEN "open" ELSE "done"
             off == IF more /\ scan.by = "offset" THEN scan.offset + scan.limit ELSE scan.offset
             par == 1 - scan.parity
             new == scan.seen \cup ({scan.offset} \X page)
  <2>1. st \in {"idle", "open", "done", "failed"} /\ off \in Nat /\ par \in {0, 1}
    BY <1>1, <1>7 DEF Scan
  <2>2. new \in SUBSET (Nat \X TokenId)
    BY <1>1, <1>6
  <2>3. scan' = [scan EXCEPT !.status = st, !.offset = off, !.parity = par, !.seen = new]
    BY <1>4
  <2> HIDE DEF st, off, par, new
  <2>4. QED
    BY <1>7, <2>1, <2>2, <2>3 DEF ScanOK, Scan
<1>9. /\ scan'.status = (IF more THEN "open" ELSE "done")
      /\ scan'.offset \in {scan.offset, scan.offset + scan.limit}
      /\ scan'.seen = scan.seen \cup ({scan.offset} \X page)
      /\ scan'.of = scan.of /\ scan'.start = scan.start
  BY <1>4, <1>7 DEF Scan
<1>10. metadata' = metadata /\ creatorIndex' = creatorIndex
  BY <1>0 DEF vars, stores
<1>11. Listed(scan.of)' = ids
  BY <1>9, <1>10 DEF Listed, ids
<1>12. Ahead'
  <2>1. SUFFICES ASSUME more, NEW i \in scan.start
                 PROVE  /\ i \in ids
                        /\ \/ \E e \in scan.seen \cup ({scan.offset} \X page) : e[2] = i
                           \/ Position(i, ids) >= scan.offset + scan.limit
    <3>1. ASSUME NEW i \in ids PROVE Position(i, ids) \in Nat
      BY <1>2, PositionGrows DEF ids
    <3>2. ASSUME NEW i \in ids, Position(i, ids) >= scan.offset + scan.limit
          PROVE  Position(i, ids) >= scan'.offset
      BY <1>1, <1>9, <3>1, <3>2
    <3>3. QED
      BY <1>9, <1>11, <3>2 DEF Ahead, Shown, Position
  <2>2. QED
    BY <1>5, <2>1
<1>13. NoneMissed'
  BY <1>5, <1>9 DEF NoneMissed
<1>14. IndInv'
  BY <1>0, NextKeeps
<1>15. QED
  BY <1>8, <1>9, <1>12, <1>13, <1>14 DEF QInv

LEMMA RestartKeeps ==
    ASSUME QInv, Restart
    PROVE  QInv'
<1>1. ExportImport /\ scan' = NoScan
  BY DEF Restart
<1>2. IndInv'
  BY <1>1, NextKeeps DEF QInv, Next
<1>3. QED
  BY <1>1, <1>2 DEF QInv, NoScan, ScanOK, Scan, Way, Ahead, NoneMissed

\* The invariant holds in every state of the system with its client.
THEOREM QueriesInvariant == QSpec => []QInv
<1>1. QInit => QInv
  BY InitKeeps DEF QInit, QInv, NoScan, ScanOK, Scan, Way, Ahead, NoneMissed
<1>2. QInv /\ [QNext]_qvars => QInv'
  <2>1. SUFFICES ASSUME QInv, [QNext]_qvars PROVE QInv'
    OBVIOUS
  <2>2. CASE UNCHANGED qvars
    <3>1. IndInv'
      BY <2>1, <2>2, NextKeeps DEF QInv, qvars
    <3>2. QED
      BY <2>1, <2>2, <3>1 DEF QInv, qvars, vars, stores, ScanOK, Ahead, NoneMissed, Shown, Listed, Position
  <2>3. QED
    BY <2>1, <2>2, CreateKeeps, BeginScanKeeps, NextPageKeeps, RestartKeeps DEF QNext
<1>3. QED
  BY <1>1, <1>2, PTL DEF QSpec

\* A listing read to its end has shown every token that was there at the start, for every page
\* size, either way to go on, every interleaving with creations and every place that their keys come to have.
THEOREM NoneEverMissed == QSpec => []NoneMissed
<1>1. QInv => NoneMissed
  BY DEF QInv
<1>2. QED
  BY <1>1, QueriesInvariant, PTL

\* The look-ups by ID and by any spelling of the symbol and the listings agree, and no
\* listing fails.
THEOREM LookupsAlwaysAgree == QSpec => []LookupsAgree
<1>1. QInv => LookupsAgree
  <2>1. SUFFICES ASSUME QInv PROVE LookupsAgree
    OBVIOUS
  <2>2. IndInv /\ scan.status # "failed"
    BY <2>1 DEF QInv
  <2>3. \A i \in Created, s \in Spelling : Lower[s] = SymbolOf(i) => TokenBySymbol(s) = TokenById(i)
    BY <2>2, SymbolLookup
  <2>4. \A u \in User : Listed(u) = {i \in Listed(AllCreators) : metadata[i].creator = u}
    BY <2>2, ListedExact
  <2>5. QED
    BY <2>2, <2>3, <2>4 DEF LookupsAgree
<1>2. QED
  BY <1>1, QueriesInvariant, PTL

-----------------------------------------------------------------------------
(* No token twice.                                                          *)

\* Nothing was created since the client began, or all IDs keep to their width.
Quiet == sequence = scan.first \/ sequence < Power[Width]

\* The client counts offsets, and no ID has outgrown its width under it.
Steady == scan.by = "offset" /\ Quiet

\* What SeenOnce says of a set of tokens shown.
InOrder(seen) ==
    \A d, e \in seen :
        /\ d[2] = e[2] => d = e
        /\ d[1] < e[1] => Before(d[2], e[2])

\* What has been shown lies before the offset of the next page.
Behind(seen, ids, offset) ==
    \A e \in seen : /\ e[1] < offset
                    /\ e[2] \in ids
                    /\ Position(e[2], ids) < offset

\* SeenOnce is not inductive: the next page must not reach back to what was shown.
SeenInv ==
    /\ scan.first <= sequence
    /\ Steady => /\ InOrder(scan.seen)
                 /\ scan.status = "open" => Behind(scan.seen, Listed(scan.of), scan.offset)

\* The positions of a listing follow the order of its keys.
LEMMA PositionOrder ==
    ASSUME NEW S, S \subseteq TokenId, NEW i \in S, NEW j \in S, Position(i, S) < Position(j, S)
    PROVE  Before(i, j)
<1>0. i \in TokenId /\ j \in TokenId
  OBVIOUS
<1>1. SUFFICES ASSUME ~Before(i, j) PROVE FALSE
  OBVIOUS
<1>2. Position(i, S) \in Nat /\ Position(j, S) \in Nat
  BY PositionGrows
<1>3. i # j
  BY <1>2
<1>4. Before(j, i)
  BY <1>0, <1>1, <1>3, BeforeTotal
<1> DEFINE A == {k \in S : Before(k, i)}
           B == {k \in S : Before(k, j)}
<1>5. B \subseteq A
  <2>1. ASSUME NEW k \in B PROVE k \in A
    <3>1. k \in S /\ k \in TokenId /\ Before(k, j)
      OBVIOUS
    <3>2. Before(k, i)
      BY <1>0, <1>4, <3>1, BeforeTransitive
    <3>3. QED
      BY <3>1, <3>2
  <2>2. QED
    BY <2>1
<1>6. Position(i, S) = Cardinality(A) /\ Position(j, S) = Cardinality(B)
  BY DEF Position
<1>7. IsFiniteSet(TokenId)
  BY FS_Interval, TokenAssumption DEF TokenId
<1>8. A \subseteq TokenId
  OBVIOUS
<1> HIDE DEF A, B
<1>9. IsFiniteSet(A) /\ Cardinality(B) <= Cardinality(A)
  BY <1>5, <1>7, <1>8, FS_Subset
<1>10. QED
  BY <1>2, <1>6, <1>9

\* A page keeps what is shown in order and each token once.
LEMMA PageInOrder ==
    ASSUME NEW S, S \subseteq TokenId, NEW offset \in Nat, NEW limit \in Nat,
           NEW seen \in SUBSET (Nat \X TokenId), InOrder(seen), Behind(seen, S, offset)
    PROVE  InOrder(seen \cup ({offset} \X Page(S, offset, limit)))
<1> DEFINE page == Page(S, offset, limit)
           new == {offset} \X page
<1>1. ASSUME NEW e \in new
      PROVE  e[1] = offset /\ e[2] \in S /\ Position(e[2], S) >= offset /\ e = <<offset, e[2]>>
  <2>1. e[1] = offset /\ e[2] \in page /\ e = <<offset, e[2]>>
    OBVIOUS
  <2>2. QED
    BY <2>1 DEF Page
<1>2. ASSUME NEW e \in seen
      PROVE  e[1] \in Nat /\ e[1] < offset /\ e[2] \in S /\ Position(e[2], S) < offset
  BY <1>2 DEF Behind
<1>3. \A i \in S : Position(i, S) \in Nat
  BY PositionGrows
<1> HIDE DEF new, page
<1>4. ASSUME NEW d \in seen \cup new, NEW e \in seen \cup new
      PROVE  /\ d[2] = e[2] => d = e
             /\ d[1] < e[1] => Before(d[2], e[2])
  <2>1. CASE d \in seen /\ e \in seen
    BY <2>1 DEF InOrder
  <2>2. CASE d \in new /\ e \in new
    <3>1. d[1] = offset /\ e[1] = offset /\ d = <<offset, d[2]>> /\ e = <<offset, e[2]>>
      BY <1>1, <2>2
    <3>2. d[2] = e[2] => d = e
      BY <3>1
    <3>3. ~(d[1] < e[1])
      BY <3>1
    <3>4. QED
      BY <3>2, <3>3
  <2>3. CASE d \in seen /\ e \in new
    <3>1. d[2] \in S /\ e[2] \in S /\ Position(d[2], S) < offset /\ Position(e[2], S) >= offset
      BY <1>1, <1>2, <2>3
    <3>2. Position(d[2], S) \in Nat /\ Position(e[2], S) \in Nat
      BY <1>3, <3>1
    <3>3. Position(d[2], S) < Position(e[2], S)
      BY <3>1, <3>2
    <3>4. Before(d[2], e[2])
      BY <3>1, <3>3, PositionOrder
    <3>5. d[2] # e[2]
      BY <3>2, <3>3
    <3>6. QED
      BY <3>4, <3>5
  <2>4. CASE d \in new /\ e \in seen
    <3>1. d[2] \in S /\ e[2] \in S /\ Position(e[2], S) < offset /\ Position(d[2], S) >= offset
      BY <1>1, <1>2, <2>4
    <3>2. Position(d[2], S) \in Nat /\ Position(e[2], S) \in Nat
      BY <1>3, <3>1
    <3>3. d[2] # e[2]
      BY <3>1, <3>2
    <3>4. d[1] = offset /\ e[1] \in Nat /\ e[1] < offset
      BY <1>1, <1>2, <2>4
    <3>5. QED
      BY <3>3, <3>4
  <2>5. QED
    BY <2>1, <2>2, <2>3, <2>4
<1>5. QED
  BY <1>4 DEF InOrder, new, page

\* A page that a further one follows lies before the next offset.
LEMMA PageBehind ==
    ASSUME NEW S, S \subseteq TokenId, NEW offset \in Nat, NEW limit \in Nat,
           NEW seen \in SUBSET (Nat \X TokenId), Behind(seen, S, offset),
           More(S, offset, limit)
    PROVE  Behind(seen \cup ({offset} \X Page(S, offset, limit)), S, offset + limit)
<1>1. limit > 0
  BY DEF More
<1>2. \A i \in S : Position(i, S) \in Nat
  BY PositionGrows
<1>3. ASSUME NEW e \in seen
      PROVE  e[1] < offset + limit /\ e[2] \in S /\ Position(e[2], S) < offset + limit
  <2>1. e[1] \in Nat /\ e[1] < offset /\ e[2] \in S /\ Position(e[2], S) < offset
    BY DEF Behind
  <2>2. QED
    BY <1>1, <1>2, <2>1
<1>4. ASSUME NEW e \in {offset} \X Page(S, offset, limit)
      PROVE  e[1] < offset + limit /\ e[2] \in S /\ Position(e[2], S) < offset + limit
  <2>1. e[1] = offset /\ e[2] \in Page(S, offset, limit)
    OBVIOUS
  <2>2. QED
    BY <1>1, <2>1 DEF Page
<1>5. QED
  BY <1>3, <1>4 DEF Behind

\* An ID that comes after a listing leaves its positions alone.
LEMMA AppendedKeeps ==
    ASSUME NEW S, NEW T, S \subseteq T, NEW id, T \subseteq S \cup {id},
           NEW i, ~Before(id, i)
    PROVE  Position(i, T) = Position(i, S)
<1>1. {j \in T : Before(j, i)} = {j \in S : Before(j, i)}
  OBVIOUS
<1>2. QED
  BY <1>1 DEF Position

LEMMA SeenCreate ==
    ASSUME QInv, SeenInv, NEW creator \in User, NEW symbol \in Spelling, Create(creator, symbol)
    PROVE  SeenInv'
<1> DEFINE id == sequence + 1
           ids == Listed(scan.of)
           ids2 == Listed(scan.of)'
<1>0. IndInv /\ ScanOK /\ TypeOK /\ SequenceExact
  BY DEF QInv, IndInv
<1>1. /\ id \in TokenId /\ metadata[id] = NoToken /\ sequence' = id /\ scan' = scan
      /\ \A i \in TokenId : i # id => metadata'[i] = metadata[i]
      /\ creatorIndex' = creatorIndex \cup {<<creator, id>>}
  BY <1>0, CreateWrites
<1>2. sequence \in Nat /\ scan.first \in Nat /\ scan.first <= sequence /\ scan.offset \in Nat
  BY <1>0, TokenAssumption DEF TypeOK, ScanOK, Scan, SeenInv
<1>3. Power[Width] \in Nat
  BY PowerPositive, QueriesAssumption
<1>4. SUFFICES ASSUME Steady'
               PROVE  /\ InOrder(scan.seen)
                      /\ scan.status = "open" => Behind(scan.seen, ids2, scan.offset)
  BY <1>1, <1>2 DEF SeenInv, InOrder, Behind, Position
<1>5. id < Power[Width]
  BY <1>1, <1>2, <1>4 DEF Steady, Quiet
<1>6. Steady
  BY <1>1, <1>2, <1>3, <1>4, <1>5 DEF Steady, Quiet
<1>7. InOrder(scan.seen) /\ (scan.status = "open" => Behind(scan.seen, ids, scan.offset))
  BY <1>6 DEF SeenInv
<1>8. scan.of \in User \cup {AllCreators}
  BY <1>0 DEF ScanOK, Scan
<1>9. ids \subseteq ids2 /\ ids2 \subseteq ids \cup {id}
  BY <1>1 DEF Listed
<1>10. \A i \in ids : i \in TokenId /\ i <= sequence
  <2>1. ids \subseteq Created
    BY <1>0, <1>8, ListedExact
  <2>2. QED
    BY <1>0, <2>1 DEF Created, SequenceExact
<1> HIDE DEF ids, ids2
<1>11. \A i \in ids : Position(i, ids2) = Position(i, ids)
  <2>1. ASSUME NEW i \in ids PROVE Position(i, ids2) = Position(i, ids)
    <3>1. i \in TokenId /\ i \in Nat /\ i <= sequence
      BY <1>10 DEF TokenId
    <3>2. i < Power[Width] /\ ~(id < i)
      BY <1>2, <1>3, <1>5, <3>1
    <3>3. ~Before(id, i)
      BY <1>1, <1>5, <3>1, <3>2, BeforePadded
    <3> HIDE DEF id
    <3>4. QED
      BY <1>9, <3>3, AppendedKeeps
  <2>2. QED
    BY <2>1
<1>12. scan.status = "open" => Behind(scan.seen, ids2, scan.offset)
  BY <1>7, <1>9, <1>11 DEF Behind
<1>13. QED
  BY <1>7, <1>12

LEMMA SeenNextPage ==
    ASSUME QInv, SeenInv, NextPage
    PROVE  SeenInv'
<1> DEFINE ids  == Listed(scan.of)
           page == Page(ids, scan.offset, scan.limit)
           more == More(ids, scan.offset, scan.limit)
           new  == scan.seen \cup ({scan.offset} \X page)
<1>0. scan \in Scan /\ scan.status = "open" /\ UNCHANGED vars
  BY DEF QInv, ScanOK, NextPage
<1>1. /\ scan.limit \in Nat /\ scan.offset \in Nat /\ scan.seen \in SUBSET (Nat \X TokenId)
      /\ ids \subseteq TokenId
  BY <1>0 DEF Scan, Listed
<1>2. \/ /\ scan'.status = (IF more THEN "open" ELSE "done")
         /\ scan'.offset = (IF more /\ scan.by = "offset" THEN scan.offset + scan.limit ELSE scan.offset)
         /\ scan'.seen = new
      \/ scan'.status = "failed" /\ scan'.seen = scan.seen
  BY <1>0 DEF NextPage, Scan
<1>3. scan'.of = scan.of /\ scan'.by = scan.by /\ scan'.first = scan.first
  BY <1>0 DEF NextPage, Scan
<1>4. sequence' = sequence /\ metadata' = metadata /\ creatorIndex' = creatorIndex
  BY <1>0 DEF vars, stores
<1>5. Steady' = Steady /\ Listed(scan.of)' = ids
  BY <1>3, <1>4 DEF Steady, Quiet, Listed
<1> HIDE DEF ids
<1>6. SUFFICES ASSUME Steady
               PROVE  /\ InOrder(scan'.seen)
                      /\ scan'.status = "open" => Behind(scan'.seen, ids, scan'.offset)
  BY <1>3, <1>4, <1>5 DEF SeenInv, InOrder, Behind, Position
<1>7. InOrder(scan.seen) /\ Behind(scan.seen, ids, scan.offset)
  BY <1>0, <1>6 DEF SeenInv, ids
<1>8. InOrder(new)
  BY <1>1, <1>7, PageInOrder
<1>9. more => Behind(new, ids, scan.offset + scan.limit)
  BY <1>1, <1>7, PageBehind
<1>10. scan.by = "offset"
  BY <1>6 DEF Steady
<1> HIDE DEF new, more
<1>11. QED
  BY <1>2, <1>7, <1>8, <1>9, <1>10

\* A client that counts offsets is shown no token twice, and all of them in the order of the keys, for every
\* page size and number of pages, unless IDs outgrow their width while it reads.
THEOREM ShownOnce == QSpec => []SeenOnce
<1>1. QInit => SeenInv
  <2>1. SUFFICES ASSUME QInit PROVE SeenInv
    OBVIOUS
  <2>2. scan = NoScan /\ sequence = 0
    BY <2>1 DEF QInit, Init
  <2>3. QED
    BY <2>2 DEF SeenInv, NoScan, InOrder
<1>2. QInv /\ QInv' /\ SeenInv /\ [QNext]_qvars => SeenInv'
  <2>1. SUFFICES ASSUME QInv, QInv', SeenInv, [QNext]_qvars PROVE SeenInv'
    OBVIOUS
  <2>2. sequence \in Nat /\ sequence' \in Nat
    BY <2>1, TokenAssumption DEF QInv, IndInv, TypeOK
  <2>3. CASE UNCHANGED qvars
    BY <2>1, <2>3 DEF SeenInv, Steady, Quiet, qvars, vars, stores, Listed, InOrder, Behind, Position
  <2>4. ASSUME NEW of \in User \cup {AllCreators}, NEW by \in Way, NEW limit \in Limits,
               BeginScan(of, by, limit)
        PROVE  SeenInv'
    <3>1. scan'.first = sequence /\ scan'.seen = {} /\ sequence' = sequence
      BY <2>4 DEF BeginScan, vars, stores
    <3>2. QED
      BY <2>2, <3>1 DEF SeenInv, InOrder, Behind
  <2>5. CASE Restart
    <3>1. scan'.first = 0 /\ scan'.seen = {} /\ scan'.status = "idle"
      BY <2>5 DEF Restart, NoScan
    <3>2. QED
      BY <2>2, <3>1 DEF SeenInv, InOrder
  <2>6. QED
    BY <2>1, <2>3, <2>4, <2>5, SeenCreate, SeenNextPage DEF QNext
<1>3. SeenInv => SeenOnce
  BY DEF SeenInv, Steady, Quiet, InOrder, SeenOnce
<1>4. QED
  BY <1>1, <1>2, <1>3, QueriesInvariant, PTL DEF QSpec

-----------------------------------------------------------------------------
(* The end of a listing.                                                    *)

\* A position counts fewer tokens than the listing has.
LEMMA PositionBelow ==
    ASSUME NEW S, S \subseteq TokenId, NEW i \in S
    PROVE  Position(i, S) \in Nat /\ Position(i, S) < Cardinality(S) /\ Cardinality(S) \in Nat
<1> DEFINE A == {j \in S : Before(j, i)}
<1>1. IsFiniteSet(TokenId)
  BY FS_Interval, TokenAssumption DEF TokenId
<1>2. IsFiniteSet(S) /\ Cardinality(S) \in Nat
  BY <1>1, FS_Subset, FS_CardinalityType
<1>3. i \notin A /\ A \subseteq S
  BY BeforeIrreflexive
<1>4. Position(i, S) = Cardinality(A)
  BY DEF Position
<1> HIDE DEF A
<1>5. IsFiniteSet(A) /\ Cardinality(A) <= Cardinality(S) /\ (Cardinality(A) = Cardinality(S) => A = S)
  BY <1>2, <1>3, FS_Subset
<1>6. Cardinality(A) \in Nat
  BY <1>5, FS_CardinalityType
<1>7. QED
  BY <1>2, <1>3, <1>4, <1>5, <1>6

\* No client that counts offsets is kept reading by a page that does not advance, or sent
\* past the end, for every page size and number of tokens.
THEOREM PagesAlwaysAdvance == QSpec => PagesAdvance
<1> DEFINE A == NextPage /\ scan.by = "offset" =>
                  \/ scan'.status = "done"
                  \/ scan.offset < scan'.offset /\ scan'.offset < Cardinality(Listed(scan.of))
<1>1. ASSUME QInv, QInv', [QNext]_qvars
      PROVE  A
  <2> DEFINE ids  == Listed(scan.of)
             more == More(ids, scan.offset, scan.limit)
  <2>1. SUFFICES ASSUME NextPage, scan.by = "offset"
                 PROVE  \/ scan'.status = "done"
                        \/ scan.offset < scan'.offset /\ scan'.offset < Cardinality(ids)
    OBVIOUS
  <2>2. scan \in Scan /\ scan'.status # "failed"
    BY <1>1 DEF QInv, ScanOK
  <2>3. /\ scan'.status = (IF more THEN "open" ELSE "done")
        /\ scan'.offset = (IF more THEN scan.offset + scan.limit ELSE scan.offset)
    BY <2>1, <2>2 DEF NextPage, Scan
  <2>4. scan.offset \in Nat /\ scan.limit \in Nat
    BY <2>2 DEF Scan
  <2>5. CASE more
    <3>1. PICK i \in ids : scan.limit > 0 /\ Position(i, ids) >= scan.offset + scan.limit
      BY <2>5 DEF More
    <3>2. ids \subseteq TokenId
      BY DEF Listed
    <3> HIDE DEF ids
    <3>3. Position(i, ids) \in Nat /\ Position(i, ids) < Cardinality(ids) /\ Cardinality(ids) \in Nat
      BY <3>1, <3>2, PositionBelow
    <3>4. QED
      BY <2>3, <2>4, <2>5, <3>1, <3>3
  <2>6. QED
    BY <2>3, <2>5
<1>2. QED
  BY <1>1, QueriesInvariant, PTL DEF QSpec, PagesAdvance
=============================================================================
