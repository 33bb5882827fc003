---------------------------- MODULE TokenQueries ----------------------------
(***************************************************************************)
(* x/token's queries (keeper/query.go), and a client that reads a listing   *)
(* page by page while tokens are being created.                             *)
(*                                                                          *)
(* A listing walks the store in the order of its keys, which end in the     *)
(* token ID as text, "token_%03d": IDs of one length come in the order of   *)
(* their numbers, a longer one after the IDs it begins with.  A query is    *)
(* answered from one committed version of the store; two are not.           *)
(*                                                                          *)
(* A response ends in a NextKey while there is more.  A client hands it     *)
(* back as the Key of its next request, or it sets the next Offset: "only   *)
(* one of offset or key should be set" (docs/static/openapi.json).  The     *)
(* handlers read Offset and Limit only.                                     *)
(***************************************************************************)
EXTENDS Token

CONSTANTS
    Base, Width,    \* the format of an ID: digits of a base, padded to a width
    Limits,         \* page sizes, 0 for no limit
    AllCreators,    \* AllTokens rather than TokensByCreator
    NotFound        \* ErrTokenNotFound

ASSUME QueriesAssumption ==
    /\ Base \in Nat \ {0, 1} /\ Width \in Nat \ {0}
    /\ Limits \subseteq Nat
    /\ AllCreators \notin User
    /\ NotFound \notin Metadata

\* How a client asks for the next page.
Way == {"offset", "key"}

\* A client's walk through a listing: its next request, the tokens there were when it
\* began (start, and the last ID, first), and what it has been shown, each token with
\* the offset of its page.  The parity of its requests makes one that is answered as
\* the last one was a step all the same.
Scan ==
    [status : {"idle", "open", "done", "failed"}, of : User \cup {AllCreators}, by : Way,
     limit : Nat, offset : Nat, parity : {0, 1}, start : SUBSET TokenId, first : Nat,
     seen : SUBSET (Nat \X TokenId)]

NoScan ==
    [status |-> "idle", of |-> AllCreators, by |-> "offset", limit |-> 0, offset |-> 0,
     parity |-> 0, start |-> {}, first |-> 0, seen |-> {}]

VARIABLE scan

qvars == <<vars, scan>>

-----------------------------------------------------------------------------
(* Single tokens.                                                           *)

TokenById(id) == IF metadata[id] # NoToken THEN metadata[id] ELSE NotFound

\* Mutation: the index is asked for the symbol as it was typed.
TokenBySymbolAsTyped(symbol) ==
    IF symbol \in Symbol /\ symbolIndex[symbol] # 0
    THEN TokenById(symbolIndex[symbol]) ELSE NotFound

TokenBySymbol(symbol) ==
    IF symbolIndex[Lower[symbol]] # 0 THEN TokenById(symbolIndex[Lower[symbol]]) ELSE NotFound

-----------------------------------------------------------------------------
(* Listings.                                                                *)

\* The least number of n + 1 digits.
Power[n \in Nat] == IF n = 0 THEN 1 ELSE Base * Power[n - 1]

\* Number of digits of an ID.
Digits(i) ==
    CHOOSE n \in Width .. Width + MaxSequence :
        i < Power[n] /\ (n = Width \/ Power[n - 1] <= i)

\* The order of the keys: digit by digit, and a prefix first.
Before(i, j) ==
    LET a == i * Power[Digits(j)]
        b == j * Power[Digits(i)]
    IN  a < b \/ (a = b /\ Digits(i) < Digits(j))

\* The IDs under the prefix ci_ of a creator, or tm_.
Listed(of) ==
    IF of = AllCreators THEN {i \in TokenId : metadata[i] # NoToken}
    ELSE {i \in TokenId : <<of, i>> \in creatorIndex}

Position(i, ids) == Cardinality({j \in ids : Before(j, i)})

\* Mutation: the element at the offset is skipped with those before it.
PageSkipping(ids, offset, limit) ==
    {i \in ids : /\ Position(i, ids) > offset
                 /\ limit > 0 => Position(i, ids) < offset + limit}

\* Mutation: the loop stops after one token too many.
PageOneMore(ids, offset, limit) ==
    {i \in ids : /\ offset <= Position(i, ids)
                 /\ limit > 0 => Position(i, ids) <= offset + limit}

\* The loop of TokensByCreator and AllTokens: offset elements are skipped, limit taken.
Page(ids, offset, limit) ==
    {i \in ids : /\ offset <= Position(i, ids)
                 /\ limit > 0 => Position(i, ids) < offset + limit}

\* Mutation: a full page is taken for one that has a successor.
MoreWhenFull(ids, offset, limit) ==
    limit > 0 /\ \E i \in ids : Position(i, ids) + 1 >= offset + limit

\* A NextKey is returned when the iterator is still valid after the loop.
More(ids, offset, limit) == limit > 0 /\ \E i \in ids : Position(i, ids) >= offset + limit

\* TokensByCreator looks each ID up, and fails when one is not found.
Answered(of, page) == of = AllCreators \/ \A i \in page : TokenById(i) # NotFound

BeginScan(of, by, limit) ==
    /\ scan.status # "open"
    /\ scan' = [status |-> "open", of |-> of, by |-> by, limit |-> limit, offset |-> 0,
                parity |-> 0,
                start |-> {i \in Created : of \in {AllCreators, metadata[i].creator}},
                first |-> sequence, seen |-> {}]
    /\ UNCHANGED vars

\* TokensByCreator or AllTokens, and the client's next request.  The Key of a request is
\* not read, and a request that has one has no Offset: its page is the first.
NextPage ==
    LET ids  == Listed(scan.of)
        page == Page(ids, scan.offset, scan.limit)
        more == More(ids, scan.offset, scan.limit)
    IN  /\ scan.status = "open"
        /\ scan' = IF Answered(scan.of, page)
                   THEN [scan EXCEPT !.status = IF more THEN "open" ELSE "done",
                                     !.offset = IF more /\ scan.by = "offset"
                                                THEN @ + scan.limit ELSE @,
                                     !.parity = 1 - @,
                                     !.seen = @ \cup ({scan.offset} \X page)]
                   ELSE [scan EXCEPT !.status = "failed"]
        /\ UNCHANGED vars

-----------------------------------------------------------------------------
(* The writers.  Mints, burns and params leave what the listings read alone; *)
(* the amounts of a creation are fixed.                                      *)

Create(creator, symbol) == CreateToken(creator, symbol, 1, 1, FALSE) /\ UNCHANGED scan

\* The client of a chain that is started anew begins anew.
Restart == ExportImport /\ scan' = NoScan

QInit == Init /\ scan = NoScan

QNext ==
    \/ \E creator \in User, symbol \in Spelling : Create(creator, symbol)
    \/ \E of \in User \cup {AllCreators}, by \in Way, limit \in Limits : BeginScan(of, by, limit)
    \/ NextPage
    \/ Restart

QSpec == QInit /\ [][QNext]_qvars

\* A client asks for the next page.
QFairSpec == QSpec /\ WF_qvars(NextPage)

-----------------------------------------------------------------------------
(* Properties.                                                              *)

ScanOK == scan \in Scan

\* Whichever spelling a token is looked up by, its symbol and its ID give one answer, the
\* same as the listings show, and no listing of a creator fails on an entry whose token
\* is not found.
LookupsAgree ==
    /\ \A i \in Created, s \in Spelling :
          Lower[s] = SymbolOf(i) => TokenBySymbol(s) = TokenById(i)
    /\ \A u \in User : Listed(u) = {i \in Listed(AllCreators) : metadata[i].creator = u}
    /\ scan.status # "failed"

\* A client that has read a listing to its end has been shown every token that was there
\* when it began, whatever was created meanwhile and wherever its key came to lie: a
\* creation moves the keys behind it to later pages, never to an earlier one.  One that
\* follows NextKey comes to an end only where the first page shows all.
NoneMissed ==
    scan.status = "done" => \A i \in scan.start : \E e \in scan.seen : e[2] = i

\* A client that counts offsets has been shown no token twice, and all in the order of the
\* keys, unless the IDs outgrew their three digits while it read: "token_1000" lies before
\* "token_101".
SeenOnce ==
    scan.by = "offset" /\ (sequence = scan.first \/ sequence < Power[Width]) =>
        \A d, e \in scan.seen :
            /\ d[2] = e[2] => d = e
            /\ d[1] < e[1] => Before(d[2], e[2])

\* A client that counts offsets is never sent to a page that has nothing to show: where
\* TokensByCreator and AllTokens return a NextKey, the next offset lies beyond this one and
\* before the end of the listing, so that no more pages are read than there are tokens.
PagesAdvance ==
    [][NextPage /\ scan.by = "offset" =>
          \/ scan'.status = "done"
          \/ scan.offset < scan'.offset /\ scan'.offset < Cardinality(Listed(scan.of))]_qvars

\* "next_key is the key to be passed to PageRequest.key to query the next page most
\* efficiently.  It will be empty if there are no more results" (docs/static/openapi.json):
\* reading a listing comes to an end, whichever way the client goes on.
ScanEnds == scan.status = "open" ~> scan.status # "open"
=============================================================================
