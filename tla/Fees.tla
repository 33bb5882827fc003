-------------------------------- MODULE Fees --------------------------------
(***************************************************************************)
(* x/fees as app.go wires it: every transaction passes FeeAnteHandler, then *)
(* DeductFeeDecorator, then the zero-gas chain of ante.go; MsgChargeFee     *)
(* charges a fee in a message; governance changes the params; the price     *)
(* comes from x/oracle.                                                     *)
(*                                                                          *)
(* A transaction is atomic in two parts, as in BaseApp.runTx: when the ante *)
(* chain fails nothing is written; when it passes its writes stay, and the  *)
(* message's writes are kept only if the message succeeds.  The ledger is   *)
(* the bank module's, in the single denom ucsv.                             *)
(***************************************************************************)
EXTENDS FeeTable, Sequences, FiniteSets

CONSTANTS
    User,          \* accounts that sign transactions
    Wallet,        \* other plain accounts, possible recipients of shares
    NoAddr,        \* an address that is absent or does not parse
    NoParams,      \* Params.Get before InitGenesis of x/fees
    Authority,     \* the gov module address
    GenesisBal,    \* balances at genesis
    ParamChoices,  \* params that may be proposed (checked by Validate)
    GenesisParams, \* params of the genesis file
    Prices,        \* CSV per USD a feed may leave in x/oracle, of any sign (0: none)
    Txs            \* transactions that may be submitted

Modules == {"fees", "treasury", "fee_collector"}
Account == User \cup Wallet \cup Modules

\* Addresses a module account may not pay to (blockAccAddrs in app_config.go).
Blocked == {"fees", "fee_collector"}

\* bankKeeper.BlockedAddr is only asked when a module pays an account.
VARIABLES
    params,     \* x/fees params, or NoParams
    csvPerUSD,  \* x/oracle's CSVPerUSD item, 0 when unset
    bal,        \* bank balances
    last        \* what the last step did: the fee_charged event and the outcome

vars == <<params, csvPerUSD, bal, last>>

MsgKinds == {"bank_send", "store_code", "execute", "execute_dex", "migrate",
             "ics20_transfer", "ibc_core", "ibc_fee", "other"}

Modes == {"", "table", "hybrid", "gas_only"}

Split == [usd : Int, treasury : Int, retail : Int, dev : Int, creator : Int]

ParamType ==
    [mode : Modes, table : [Rows -> Split], min : Int, max : Int,
     maxGasDeploy : Nat, maxGasWizard : Nat,
     system : SUBSET MsgKinds, exempt : SUBSET MsgKinds,
     retail : Account \cup {NoAddr}, dev : Account \cup {NoAddr},
     creator : Account \cup {NoAddr}]

Msg == [kind : MsgKinds, wraps : Nat]

\* What the message does: nothing this module sees, MsgChargeFee or MsgSetPrice.
NoBody == [op |-> "none"]
MetadataType == [retail : Account \cup {NoAddr}, dev : Account \cup {NoAddr},
                 creator : Account \cup {NoAddr}]
BodyType == {NoBody}
            \cup [op : {"charge"}, category : Categories \cup Rows, md : MetadataType]
            \cup [op : {"price"}, price : Int]

TxType == [payer : User, granter : User \cup {NoAddr}, msgs : Seq(Msg),
           memo : {"", "pos", "dex", "dex native", "deploy", "wizard"},
           fee : Nat, gas : Nat, body : BodyType]

ASSUME FeesAssumption ==
    /\ NoAddr \notin Account
    /\ NoParams \notin ParamType
    /\ User \cap Modules = {} /\ Wallet \cap Modules = {}
    /\ GenesisBal \in [Account -> Nat]
    /\ ParamChoices \subseteq ParamType
    /\ GenesisParams \in ParamType
    /\ Prices \subseteq Int
    /\ Txs \subseteq TxType

-----------------------------------------------------------------------------
(* Bank transfers over a partial result: a failed step keeps ok FALSE.      *)

Result(b) == [ok |-> TRUE, bal |-> b]

\* A negative coin panics, an uncovered one is refused; both fail the transaction.
Send(r, from, to, amount) ==
    IF r.ok /\ amount >= 0 /\ amount <= r.bal[from]
    THEN [ok |-> TRUE,
          bal |-> [a \in Account |-> r.bal[a]
                                     - (IF a = from THEN amount ELSE 0)
                                     + (IF a = to THEN amount ELSE 0)]]
    ELSE [ok |-> FALSE, bal |-> r.bal]

-----------------------------------------------------------------------------
(* Classification (fee_calculator.go).                                      *)

\* expandMessages peels at most four authz MsgExec layers.
ExpandLimit == 4
ExpandMessage(m) == IF m.wraps <= ExpandLimit THEN m.kind ELSE "other"
ExpandMessages(msgs) == [i \in DOMAIN msgs |-> ExpandMessage(msgs[i])]

IsSystemMsg(p, kind) ==
    /\ kind # "ics20_transfer"
    /\ \/ kind \in p.system
       \/ kind \notin p.exempt /\ kind = "ibc_core"

\* The category a recognised message type stands for; "" for the others.
CategoryOfKind(kind) ==
    CASE kind = "bank_send" -> "native_transfer"
      [] kind = "store_code" -> "deploy"
      [] kind = "execute_dex" -> "dex_user"
      [] kind \in {"execute", "migrate"} -> "token_interaction"
      [] OTHER -> ""

CategoryOfMemo(memo) ==
    CASE memo = "pos" -> "pos"
      [] memo = "dex" -> "dex_user"
      [] memo = "dex native" -> "dex_native"
      [] memo \in {"deploy", "wizard"} -> memo
      [] OTHER -> ""

\* The memo decides first, then the share of system messages, then the first
\* message of a recognised type.
ClassifyTransaction(p, tx) ==
    LET kinds == ExpandMessages(tx.msgs)
        sys   == {i \in DOMAIN kinds : IsSystemMsg(p, kinds[i])}
        known == {i \in DOMAIN kinds : CategoryOfKind(kinds[i]) # ""}
    IN  IF CategoryOfMemo(tx.memo) # "" THEN CategoryOfMemo(tx.memo)
        ELSE IF sys # {} THEN (IF sys = DOMAIN kinds THEN "system" ELSE "mixed")
        ELSE IF known # {}
             THEN CategoryOfKind(kinds[CHOOSE i \in known : \A j \in known : i <= j])
        ELSE "native_transfer"

-----------------------------------------------------------------------------
(* Distribution (keeper.go).                                                *)

\* A recipient: metadata first, then the param.  The developer's and the creator's
\* metadata addresses stand in for one another.
FirstAddr(a, b) == IF a # NoAddr THEN a ELSE b

\* Mutation: the wallets of the params are not a fallback.
RecipientsNoFallback(p, md) ==
    [retail |-> md.retail, dev |-> FirstAddr(md.dev, md.creator),
     creator |-> FirstAddr(md.creator, md.dev)]

Recipients(p, md) ==
    [retail  |-> FirstAddr(md.retail, p.retail),
     dev     |-> FirstAddr(FirstAddr(md.dev, md.creator), p.dev),
     creator |-> FirstAddr(FirstAddr(md.creator, md.dev), p.creator)]

\* Mutation: shares of recipients without an address are not sent anywhere.
RemapToNobody(s, to) ==
    [treasury |-> s.treasury,
     retail   |-> IF to.retail = NoAddr THEN 0 ELSE s.retail,
     dev      |-> IF to.dev = NoAddr THEN 0 ELSE s.dev,
     creator  |-> IF to.creator = NoAddr THEN 0 ELSE s.creator]

\* Shares of recipients without an address go to the treasury.
Remap(s, to) ==
    LET lostRetail  == IF to.retail = NoAddr THEN s.retail ELSE 0
        lostDev     == IF to.dev = NoAddr THEN s.dev ELSE 0
        lostCreator == IF to.creator = NoAddr THEN s.creator ELSE 0
    IN  [treasury |-> s.treasury + lostRetail + lostDev + lostCreator,
         retail   |-> s.retail - lostRetail,
         dev      |-> s.dev - lostDev,
         creator  |-> s.creator - lostCreator]

NoMetadata == [retail |-> NoAddr, dev |-> NoAddr, creator |-> NoAddr]

\* Paying one share: nothing for a zero share; a module account cannot pay a
\* blocked address.
PayShare(r, from, to, amount) ==
    IF amount = 0 \/ to = NoAddr THEN r
    ELSE IF from = "fees" /\ to \in Blocked THEN [ok |-> FALSE, bal |-> r.bal]
    ELSE Send(r, from, to, amount)

\* Treasury, retail wallet, developer, creator, in this order.
Distribute(r, p, from, row, amount, md) ==
    LET to == Recipients(p, md)
        s  == Remap(Shares(p.table[row], amount), to)
        r1 == Send(r, from, "treasury", s.treasury)
        r2 == PayShare(r1, from, to.retail, s.retail)
        r3 == PayShare(r2, from, to.dev, s.dev)
    IN  PayShare(r3, from, to.creator, s.creator)

DistributeFee(r, p, sender, feeType, amount, md) ==
    Distribute(r, p, sender, AccountSplitRow(feeType), amount, md)

DistributeFeeFromModule(r, p, feeType, amount) ==
    IF p = NoParams THEN [ok |-> FALSE, bal |-> r.bal]
    ELSE Distribute(r, p, "fees", ModuleSplitRow(feeType), amount, NoMetadata)

-----------------------------------------------------------------------------
(* The ante chain (ante_handler.go, app.go).                                *)

\* FeeAnteHandler.AnteHandle up to its call of next: whether it lets the
\* transaction through, and the estimate it put into the context (system
\* transactions return before that, params that are not set fail open).
FeeAnte(p, price, tx) ==
    IF p = NoParams
    THEN [ok |-> TRUE, cat |-> "unset", feeType |-> "native_transfer"]
    ELSE LET cat   == ClassifyTransaction(p, tx)
             est   == EstimateFee(p, price, cat, tx.gas)
             valid == ValidateFeeAgainstEstimate(tx.fee, est)
         IN  [ok |-> /\ est.ok
                     /\ \/ p.mode = "gas_only"
                        \/ p.mode = "hybrid" /\ cat = "system"
                        \/ valid,
              cat |-> cat,
              feeType |-> IF cat = "system" THEN "native_transfer" ELSE cat]

FeeSource(tx) == IF tx.granter # NoAddr THEN tx.granter ELSE tx.payer

\* DeductFeeDecorator.AnteHandle: the fee moves to the fees account and is split.
DeductFee(r, p, tx, feeType) ==
    IF tx.fee = 0 THEN r
    ELSE DistributeFeeFromModule(Send(r, FeeSource(tx), "fees", tx.fee), p, feeType, tx.fee)

\* Mutation: the chain behind DeductFeeDecorator is the SDK's own, which deducts the fee
\* for the fee collector.
BaseAnteDeducting(r, tx) == Send(r, FeeSource(tx), "fee_collector", tx.fee)

\* The chain of NewAnteHandler, which setAnteHandler installs before app.go reads it: an
\* infinite gas meter, no deduction and no look at an allowance, so it moves no coins.
\* A decorator of it that refuses the transaction leaves no trace.
BaseAnte(r, tx) == r

Ante(tx) ==
    LET fa == FeeAnte(params, csvPerUSD, tx)
    IN  IF fa.ok
        THEN BaseAnte(DeductFee(Result(bal), params, tx, fa.feeType), tx)
        ELSE [ok |-> FALSE, bal |-> bal]

-----------------------------------------------------------------------------
(* MsgChargeFee (msg_server_charge_fee.go).                                 *)

\* The amount: no guard rails and no minimum here, unlike the ante's estimate.
ChargeAmount(p, price, category) ==
    TruncateInt(ConvertUSDToCSV(p.table[category].usd, price) * Micro)

\* Mutation: the fee is booked without a look at what the sender has.
ChargeFeeUncovered(r, p, price, sender, category, md) ==
    IF p = NoParams \/ category \notin Rows THEN [ok |-> FALSE, bal |-> r.bal]
    ELSE LET amount == ChargeAmount(p, price, category)
         IN  [r EXCEPT !.bal[sender] = @ - amount, !.bal["treasury"] = @ + amount]

\* The fee is also consumed as gas, of a meter without a limit.  A negative coin, which a
\* negative price leads to, panics.
ChargeFee(r, p, price, sender, category, md) ==
    IF p = NoParams \/ category \notin Rows THEN [ok |-> FALSE, bal |-> r.bal]
    ELSE IF category \in {"deploy", "wizard"} THEN r
    ELSE LET amount == ChargeAmount(p, price, category)
             paid   == DistributeFee(r, p, sender, category, amount, md)
         IN  IF r.bal[sender] < amount \/ amount < 0
             THEN [ok |-> FALSE, bal |-> r.bal]
             ELSE paid

-----------------------------------------------------------------------------
(* MsgSetPrice (x/oracle msg_server_set_price.go).                          *)

\* A price that is not positive is reported as success and ignored: the handler wraps
\* a nil error.
SetPrice(current, price) == IF price > 0 THEN price ELSE current

-----------------------------------------------------------------------------
(* Params validation (types/params.go).                                     *)

ValidSplit(row) ==
    row.usd >= 0 /\ (row.usd # 0 => ShareSum(row) = Prec)

Validate(p) ==
    \/ /\ p.mode = "" /\ p.table["pos_payment"].usd = 0
       /\ p.system = {} /\ p.exempt = {}
    \/ /\ \A row \in Rows : ValidSplit(p.table[row])
       /\ 0 <= p.min /\ p.min <= p.max
       /\ p.maxGasWizard > 0 /\ p.maxGasDeploy > 0
       /\ p.mode \in Modes
       /\ p.system \cap p.exempt = {}

-----------------------------------------------------------------------------
(* Behaviour.                                                               *)

Idle == [op |-> "none"]

Init ==
    /\ params = NoParams
    /\ csvPerUSD = 0
    /\ bal = GenesisBal
    /\ last = Idle

\* x/fees InitGenesis: after genutil has delivered the genesis transactions.
InitGenesis ==
    /\ params = NoParams
    /\ params' = GenesisParams
    /\ last' = Idle
    /\ UNCHANGED <<csvPerUSD, bal>>

\* A transaction whose ante chain passes; its message succeeds or is reverted.
DeliverTx(tx) ==
    LET ante == Ante(tx)
        fa   == FeeAnte(params, csvPerUSD, tx)
        body == IF tx.body.op = "charge"
                THEN ChargeFee(ante, params, csvPerUSD, tx.payer, tx.body.category,
                               tx.body.md)
                ELSE ante
    IN  /\ ante.ok
        /\ last' = [op |-> "tx", cat |-> fa.cat, payer |-> tx.payer, from |-> FeeSource(tx),
                     fee |-> tx.fee, gas |-> tx.gas, body |-> tx.body.op]
        /\ \/ /\ body.ok
              /\ bal' = body.bal
              /\ csvPerUSD' = IF tx.body.op = "price"
                              THEN SetPrice(csvPerUSD, tx.body.price) ELSE csvPerUSD
           \/ /\ bal' = ante.bal
              /\ csvPerUSD' = csvPerUSD
        /\ UNCHANGED params

\* MsgUpdateParams, executed by governance.
UpdateParams(signer, p) ==
    /\ params # NoParams
    /\ signer = Authority
    /\ Validate(p)
    /\ params' = p
    /\ last' = Idle
    /\ UNCHANGED <<csvPerUSD, bal>>

\* x/oracle's price changes outside a user transaction (an ICQ or price feed result).
OraclePrice(price) ==
    /\ csvPerUSD' = price
    /\ last' = Idle
    /\ UNCHANGED <<params, bal>>

Next ==
    \/ InitGenesis
    \/ \E tx \in Txs : DeliverTx(tx)
    \/ \E signer \in User \cup {Authority}, p \in ParamChoices : UpdateParams(signer, p)
    \/ \E price \in Prices : OraclePrice(price)

Spec == Init /\ [][Next]_vars

-----------------------------------------------------------------------------
(* Properties.                                                              *)

LastType ==
    {Idle} \cup [op : {"tx"}, cat : Categories \cup {"unset"}, payer : User, from : User,
                 fee : Nat, gas : Nat, body : {"none", "charge", "price"}]

\* Params are unset or complete, and no balance falls below zero through the fee path,
\* at whatever price the oracle holds.
TypeOK ==
    /\ params \in ParamType \cup {NoParams}
    /\ csvPerUSD \in Int
    /\ bal \in [Account -> Nat]
    /\ last \in LastType

\* A fee is paid out of what it brought in: whatever splits the params hold (those of
\* rows without a USD amount are not validated), no distribution draws on dust or on
\* fees that earlier transactions left in the fees module account.
NeverOverdraws == [][bal'["fees"] >= bal["fees"]]_vars

\* A split that adds up to one with no negative part.
WholeSplit(row) ==
    /\ row.treasury >= 0 /\ row.retail >= 0 /\ row.dev >= 0 /\ row.creator >= 0
    /\ ShareSum(row) = Prec

\* The row the last transaction's fee was split by.
SplitRow(p, l) == ModuleSplitRow(IF l.cat = "system" THEN "native_transfer" ELSE l.cat)

\* Truncation strands at most three units per fee in the fees module account, whatever
\* the amount, the price and the recipients that resolve: four truncated shares of a
\* split that adds up to one lose less than four units.
DustBounded ==
    [][/\ last'.op = "tx" /\ params # NoParams
       /\ WholeSplit(params.table[SplitRow(params, last')])
       /\ last'.body = "none"
       => bal'["fees"] - bal["fees"] <= 3]_vars

\* The truncated shares of a fee that an account receives in the roles the params give
\* it, and those that go to any account but a module's.
Receives(p, row, fee, a) ==
    LET share(part, to) == IF to = a THEN TruncateInt(part * fee) ELSE 0
    IN  share(row.retail, p.retail) + share(row.dev, p.dev) + share(row.creator, p.creator)

PaidOut(p, row, fee) ==
    LET share(part, to) == IF to \in User \cup Wallet THEN TruncateInt(part * fee) ELSE 0
    IN  share(row.retail, p.retail) + share(row.dev, p.dev) + share(row.creator, p.creator)

\* The accounts of a fee: every account receives exactly the truncated shares of the
\* roles the params give it, also when other recipients do not resolve or when one
\* account has two roles, and the payer loses exactly the fee; what is left is in the
\* treasury but for the dust in the fees account, so that no coin appears or vanishes.
WalletsPaid ==
    [][/\ last'.op = "tx" /\ params # NoParams /\ last'.body # "charge"
       => LET row == params.table[SplitRow(params, last')]
          IN  /\ \A a \in User \cup Wallet :
                    bal'[a] = bal[a] + Receives(params, row, last'.fee, a)
                                     - (IF a = last'.from THEN last'.fee ELSE 0)
              /\ bal'["treasury"] + bal'["fees"]
                    = bal["treasury"] + bal["fees"]
                      + last'.fee - PaidOut(params, row, last'.fee)]_vars

\* The USD price of the table in CSV, kept within the guard rails, which gas 0 has none of.
DueCSV(p, price, cat, gas) ==
    LET csv == ConvertUSDToCSV(p.table[EstimateRow(cat)].usd, price)
    IN  IF gas = 0 THEN csv
        ELSE IF csv > p.max * gas THEN p.max * gas ELSE IF csv < p.min * gas THEN p.min * gas ELSE csv

\* Outside gas-only mode a user transaction pays what the table asks, at the oracle's
\* price of that moment and within the guard rails: at least 95 % of it and at most
\* 105 %, up to one unit of rounding and the part of a gas price below 1/Prec; the free
\* categories pay nothing and keep below their gas cap.  A price below zero, which gas 0
\* has no guard rail against, lets through the smallest fee only, or none at all.  Where
\* the table asks nothing and the category is not free, the code accepts any fee, and there
\* is no upper bound.  The category is the one ClassifyTransaction gives.
PaysTheTable ==
    [][/\ last'.op = "tx" /\ params # NoParams
       /\ params.mode # "gas_only" /\ last'.cat # "system"
       /\ 0 <= params.min /\ params.min <= params.max
       => LET free == last'.cat \in {"deploy", "wizard"}
                      /\ params.table[last'.cat].usd = 0
              due  == DueCSV(params, csvPerUSD, last'.cat, last'.gas) * Micro
          IN  IF free
              THEN last'.fee = 0 /\ last'.gas <= MaxGasForFreeCategory(params, last'.cat)
              ELSE /\ 100 * Prec * (last'.fee + 1) >= 95 * due
                   /\ due > 0 =>
                      100 * Prec * (last'.fee - 1) <= 105 * (due + last'.gas * Micro)
                   /\ due < 0 => last'.fee = 1]_vars

\* README of x/fees: "Fees are predictable and flat per category".  Through the ante chain
\* the account named to pay loses no more than the fee it offered and the ante handler
\* validated, once, and nobody else loses anything but the signer of a MsgChargeFee.
FlatFee ==
    [][\A a \in User \cup Wallet :
         bal'[a] < bal[a] =>
            /\ last'.op = "tx"
            /\ \/ a = last'.from /\ bal[a] - bal'[a] <= last'.fee
               \/ a = last'.payer /\ last'.body = "charge"]_vars

Gases == {tx.gas : tx \in Txs}

\* A wallet that builds its fee from the estimate is never refused for the fee: building
\* and validating agree for every category, gas and price, and the tolerance can not
\* exclude the exact amount.  Only an estimate below zero has no fee to match it.
QuoteAccepted ==
    params # NoParams =>
        \A cat \in Categories, gas \in Gases :
            LET est == EstimateFee(params, csvPerUSD, cat, gas)
            IN  est.ok /\ est.csv >= 0 =>
                    ValidateFeeAgainstEstimate(BuildFeeFromEstimate(est), est)

\* The guard rails shield the users from the oracle, which takes a first price of any
\* sign: with a positive minimum every estimate that is not free lies between the
\* minimum and the maximum gas price, be the price negative, absent or huge.
GuardRailsHold ==
    params # NoParams /\ 0 < params.min /\ params.min <= params.max =>
        \A cat \in Categories, gas \in Gases \ {0} :
            LET est == EstimateFee(params, csvPerUSD, cat, gas)
            IN  est.ok /\ ~est.free =>
                    params.min * gas <= est.csv /\ est.csv < (params.max + 1) * gas

-----------------------------------------------------------------------------
(* What documents and comments say of the code, and the code does not do.   *)

\* draft.md and DefaultParams give the retail wallet half of a POS payment's fee: with a
\* retail wallet configured, a POS fee pays it its share.
RetailerPaid ==
    [][/\ last'.op = "tx" /\ last'.cat = "pos" /\ last'.body = "none"
       /\ params.retail \in Wallet
       => bal'[params.retail] - bal[params.retail]
            >= TruncateInt(params.table["pos_payment"].retail * last'.fee)]_vars
=============================================================================
