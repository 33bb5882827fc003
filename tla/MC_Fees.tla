------------------------------ MODULE MC_Fees ------------------------------
(***************************************************************************)
(* A small instance of Fees for TLC.  Prec = 20 makes the 5 % tolerance one *)
(* unit of 1/Prec; Micro = 10.  The transactions cover every category, both *)
(* sides of the tolerance, of the guard rails and of the free gas caps, a   *)
(* granter who pays, gas 0, and both messages that act here.                *)
(***************************************************************************)
EXTENDS Fees

CONSTANTS u1, u2, w1

row(usd, t, r, d, c) ==
    [usd |-> usd, treasury |-> t, retail |-> r, dev |-> d, creator |-> c]

\* DefaultParams: 0.15, 3.0, 1.0, 1.0, 3.0 USD and two free rows.
MCTable ==
    [pos_payment       |-> row(3, 10, 10, 0, 0),
     token_interaction |-> row(60, 10, 0, 10, 0),
     native_transfer   |-> row(20, 20, 0, 0, 0),
     dex_native        |-> row(20, 20, 0, 0, 0),
     dex_user          |-> row(60, 10, 0, 0, 10),
     deploy            |-> row(0, 0, 0, 0, 0),
     wizard            |-> row(0, 0, 0, 0, 0)]

\* The default wallets are placeholders that do not parse.
MCGenesisParams ==
    [mode |-> "hybrid", table |-> MCTable, min |-> 1, max |-> 20,
     maxGasDeploy |-> 5, maxGasWizard |-> 1,
     system |-> {"ibc_fee", "ibc_core"}, exempt |-> {},
     retail |-> NoAddr, dev |-> NoAddr, creator |-> NoAddr]

\* Table mode by default, no minimum gas price, an odd split over wallets that resolve,
\* and a creator wallet that is a blocked module address.
MCOddParams ==
    [MCGenesisParams EXCEPT
        !.table["native_transfer"] = row(20, 10, 5, 5, 0),
        !.table["wizard"] = row(1, 20, 0, 0, 0),
        !.mode = "", !.min = 0, !.retail = w1, !.dev = w1, !.creator = "fees"]

\* A free row whose split is over one: Validate skips the sum when the amount is zero.
MCOverParams ==
    [MCGenesisParams EXCEPT
        !.table["deploy"] = row(0, 20, 20, 0, 0), !.retail = w1,
        !.mode = "gas_only", !.system = {"ibc_fee"}, !.exempt = {"ibc_core"}]

\* Refused by Validate.
MCBadParams == [MCGenesisParams EXCEPT !.table["pos_payment"] = row(3, 10, 9, 0, 0)]

MCParamChoices == {MCOddParams, MCOverParams, MCBadParams}

MCGenesisBal == [a \in Account |-> IF a = u1 THEN 13 ELSE IF a = u2 THEN 20 ELSE 0]
\* None, 2.0, and a first answer of the wrong sign.
MCPrices == {0, 40, -20}

msg(kind) == [kind |-> kind, wraps |-> 0]
BaseTx ==
    [payer |-> u1, granter |-> NoAddr, msgs |-> <<msg("bank_send")>>, memo |-> "",
     fee |-> 0, gas |-> 1, body |-> NoBody]

\* Every way to a category, and for four of them the fees and gas around the limits.
ClassifyTxs ==
    {[BaseTx EXCEPT !.msgs = c[1], !.memo = c[2], !.fee = f, !.gas = g] :
        c \in {<<<<msg("bank_send")>>, "">>, <<<<msg("ibc_core")>>, "">>,
               <<<<msg("ibc_core"), msg("bank_send")>>, "">>,
               <<<<msg("other"), msg("store_code")>>, "">>,
               <<<<msg("ibc_core")>>, "pos">>, <<<<msg("bank_send")>>, "wizard">>},
        f \in {0, 10, 19}, g \in {1, 6}}
    \cup
    {[BaseTx EXCEPT !.msgs = <<m>>, !.fee = f] :
        m \in {[kind |-> "ibc_fee", wraps |-> 4], [kind |-> "ibc_fee", wraps |-> 5],
               msg("ics20_transfer"), msg("execute"), msg("execute_dex"), msg("migrate")},
        f \in {0, 10}}
    \cup
    {[BaseTx EXCEPT !.memo = memo, !.fee = f] :
        memo \in {"dex", "dex native", "deploy"}, f \in {0, 10}}
    \cup
    {[BaseTx EXCEPT !.memo = memo, !.fee = 3] : memo \in {"pos", "deploy"}}
    \cup
    {[BaseTx EXCEPT !.payer = u2, !.fee = 19, !.gas = 6]}
    \cup
    {[BaseTx EXCEPT !.fee = f, !.gas = 0] : f \in {0, 10}}

GrantTxs ==
    {[BaseTx EXCEPT !.payer = p, !.granter = g, !.fee = 10] :
        p \in {u1, u2}, g \in {u1, u2}}

BodyTxs ==
    {[BaseTx EXCEPT !.payer = u2, !.msgs = <<msg("other")>>, !.fee = 10, !.gas = 10, !.body = b] :
        b \in {[op |-> "charge", category |-> c, md |-> [NoMetadata EXCEPT !.dev = d]] :
                    c \in {"pos_payment", "dex_native", "deploy", "mixed"}, d \in {NoAddr, w1}}
              \cup {[op |-> "price", price |-> v] : v \in {-1, 40}}}

MCTxs == ClassifyTxs \cup GrantTxs \cup BodyTxs
=============================================================================
