----------------------------- MODULE OsmosisIcq -----------------------------
(***************************************************************************)
(* x/osmosisicq on x/icqcontroller and x/oracle: BeginBlock asks Osmosis    *)
(* for the TWAP record and the GAMM pool when they are due, and each answer *)
(* is normalised, guarded and persisted as the oracle's price.              *)
(* An oracle without a price reads as zero (GetCSVPerUSD).                  *)
(*                                                                          *)
(* The module is taken as ProvideModule wires it.  icq_async_provider.go    *)
(* registers types.Module a second time with a provider of the client only. *)
(***************************************************************************)
EXTENDS IcqController, Decimal

CONSTANTS
    ParamChoices,    \* params that may be proposed, valid or not
    GenesisParams,
    OraclePrices,    \* prices an account may submit to x/oracle
    NoQuery,         \* no query ID is recorded
    Faults,          \* what may go wrong around the module in this instance
    MaxTime          \* bound: block time

\* Params as they may be proposed, and as they may be stored.
Proposal ==
    [conn : Connection \cup {""}, interval : Nat, useTwap : BOOLEAN, window : Nat,
     pair : {"ucsv/uusdc", "other"}, minLiq : Int, maxDev : Int]
ParamType == {p \in Proposal : p.maxDev \in Nat}

\* Mutation: a proposal is stored as it comes.
ValidateNothing(p) == TRUE

Validate(p) == (p.useTwap => p.window > 0) /\ p.maxDev >= 0

Fault == {"close", "client", "slow", "host", "import"}

\* No block time: an unset LastUpdate, NextUpdate or LastResultTime.
NoTime == -1
Time   == Nat \cup {NoTime}

ASSUME OsmosisAssumption ==
    /\ GenesisParams \in ParamType /\ ParamChoices \subseteq Proposal
    /\ OraclePrices \subseteq Int
    /\ NoQuery \notin Key
    /\ Faults \subseteq Fault
    /\ MaxTime \in Nat

VARIABLES
    params,
    lastUpdate, nextUpdate,  \* the scheduler's times
    lastResultTime,
    queryIDs,                \* the last query registered under each name
    csvPrice                 \* x/oracle: CSV per USD

feedVars == <<params, lastUpdate, nextUpdate, lastResultTime, queryIDs, csvPrice>>
vars == <<icqVars, feedVars>>

-----------------------------------------------------------------------------
(* Scheduling (keeper/keeper.go).                                           *)

\* Mutation: the queries go out one second early.
DueEarly(time) ==
    /\ params.interval > 0
    /\ nextUpdate # NoTime => time + 1 >= nextUpdate

\* NextUpdate decides; LastUpdate only in a store that has no NextUpdate yet.
Due(time) ==
    /\ params.interval > 0
    /\ IF nextUpdate # NoTime
       THEN time >= nextUpdate
       ELSE lastUpdate # NoTime => time >= lastUpdate + params.interval

\* RegisterKVQuery of a query by its name, and the ID kept when it was sent.
RegisterKVQuery(r, name, store, up, time) ==
    LET s    == SendKVQuery(r.s, params.conn, store, up, time)
        ch   == active[params.conn]
        sent == s.nextSeq # r.s.nextSeq
    IN  [s |-> s, ids |-> IF sent THEN [r.ids EXCEPT ![name] = <<ch, r.s.nextSeq[ch]>>] ELSE r.ids]

\* TWAP first, and the pool in any case.
RegisterQueries(up, time) ==
    LET r0 == [s |-> [pending |-> pending, commit |-> commit, nextSeq |-> nextSeq],
               ids |-> queryIDs]
        r1 == IF params.useTwap THEN RegisterKVQuery(r0, "twap", "twap", up, time) ELSE r0
    IN  IF params.conn = "" THEN r0 ELSE RegisterKVQuery(r1, "spot", "gamm", up, time)

\* The schedule moves on whether or not the queries could be sent.
ScheduleQueriesIfDue(up, time) ==
    IF ~Due(time)
    THEN UNCHANGED <<nextSeq, commit, pending, lastUpdate, nextUpdate, queryIDs>>
    ELSE LET r == RegisterQueries(up, time)
         IN  /\ pending' = r.s.pending /\ commit' = r.s.commit /\ nextSeq' = r.s.nextSeq
             /\ queryIDs' = r.ids
             /\ lastUpdate' = time
             /\ nextUpdate' = time + params.interval

\* A relayer that is not slow gets a packet to the host before it expires.
Relayed(time) ==
    \A k \in DOMAIN commit : commit[k].reply = NoReply => time < commit[k].sentAt + QueryTimeout

BeginBlock(up) ==
    /\ now < MaxTime
    /\ up \/ "client" \in Faults
    /\ "slow" \in Faults \/ Relayed(now + 1)
    /\ now' = now + 1
    /\ ScheduleQueriesIfDue(up, now + 1)
    /\ UNCHANGED <<chan, active, params, lastResultTime, csvPrice>>

-----------------------------------------------------------------------------
(* Results (keeper/keeper.go, keeper/decode.go).                            *)

\* With the params of the moment of the answer, not of the question.
NormalizeToCSVPerUSD(price) ==
    IF params.pair = "ucsv/uusdc" /\ price # 0 THEN Quo(One, price) ELSE price

LiquidityOk(liquidity) == (IF liquidity < 0 THEN 0 ELSE liquidity) >= params.minLiq

\* Mutation: the deviation keeps its sign, so that no fall is too deep.
DeviationOkSigned(price) ==
    csvPrice # 0 /\ params.maxDev > 0 => Quo(price - csvPrice, csvPrice) <= params.maxDev

\* Divided by the old price as it is, whose sign the deviation then has.
DeviationOk(price) ==
    csvPrice # 0 /\ params.maxDev > 0 => Quo(Abs(price - csvPrice), csvPrice) <= params.maxDev

ValidateAndPersistPrice(price, liquidity) ==
    IF LiquidityOk(liquidity) /\ DeviationOk(price)
    THEN csvPrice' = price /\ lastResultTime' = now
    ELSE UNCHANGED <<csvPrice, lastResultTime>>

\* OnKVResult: HandleTwapResult and HandleSpotResult do the same.
OnKVResult(value) ==
    ValidateAndPersistPrice(NormalizeToCSVPerUSD(value.price), value.liquidity)

OnAcknowledgementPacket(k) ==
    /\ HandlePacketAcknowledgement(k)
    /\ IF AckOutcome(k) = "delivered"
       THEN OnKVResult(commit[k].reply)
       ELSE UNCHANGED <<csvPrice, lastResultTime>>
    /\ UNCHANGED <<params, lastUpdate, nextUpdate, queryIDs>>

-----------------------------------------------------------------------------
(* Governance, x/oracle's own message, and genesis.                         *)

UpdateParams(p) ==
    /\ Validate(p)
    /\ params' = p
    /\ UNCHANGED <<icqVars, lastUpdate, nextUpdate, lastResultTime, queryIDs, csvPrice>>

\* Any account may set the price.  One that is not positive changes nothing,
\* and is no error either.
SetPrice(price) ==
    /\ price > 0
    /\ csvPrice' = price
    /\ UNCHANGED <<icqVars, params, lastUpdate, nextUpdate, lastResultTime, queryIDs>>

\* The three modules export their params only.
ExportImport ==
    /\ "import" \in Faults
    /\ ExportImportIcq
    /\ lastUpdate' = NoTime /\ nextUpdate' = NoTime /\ lastResultTime' = NoTime
    /\ queryIDs' = [n \in {"twap", "spot"} |-> NoQuery]
    /\ csvPrice' = 0
    /\ UNCHANGED params

-----------------------------------------------------------------------------
\* A chain may start from a store of before NextUpdate was kept.
Init ==
    /\ IcqInit
    /\ params = GenesisParams
    /\ lastUpdate \in {NoTime, 0}
    /\ nextUpdate = NoTime /\ lastResultTime = NoTime
    /\ queryIDs = [n \in {"twap", "spot"} |-> NoQuery]
    /\ csvPrice = 0

Handshake ==
    \E ch \in Channel :
        \/ \E conn \in Connection, order \in Order, version \in Versions :
              \/ OnChanOpenInit(ch, conn, order, version)
              \/ OnChanOpenTry(ch, conn, order, version)
        \/ \E version \in Versions : OnChanOpenAck(ch, version)
        \/ OnChanOpenConfirm(ch)
        \/ "close" \in Faults /\ OnChanCloseConfirm(ch)

Relay ==
    \E k \in DOMAIN commit :
        \/ \E reply \in Reply : (reply \in Answer \/ "host" \in Faults) /\ HostRecv(k, reply)
        \/ HandlePacketTimeout(k)

Next ==
    \/ \E up \in BOOLEAN : BeginBlock(up)
    \/ Handshake /\ UNCHANGED feedVars
    \/ Relay /\ UNCHANGED feedVars
    \/ \E k \in DOMAIN commit : OnAcknowledgementPacket(k)
    \/ \E p \in ParamChoices : UpdateParams(p)
    \/ \E price \in OraclePrices : SetPrice(price)
    \/ ExportImport

Spec == Init /\ [][Next]_vars

(* Blocks are produced, a started handshake is completed, the host answers, *)
(* and the relayer delivers answers and timeouts.                           *)
Fairness ==
    /\ WF_vars(BeginBlock(TRUE))
    /\ \A ch \in Channel :
          /\ WF_vars(OnChanOpenAck(ch, Version) /\ UNCHANGED feedVars)
          /\ WF_vars(OnChanOpenConfirm(ch) /\ UNCHANGED feedVars)
    /\ WF_vars((\E k \in DOMAIN commit, r \in Answer : HostRecv(k, r)) /\ UNCHANGED feedVars)
    /\ WF_vars((\E k \in DOMAIN commit : HandlePacketTimeout(k)) /\ UNCHANGED feedVars)
    /\ WF_vars(\E k \in DOMAIN commit : OnAcknowledgementPacket(k))

FairSpec == Spec /\ Fairness

-----------------------------------------------------------------------------
\* The stores hold what their codecs write, keys of the correlations are channel and
\* sequence, and no params with a negative deviation are ever in force.
TypeOK ==
    /\ now \in Nat
    /\ chan \in [Channel -> ChannelEnd]
    /\ nextSeq \in [Channel -> Nat \ {0}]
    /\ DOMAIN commit \subseteq Key /\ \A k \in DOMAIN commit : commit[k] \in Packet
    /\ active \in [Connection -> Channel \cup {NoChannel}]
    /\ DOMAIN pending \subseteq Key /\ \A k \in DOMAIN pending : pending[k] \in Query
    /\ params \in ParamType
    /\ lastUpdate \in Time /\ nextUpdate \in Time /\ lastResultTime \in Time
    /\ queryIDs \in [{"twap", "spot"} -> Key \cup {NoQuery}]
    /\ csvPrice \in Int

\* Every correlation the controller keeps is that of a packet in flight, and
\* says what that packet asked and over which connection: a send that failed,
\* an acknowledgement, a timeout or a closed channel leaves none behind.
PendingInFlight ==
    \A k \in DOMAIN pending :
        /\ k \in DOMAIN commit
        /\ pending[k].store = commit[k].store
        /\ pending[k].conn = chan[k[1]].conn

\* The mapping the queries go by names a channel of that very connection which a
\* handshake brought into being, and never an unordered one that is closed, in whatever
\* order handshakes and closes of several channels interleave.  An ordered channel may be
\* closed and still be named: IBC core closes it when a packet of it expires, without a
\* callback, and the queries fail until the next handshake.
MappedAlive ==
    \A c \in Connection :
        LET ch == active[c]
        IN  ch # NoChannel =>
                /\ chan[ch].conn = c
                /\ chan[ch].state # "NONE"
                /\ chan[ch].state = "CLOSED" => chan[ch].order = "ORDERED"

\* No answer is lost on its way to the consumer: while a packet is in flight
\* its correlation stays, whatever becomes of its channel and however often an
\* acknowledgement of it fails.  Only an imported genesis forgets.
NotForgotten ==
    [][\A k \in DOMAIN pending :
          k \in DOMAIN commit' => k \in DOMAIN pending' \/ ExportImport]_vars

\* Two queries of one store that wait for their answers were asked at least
\* the shortest interval of all params apart, however params changed between.
Paced ==
    \A j, k \in DOMAIN pending :
        j # k /\ pending[j].store = pending[k].store =>
            \E p \in ParamChoices \cup {GenesisParams} :
                /\ p.interval > 0
                /\ Abs(commit[j].sentAt - commit[k].sentAt) >= p.interval

\* While the deviation allowed is below one, a positive price stays positive:
\* no answer, late or wrong, makes it zero or negative.
StaysPositive ==
    [][csvPrice > 0 /\ 0 < params.maxDev /\ params.maxDev < One =>
          csvPrice' > 0 \/ ExportImport]_vars

\* An answer that can never be taken: the channel closed before it came, or
\* decoding it, or one before it on an ordered channel, fails each time.
Stuck(k) ==
    \/ commit[k].reply # NoReply /\ chan[k[1]].state = "CLOSED"
    \/ commit[k].reply.kind = "undecodable"
    \/ /\ chan[k[1]].order = "ORDERED"
       /\ \E j \in Earlier(k) : commit[j].reply.kind = "undecodable"

\* A query that is waiting is settled in the end by its answer or its timeout,
\* unless its answer is stuck.
\* (A block sends two packets at most, so these k are all that expire in time.)
Settled ==
    \A k \in Channel \X (1 .. 2 * (MaxTime - QueryTimeout)) :
        (k \in DOMAIN pending \cap DOMAIN commit /\ commit[k].sentAt + QueryTimeout <= MaxTime)
        ~> \/ k \notin DOMAIN pending
           \/ k \in DOMAIN commit /\ Stuck(k)

\* "Jalankan Hermes, pastikan harga non-fallback" (docs/pricefeed-icq-v10.md):
\* with an open channel on the configured connection, and an interval left
\* before the bound, the oracle gets a price to be used instead of the fallback,
\* unless the counterparty closes the channel, the host answers badly or the
\* relayer lets a packet expire.
PriceArrives ==
    (/\ params.interval > 0 /\ now + params.interval <= MaxTime
     /\ \E ch \in Channel : chan[ch].state = "OPEN" /\ active[params.conn] = ch)
    ~> (\/ csvPrice # 0
        \/ \E ch \in Channel : chan[ch].state = "CLOSED"
        \/ \E k \in DOMAIN commit :
              \/ commit[k].reply \notin {NoReply} \cup Answer
              \/ commit[k].reply = NoReply /\ Expired(k))

\* "extractValueFromAck (icq_async) decodes the ICS-04 JSON ack into async-icq
\* CosmosResponse and returns the first response value bytes" (ack_icq_async.go): where a
\* consumer is wired, an answer that is acknowledged while its query waits, and passes the
\* guards, is persisted.
AnswerTaken ==
    [][\A k \in DOMAIN pending \cap DOMAIN commit :
          /\ ConsumerWired
          /\ commit[k].reply \in Answer
          /\ LiquidityOk(commit[k].reply.liquidity)
          /\ DeviationOk(NormalizeToCSVPerUSD(commit[k].reply.price))
          /\ k \notin DOMAIN commit'
          => lastResultTime' = now]_vars

Ledger == INSTANCE QueryLedger WITH
    asked <- UNION {{ch} \X (1 .. nextSeq[ch] - 1) : ch \in Channel},
    open <- DOMAIN pending,
    lastResult <- lastResultTime

\* The feed implements the ledger of queries: SendKVQuery gives each query an identity
\* of its own, an acknowledgement or a timeout settles it at most once, and
\* ValidateAndPersistPrice records a result only while HandlePacketAcknowledgement settles a query.
LedgerSpec == Ledger!Spec
=============================================================================
