------------------------------ MODULE Pricefeed ------------------------------
(***************************************************************************)
(* x/pricefeed: an IBC application that sends oracle requests to Band, and  *)
(* writes the CSV per USD price that a response packet carries to x/oracle. *)
(*                                                                          *)
(* IBC core is external: channel ends, a commitment per packet sent until   *)
(* it is acknowledged or timed out, a receipt per packet received, and the  *)
(* order of an ordered channel.  A callback that returns an error reverts   *)
(* its transaction; a packet answered with an error acknowledgement is      *)
(* received, and what its handler wrote is discarded.                       *)
(*                                                                          *)
(* The module is taken as it is once the IBC keeper is supplied to it:      *)
(* IBCKeeperFn is an optional input (module/depinject.go) that app.go does  *)
(* not supply, and without it every send calls a nil function.              *)
(***************************************************************************)
EXTENDS KeyedStore, Decimal

CONSTANTS
    Channel,        \* channel identifiers core can allot on the module's port
    Version,        \* types.Version
    Versions,       \* versions a handshake may carry
    Incoming,       \* packets the counterparty may send
    Timeouts,       \* timeout timestamps messages may carry
    OraclePrices,   \* prices that the other writers of x/oracle may bring
    MaxSent,        \* bound: packets sent on a channel
    MaxIncoming,    \* bound: packets the counterparty sends on a channel
    MaxTime         \* bound: block time

Order == {"ORDERED", "UNORDERED"}

ChannelEnd ==
    [state : {"NONE", "INIT", "TRYOPEN", "OPEN", "CLOSED"}, order : Order]

\* The entry "CSV" of the response's Rates (CSV per USD) and Prices (USD per CSV).  One
\* that is missing, or is no decimal, is as little positive as zero, and stands as zero.
\* A packet without a timeout timestamp has 0.
PacketData ==
    [kind : {"request", "response", "unknown"}, error : BOOLEAN, rate : Int, price : Int,
     timeout : Nat]

\* The acknowledgement of a packet sent: not yet written, or one of the two kinds the
\* handlers know, or bytes that do not decode to either.
Reply == {"none", "error", "result", "malformed"}

ASSUME PricefeedAssumption ==
    /\ Version \in Versions
    /\ Incoming \subseteq PacketData
    /\ Timeouts \subseteq Nat
    /\ OraclePrices \subseteq Int
    /\ MaxSent \in Nat /\ MaxIncoming \in Nat /\ MaxTime \in Nat

VARIABLES
    now,       \* block time
    chan,      \* core: channel ends
    nextSeq,   \* core: NextSequenceSend
    sent,      \* core: packets sent and not settled, with their acknowledgement
    incoming,  \* packets of the counterparty, with the acknowledgement written here
    csvPrice   \* x/oracle: CSV per USD, 0 when unset

vars == <<now, chan, nextSeq, sent, incoming, csvPrice>>

Key == Channel \X (Nat \ {0})

-----------------------------------------------------------------------------
(* The channel handshake (module/module_ibc.go): any order is accepted, and *)
(* nothing is recorded.  OnChanCloseInit refuses.                           *)

OnChanOpen(ch, order, version, state) ==
    /\ chan[ch].state = "NONE"
    /\ version = Version
    /\ chan' = [chan EXCEPT ![ch] = [state |-> state, order |-> order]]
    /\ UNCHANGED <<now, nextSeq, sent, incoming, csvPrice>>

OnChanOpenInit(ch, order, version) == OnChanOpen(ch, order, version, "INIT")
OnChanOpenTry(ch, order, version)  == OnChanOpen(ch, order, version, "TRYOPEN")

OnChanOpenAck(ch, version) ==
    /\ chan[ch].state = "INIT"
    /\ version = Version
    /\ chan' = [chan EXCEPT ![ch].state = "OPEN"]
    /\ UNCHANGED <<now, nextSeq, sent, incoming, csvPrice>>

OnChanOpenConfirm(ch) ==
    /\ chan[ch].state = "TRYOPEN"
    /\ chan' = [chan EXCEPT ![ch].state = "OPEN"]
    /\ UNCHANGED <<now, nextSeq, sent, incoming, csvPrice>>

OnChanCloseConfirm(ch) ==
    /\ chan[ch].state \in {"TRYOPEN", "OPEN"}
    /\ chan' = [chan EXCEPT ![ch].state = "CLOSED"]
    /\ UNCHANGED <<now, nextSeq, sent, incoming, csvPrice>>

-----------------------------------------------------------------------------
(* Packets sent: requests, and responses for a counterparty that runs this  *)
(* module too.  Any account may send either; neither leaves a record here.  *)
(* The port is the sender's choice too; the channels are those of the       *)
(* module's own port: acknowledgements on others go to their own modules.   *)

\* The channel keeper's SendPacket.
SendPacket(ch, timeout) ==
    /\ chan[ch].state = "OPEN"
    /\ timeout > now
    /\ nextSeq[ch] <= MaxSent
    /\ sent' = Put(sent, <<ch, nextSeq[ch]>>, [timeout |-> timeout, reply |-> "none"])
    /\ nextSeq' = [nextSeq EXCEPT ![ch] = @ + 1]

SendOracleRequest(ch, timeout) ==
    /\ timeout # 0
    /\ SendPacket(ch, timeout)
    /\ UNCHANGED <<now, chan, incoming, csvPrice>>

SendOracleResponse(ch, timeout) ==
    /\ timeout # 0
    /\ SendPacket(ch, timeout)
    /\ UNCHANGED <<now, chan, incoming, csvPrice>>

Earlier(k, f) == {j \in DOMAIN f : j[1] = k[1] /\ j[2] < k[2]}

Expired(k) == now >= sent[k].timeout

\* The counterparty receives a packet in time and acknowledges it.
PeerRecv(k, reply) ==
    /\ sent[k].reply = "none" /\ reply # "none"
    /\ ~Expired(k)
    /\ chan[k[1]].state = "OPEN"
    /\ chan[k[1]].order = "ORDERED" => \A j \in Earlier(k, sent) : sent[j].reply # "none"
    /\ sent' = [sent EXCEPT ![k].reply = reply]
    /\ UNCHANGED <<now, chan, nextSeq, incoming, csvPrice>>

\* Mutation: a failed request is reported as an error of the callback.
AckTakenResultOnly(reply) == reply = "result"

\* The handlers of both packets return an error for what they cannot decode only.
AckTaken(reply) == reply \in {"error", "result"}

OnAcknowledgementPacket(k) ==
    /\ sent[k].reply # "none"
    /\ AckTaken(sent[k].reply)
    /\ chan[k[1]].state = "OPEN"
    /\ chan[k[1]].order = "ORDERED" => Earlier(k, sent) = {}
    /\ sent' = Drop(sent, k)
    /\ UNCHANGED <<now, chan, nextSeq, incoming, csvPrice>>

\* Core closes an ordered channel, without any close callback.
OnTimeoutPacket(k) ==
    /\ sent[k].reply = "none"
    /\ Expired(k) \/ chan[k[1]].state = "CLOSED"
    /\ sent' = Drop(sent, k)
    /\ chan' = [chan EXCEPT ![k[1]].state = IF chan[k[1]].order = "ORDERED" THEN "CLOSED" ELSE @]
    /\ UNCHANGED <<now, nextSeq, incoming, csvPrice>>

-----------------------------------------------------------------------------
(* Packets received.                                                        *)

PeerSend(ch, seq, data) ==
    /\ chan[ch].state \in {"TRYOPEN", "OPEN"}
    /\ <<ch, seq>> \notin DOMAIN incoming
    /\ \A s \in 1 .. seq - 1 : <<ch, s>> \in DOMAIN incoming
    /\ incoming' = Put(incoming, <<ch, seq>>, [data |-> data, ack |-> "none"])
    /\ UNCHANGED <<now, chan, nextSeq, sent, csvPrice>>

\* Mutation: the integers behind the decimals are divided.
InvertUnscaled(usdPerCSV) == One \div usdPerCSV

Invert(usdPerCSV) == Quo(One, usdPerCSV)

\* The price after ProcessPriceResponse: Rates first, else the inverse of Prices.  No
\* request is looked for, no older price compared, and without either it is a success.
ProcessPriceResponse(data) ==
    IF data.rate > 0 THEN data.rate
    ELSE IF data.price > 0 THEN Invert(data.price)
    ELSE csvPrice

\* Mutation: the response's own error is not looked at.
AckOfIgnoringError(data) == IF data.kind = "unknown" THEN "error" ELSE "result"

\* Mutation: the dispatch has no default, and an acknowledgement nobody filled in is sent.
AckOfNoDefault(data) ==
    IF data.kind = "unknown" THEN "malformed"
    ELSE IF data.kind = "response" /\ data.error THEN "error" ELSE "result"

\* The acknowledgement OnRecvPacket answers with: an error for a packet that it cannot
\* decode or that reports an error itself.
AckOf(data) ==
    IF data.kind = "unknown" \/ (data.kind = "response" /\ data.error) THEN "error" ELSE "result"

\* Core refuses a packet whose timeout has passed.
Lapsed(k) == incoming[k].data.timeout \in 1 .. now

\* Core's checks before the callback: no receipt, in time, and the next one of an ordered
\* channel.
RecvAccepted(k) ==
    /\ incoming[k].ack = "none"
    /\ ~Lapsed(k)
    /\ chan[k[1]].state = "OPEN"
    /\ chan[k[1]].order = "ORDERED" => \A j \in Earlier(k, incoming) : incoming[j].ack # "none"

\* Mutation: a packet that is refused fails the transaction, and comes again.
OnRecvPacketFailing(k) ==
    LET data == incoming[k].data
    IN  /\ RecvAccepted(k)
        /\ AckOf(data) = "result"
        /\ incoming' = [incoming EXCEPT ![k].ack = "result"]
        /\ csvPrice' = IF data.kind = "response" THEN ProcessPriceResponse(data) ELSE csvPrice
        /\ UNCHANGED <<now, chan, nextSeq, sent>>

OnRecvPacket(k) ==
    LET data == incoming[k].data
    IN  /\ RecvAccepted(k)
        /\ incoming' = [incoming EXCEPT ![k].ack = AckOf(data)]
        /\ csvPrice' = IF AckOf(data) = "result" /\ data.kind = "response"
                       THEN ProcessPriceResponse(data) ELSE csvPrice
        /\ UNCHANGED <<now, chan, nextSeq, sent>>

-----------------------------------------------------------------------------
(* The other writers of the price, genesis, and time.                       *)

\* MsgSetPrice of x/oracle.
SetPrice(price) ==
    /\ price > 0
    /\ csvPrice' = price
    /\ UNCHANGED <<now, chan, nextSeq, sent, incoming>>

\* An answer that x/osmosisicq persists, which its params may leave unguarded (module
\* OsmosisIcq): of any sign.
IcqPrice(price) ==
    /\ csvPrice' = price
    /\ UNCHANGED <<now, chan, nextSeq, sent, incoming>>

\* x/pricefeed exports its params and port, x/oracle its params; core everything.
ExportImport ==
    /\ csvPrice # 0
    /\ csvPrice' = 0
    /\ UNCHANGED <<now, chan, nextSeq, sent, incoming>>

NextBlock ==
    /\ now < MaxTime
    /\ now' = now + 1
    /\ UNCHANGED <<chan, nextSeq, sent, incoming, csvPrice>>

Init ==
    /\ now = 0
    /\ chan = [ch \in Channel |-> [state |-> "NONE", order |-> "UNORDERED"]]
    /\ nextSeq = [ch \in Channel |-> 1]
    /\ sent = EmptyMap
    /\ incoming = EmptyMap
    /\ csvPrice = 0

Next ==
    \/ \E ch \in Channel, order \in Order, version \in Versions :
          OnChanOpenInit(ch, order, version) \/ OnChanOpenTry(ch, order, version)
    \/ \E ch \in Channel, version \in Versions : OnChanOpenAck(ch, version)
    \/ \E ch \in Channel : OnChanOpenConfirm(ch) \/ OnChanCloseConfirm(ch)
    \/ \E ch \in Channel, timeout \in Timeouts :
          SendOracleRequest(ch, timeout) \/ SendOracleResponse(ch, timeout)
    \/ \E k \in DOMAIN sent, reply \in Reply : PeerRecv(k, reply)
    \/ \E k \in DOMAIN sent : OnAcknowledgementPacket(k) \/ OnTimeoutPacket(k)
    \/ \E ch \in Channel, seq \in 1 .. MaxIncoming, data \in Incoming : PeerSend(ch, seq, data)
    \/ \E k \in DOMAIN incoming : OnRecvPacket(k)
    \/ \E price \in OraclePrices : SetPrice(price) \/ IcqPrice(price)
    \/ ExportImport
    \/ NextBlock

Spec == Init /\ [][Next]_vars

(* Blocks are produced, and the relayer completes a handshake that the      *)
(* counterparty began and delivers packets, acknowledgements and timeouts.  *)
Fairness ==
    /\ WF_vars(NextBlock)
    /\ \A ch \in Channel : WF_vars(OnChanOpenConfirm(ch))
    /\ WF_vars(\E k \in DOMAIN sent : OnAcknowledgementPacket(k))
    /\ WF_vars(\E k \in DOMAIN sent : OnTimeoutPacket(k))
    /\ WF_vars(\E k \in DOMAIN incoming : OnRecvPacket(k))

FairSpec == Spec /\ Fairness

-----------------------------------------------------------------------------
(* Properties.                                                              *)

\* The stores hold what their codecs write, and a packet that was received has a well
\* formed acknowledgement, as the counterparty cannot settle another.
TypeOK ==
    /\ now \in Nat
    /\ chan \in [Channel -> ChannelEnd]
    /\ nextSeq \in [Channel -> Nat \ {0}]
    /\ DOMAIN sent \subseteq Key /\ \A k \in DOMAIN sent : sent[k] \in [timeout : Nat, reply : Reply]
    /\ DOMAIN incoming \subseteq Key
    /\ \A k \in DOMAIN incoming :
          incoming[k] \in [data : PacketData, ack : {"none", "error", "result"}]
    /\ csvPrice \in Int

\* Packets that set a price: received, not refused, and not reporting an error.
Source(k) ==
    /\ incoming[k].ack = "result"
    /\ incoming[k].data.kind = "response" /\ ~incoming[k].data.error

\* A price in force has a source: another writer of x/oracle brought it, or it is the rate,
\* or the inverse of the price, of a response that was acknowledged as a success.  Nothing
\* that a refused, failed or foreign packet carries is left in the oracle, in any order of
\* packets and restarts.
PriceHasSource ==
    csvPrice # 0 =>
        \/ csvPrice \in OraclePrices
        \/ \E k \in DOMAIN incoming :
              /\ Source(k)
              /\ \/ csvPrice = incoming[k].data.rate
                 \/ incoming[k].data.price > 0 /\ csvPrice = Invert(incoming[k].data.price)

\* A positive price stays positive, whatever the counterparty sends, unless a response
\* quotes a USD price so high that its inverse rounds to zero (from 2 * 10^18 USD on,
\* which a price scaled by a power of ten reaches).  Only an import forgets it, and only
\* the other feed may bring another sign.
KeepsPositive ==
    [][csvPrice > 0 /\ csvPrice' <= 0 =>
          \/ ExportImport
          \/ \E price \in OraclePrices : IcqPrice(price)
          \/ \E k \in DOMAIN incoming :
                incoming[k].ack # incoming'[k].ack /\ incoming[k].data.price >= 2 * One * One]_vars

\* A packet that core no longer delivers: its channel is closed, or it lapsed before it was
\* received, or on an ordered channel one before it did.
Undeliverable(k) ==
    \/ chan[k[1]].state = "CLOSED"
    \/ Lapsed(k)
    \/ /\ chan[k[1]].order = "ORDERED"
       /\ \E j \in Earlier(k, incoming) : incoming[j].ack = "none" /\ Lapsed(j)

\* One packet that cannot be taken does not hold up the prices behind it, on an ordered
\* channel either: every packet the counterparty sends is acknowledged in the end, as a
\* success or as an error, unless core no longer delivers it.
ResponseTaken ==
    \A k \in Channel \X (1 .. MaxIncoming) :
        (k \in DOMAIN incoming)
        ~> (k \in DOMAIN incoming /\ (incoming[k].ack # "none" \/ Undeliverable(k)))

\* An answer that no delivery settles: its channel closed before, it does not decode, or
\* on an ordered channel one before it does not.
Stuck(k) ==
    \/ sent[k].reply # "none" /\ chan[k[1]].state = "CLOSED"
    \/ sent[k].reply = "malformed"
    \/ /\ chan[k[1]].order = "ORDERED"
       /\ \E j \in Earlier(k, sent) : sent[j].reply = "malformed"

\* A request is settled in the end, by the acknowledgement of its success or failure or
\* by its timeout, unless its answer is stuck.
RequestSettled ==
    \A k \in Channel \X (1 .. MaxSent) :
        (k \in DOMAIN sent /\ sent[k].timeout <= MaxTime)
        ~> (k \notin DOMAIN sent \/ Stuck(k))
=============================================================================
