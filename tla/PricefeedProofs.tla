-------------------------- MODULE PricefeedProofs --------------------------
(***************************************************************************)
(* Proofs about the Band price feed, for any channels, packets, timeouts    *)
(* and prices, and for every precision of the decimals.                     *)
(***************************************************************************)
EXTENDS Pricefeed, TLAPS

SentOK(f) ==
    DOMAIN f \subseteq Key /\ \A k \in DOMAIN f : f[k] \in [timeout : Nat, reply : Reply]

IncomingOK(f) ==
    /\ DOMAIN f \subseteq Key
    /\ \A k \in DOMAIN f : f[k] \in [data : PacketData, ack : {"none", "error", "result"}]

LEMMA TypeParts ==
    TypeOK <=> /\ now \in Nat
               /\ chan \in [Channel -> ChannelEnd]
               /\ nextSeq \in [Channel -> Nat \ {0}]
               /\ SentOK(sent)
               /\ IncomingOK(incoming)
               /\ csvPrice \in Int
  BY DEF TypeOK, SentOK, IncomingOK

-----------------------------------------------------------------------------
(* Lemmas on the operators.                                                 *)

\* A rounded quotient is an integer, and positive as long as its exact value exceeds one
\* half: this is where an inverse is lost.
LEMMA InvertPositive ==
    ASSUME NEW p \in Int, p > 0
    PROVE  Invert(p) \in Int /\ (p < 2 * One * One => Invert(p) >= 1)
<1> DEFINE m == One * One
           q == m \div p
           r == m % p
<1>0. m \in Nat /\ m > 0 /\ One \in Int /\ One > 0 /\ 2 * One * One = 2 * m
  BY OneAssumption
<1>1. Invert(p) = IF 2 * r > p \/ (2 * r = p /\ q % 2 = 1) THEN q + 1 ELSE q
  BY <1>0 DEF Invert, Quo, QuoAbs, Abs
<1>2. q \in Int /\ r \in Int /\ m = p * q + r /\ 0 <= r /\ r < p
  <2> HIDE DEF m
  <2>1. QED
    BY <1>0
<1>3. q >= 0
  <2> HIDE DEF m
  <2>1. QED
    BY <1>0
<1>4. ASSUME q = 0 PROVE r = m
  <2> HIDE DEF m, q, r
  <2>1. p * q = 0
    BY <1>4
  <2>2. QED
    BY <1>2, <2>1, <1>0
<1> HIDE DEF m, q, r
<1>5. Invert(p) \in {q, q + 1}
  BY <1>1
<1>6. Invert(p) \in Int
  BY <1>5, <1>2
<1>7. ASSUME p < 2 * One * One PROVE Invert(p) >= 1
  <2>1. CASE q = 0
    <3>1. 2 * r > p
      BY <2>1, <1>4, <1>7, <1>0
    <3>2. QED
      BY <3>1, <1>1, <2>1
  <2>2. CASE q # 0
    BY <2>2, <1>2, <1>3, <1>5
  <2>3. QED
    BY <2>1, <2>2
<1>8. QED
  BY <1>6, <1>7

\* What a response may make of the price.
LEMMA ResponseOutcome ==
    ASSUME NEW data \in PacketData, csvPrice \in Int
    PROVE  /\ ProcessPriceResponse(data) \in Int
           /\ \/ ProcessPriceResponse(data) = csvPrice
              \/ data.rate > 0 /\ ProcessPriceResponse(data) = data.rate
              \/ data.price > 0 /\ ProcessPriceResponse(data) = Invert(data.price)
<1>1. data.rate \in Int /\ data.price \in Int
  BY DEF PacketData
<1>2. data.price > 0 => Invert(data.price) \in Int
  BY <1>1, InvertPositive
<1>3. QED
  BY <1>1, <1>2 DEF ProcessPriceResponse

LEMMA PutSent ==
    ASSUME NEW f, SentOK(f), NEW k \in Key, NEW v \in [timeout : Nat, reply : Reply]
    PROVE  SentOK(Put(f, k, v))
  BY DEF SentOK, Put

LEMMA DropSent ==
    ASSUME NEW f, SentOK(f), NEW k
    PROVE  SentOK(Drop(f, k))
  BY DEF SentOK, Drop, Restrict

LEMMA PutIncoming ==
    ASSUME NEW f, IncomingOK(f), NEW k \in Key, NEW data \in PacketData
    PROVE  IncomingOK(Put(f, k, [data |-> data, ack |-> "none"]))
  BY DEF IncomingOK, Put

\* What the delivery of a packet writes: its acknowledgement, and for a response that is
\* taken the price.
LEMMA RecvEffect ==
    ASSUME TypeOK, NEW k \in DOMAIN incoming, OnRecvPacket(k)
    PROVE  /\ IncomingOK(incoming')
           /\ DOMAIN incoming' = DOMAIN incoming
           /\ \A j \in DOMAIN incoming : j # k => incoming'[j] = incoming[j]
           /\ incoming[k].ack = "none" /\ incoming'[k].ack = AckOf(incoming[k].data)
           /\ incoming'[k].ack # "none" /\ incoming'[k].data = incoming[k].data
           /\ csvPrice' \in Int
           /\ \/ csvPrice' = csvPrice
              \/ /\ AckOf(incoming[k].data) = "result" /\ incoming[k].data.kind = "response"
                 /\ csvPrice' = ProcessPriceResponse(incoming[k].data)
<1> DEFINE data == incoming[k].data
<1>1. /\ IncomingOK(incoming) /\ csvPrice \in Int
      /\ incoming' = [incoming EXCEPT ![k].ack = AckOf(data)]
      /\ incoming[k].ack = "none"
      /\ csvPrice' = IF AckOf(data) = "result" /\ data.kind = "response"
                     THEN ProcessPriceResponse(data) ELSE csvPrice
  BY TypeParts DEF OnRecvPacket, RecvAccepted
<1>2. /\ incoming[k] \in [data : PacketData, ack : {"none", "error", "result"}]
      /\ data \in PacketData
  BY <1>1 DEF IncomingOK
<1>3. AckOf(data) \in {"error", "result"}
  BY DEF AckOf
<1>4. /\ DOMAIN incoming' = DOMAIN incoming
      /\ \A j \in DOMAIN incoming : j # k => incoming'[j] = incoming[j]
      /\ incoming'[k] = [incoming[k] EXCEPT !.ack = AckOf(data)]
  BY <1>1
<1>5. /\ incoming'[k] \in [data : PacketData, ack : {"none", "error", "result"}]
      /\ incoming'[k].ack = AckOf(data) /\ incoming'[k].data = data
  BY <1>2, <1>3, <1>4
<1>6. IncomingOK(incoming')
  BY <1>1, <1>4, <1>5 DEF IncomingOK
<1>7. csvPrice' \in Int
  BY <1>1, <1>2, ResponseOutcome
<1>8. QED
  BY <1>1, <1>3, <1>4, <1>5, <1>6, <1>7

-----------------------------------------------------------------------------
(* Types.                                                                   *)

LEMMA InitType == Init => TypeOK
  BY PricefeedAssumption DEF Init, TypeOK, EmptyMap, ChannelEnd, Order

\* The channel a key names, and what a packet of it carries.
LEMMA SentMember ==
    ASSUME SentOK(sent), NEW k \in DOMAIN sent
    PROVE  k[1] \in Channel /\ sent[k].timeout \in Nat /\ sent[k].reply \in Reply
  BY DEF SentOK, Key

LEMMA NextType ==
    ASSUME TypeOK, [Next]_vars
    PROVE  TypeOK'
<1> DEFINE Typed == /\ now' \in Nat /\ chan' \in [Channel -> ChannelEnd]
                    /\ nextSeq' \in [Channel -> Nat \ {0}]
                    /\ SentOK(sent') /\ IncomingOK(incoming') /\ csvPrice' \in Int
<1>0. /\ now \in Nat /\ chan \in [Channel -> ChannelEnd] /\ nextSeq \in [Channel -> Nat \ {0}]
      /\ SentOK(sent) /\ IncomingOK(incoming) /\ csvPrice \in Int
  BY TypeParts
<1>1. ASSUME NEW ch \in Channel, NEW order \in Order, NEW version \in Versions,
             OnChanOpenInit(ch, order, version) \/ OnChanOpenTry(ch, order, version)
      PROVE  Typed
  BY <1>0, <1>1 DEF OnChanOpenInit, OnChanOpenTry, OnChanOpen, ChannelEnd
<1>2. ASSUME NEW ch \in Channel, NEW version \in Versions, OnChanOpenAck(ch, version)
      PROVE  Typed
  BY <1>0, <1>2 DEF OnChanOpenAck, ChannelEnd
<1>3. ASSUME NEW ch \in Channel, OnChanOpenConfirm(ch) \/ OnChanCloseConfirm(ch)
      PROVE  Typed
  BY <1>0, <1>3 DEF OnChanOpenConfirm, OnChanCloseConfirm, ChannelEnd
<1>4. ASSUME NEW ch \in Channel, NEW timeout \in Timeouts,
             SendOracleRequest(ch, timeout) \/ SendOracleResponse(ch, timeout)
      PROVE  Typed
  <2>1. /\ sent' = Put(sent, <<ch, nextSeq[ch]>>, [timeout |-> timeout, reply |-> "none"])
        /\ nextSeq' = [nextSeq EXCEPT ![ch] = @ + 1]
        /\ UNCHANGED <<now, chan, incoming, csvPrice>>
    BY <1>4 DEF SendOracleRequest, SendOracleResponse, SendPacket
  <2>2. /\ <<ch, nextSeq[ch]>> \in Key
        /\ [timeout |-> timeout, reply |-> "none"] \in [timeout : Nat, reply : Reply]
    BY <1>0, PricefeedAssumption DEF Key, Reply
  <2>3. SentOK(sent')
    BY <1>0, <2>1, <2>2, PutSent
  <2>4. QED
    BY <1>0, <2>1, <2>3
<1>5. ASSUME NEW k \in DOMAIN sent, NEW reply \in Reply, PeerRecv(k, reply)
      PROVE  Typed
  <2>1. sent' = [sent EXCEPT ![k].reply = reply] /\ UNCHANGED <<now, chan, nextSeq, incoming, csvPrice>>
    BY <1>5 DEF PeerRecv
  <2>2. SentOK(sent')
    BY <1>0, <2>1 DEF SentOK
  <2>3. QED
    BY <1>0, <2>1, <2>2
<1>6. ASSUME NEW k \in DOMAIN sent, OnAcknowledgementPacket(k)
      PROVE  Typed
  BY <1>0, <1>6, DropSent DEF OnAcknowledgementPacket
<1>7. ASSUME NEW k \in DOMAIN sent, OnTimeoutPacket(k)
      PROVE  Typed
  <2>1. chan' \in [Channel -> ChannelEnd]
    BY <1>0, <1>7, SentMember DEF OnTimeoutPacket, ChannelEnd
  <2>2. QED
    BY <1>0, <1>7, <2>1, DropSent DEF OnTimeoutPacket
<1>8. ASSUME NEW ch \in Channel, NEW seq \in 1 .. MaxIncoming, NEW data \in Incoming,
             PeerSend(ch, seq, data)
      PROVE  Typed
  <2>1. <<ch, seq>> \in Key /\ data \in PacketData
    BY PricefeedAssumption DEF Key
  <2>2. QED
    BY <1>0, <1>8, <2>1, PutIncoming DEF PeerSend
<1>9. ASSUME NEW k \in DOMAIN incoming, OnRecvPacket(k)
      PROVE  Typed
  BY <1>0, <1>9, RecvEffect DEF OnRecvPacket
<1>10. ASSUME NEW price \in OraclePrices, SetPrice(price) \/ IcqPrice(price)
       PROVE  Typed
  BY <1>0, <1>10, PricefeedAssumption DEF SetPrice, IcqPrice
<1>11. ASSUME ExportImport \/ NextBlock \/ UNCHANGED vars
       PROVE  Typed
  BY <1>0, <1>11 DEF ExportImport, NextBlock, vars
<1>12. Typed
  BY <1>1, <1>2, <1>3, <1>4, <1>5, <1>6, <1>7, <1>8, <1>9, <1>10, <1>11 DEF Next
<1>13. QED
  BY <1>12 DEF TypeOK, SentOK, IncomingOK

\* The stores are well typed, and each packet received has a well formed acknowledgement.
THEOREM PricefeedTypeCorrect == Spec => []TypeOK
<1>1. QED
  BY InitType, NextType, PTL DEF Spec

-----------------------------------------------------------------------------
(* Where a price comes from.                                                *)

\* The packet k, as f holds it, gives the price c.
Gives(f, k, c) ==
    /\ f[k].ack = "result" /\ f[k].data.kind = "response" /\ ~f[k].data.error
    /\ c = f[k].data.rate \/ (f[k].data.price > 0 /\ c = Invert(f[k].data.price))

Sourced(f, c) == c # 0 => c \in OraclePrices \/ \E k \in DOMAIN f : Gives(f, k, c)

LEMMA SourcedIs == PriceHasSource <=> Sourced(incoming, csvPrice)
  BY DEF PriceHasSource, Source, Sourced, Gives

LEMMA NextSourced ==
    ASSUME TypeOK, PriceHasSource, [Next]_vars
    PROVE  PriceHasSource'
<1>0. Sourced(incoming, csvPrice)
  BY SourcedIs
<1>s. SUFFICES Sourced(incoming', csvPrice')
  BY DEF PriceHasSource, Source, Sourced, Gives
<1>1. ASSUME NEW ch \in Channel, NEW seq \in 1 .. MaxIncoming, NEW data \in Incoming,
             PeerSend(ch, seq, data)
      PROVE  Sourced(incoming', csvPrice')
  <2>1. /\ DOMAIN incoming \subseteq DOMAIN incoming' /\ csvPrice' = csvPrice
        /\ \A j \in DOMAIN incoming : incoming'[j] = incoming[j]
    BY <1>1 DEF PeerSend, Put
  <2>2. QED
    BY <1>0, <2>1 DEF Sourced, Gives
<1>2. ASSUME NEW k \in DOMAIN incoming, OnRecvPacket(k)
      PROVE  Sourced(incoming', csvPrice')
  <2>1. /\ DOMAIN incoming' = DOMAIN incoming
        /\ \A j \in DOMAIN incoming : j # k => incoming'[j] = incoming[j]
        /\ incoming[k].ack = "none" /\ incoming'[k].ack = AckOf(incoming[k].data)
        /\ incoming'[k].data = incoming[k].data
    BY <1>2, RecvEffect
  <2>2. CASE csvPrice' = csvPrice
    <3>1. \A j \in DOMAIN incoming : Gives(incoming, j, csvPrice) => Gives(incoming', j, csvPrice')
      BY <2>1, <2>2 DEF Gives
    <3>2. QED
      BY <1>0, <2>1, <2>2, <3>1 DEF Sourced
  <2>3. CASE csvPrice' # csvPrice
    <3>1. /\ AckOf(incoming[k].data) = "result" /\ incoming[k].data.kind = "response"
          /\ csvPrice' = ProcessPriceResponse(incoming[k].data)
      BY <1>2, <2>3, RecvEffect
    <3>2. incoming[k].data \in PacketData /\ csvPrice \in Int
      BY TypeParts DEF IncomingOK
    <3>3. \/ csvPrice' = incoming[k].data.rate
          \/ incoming[k].data.price > 0 /\ csvPrice' = Invert(incoming[k].data.price)
      BY <3>1, <3>2, <2>3, ResponseOutcome
    <3>4. ~incoming[k].data.error
      BY <3>1 DEF AckOf
    <3>5. Gives(incoming', k, csvPrice')
      BY <2>1, <3>1, <3>3, <3>4 DEF Gives
    <3>6. QED
      BY <2>1, <3>5 DEF Sourced
  <2>4. QED
    BY <2>2, <2>3
<1>3. ASSUME NEW price \in OraclePrices, SetPrice(price) \/ IcqPrice(price)
      PROVE  Sourced(incoming', csvPrice')
  BY <1>3 DEF SetPrice, IcqPrice, Sourced
<1>4. ASSUME ExportImport PROVE Sourced(incoming', csvPrice')
  BY <1>4 DEF ExportImport, Sourced
<1>5. ASSUME UNCHANGED <<incoming, csvPrice>> PROVE Sourced(incoming', csvPrice')
  BY <1>0, <1>5
<1>6. QED
  BY <1>1, <1>2, <1>3, <1>4, <1>5
  DEF Next, vars, OnChanOpenInit, OnChanOpenTry, OnChanOpen, OnChanOpenAck, OnChanOpenConfirm,
      OnChanCloseConfirm, SendOracleRequest, SendOracleResponse, PeerRecv,
      OnAcknowledgementPacket, OnTimeoutPacket, NextBlock

\* Whatever packets arrive, in whatever order, through however many channels, and with
\* whatever restarts between them, the price in force is one that a successful response or
\* another writer of the oracle brought.
THEOREM PriceAlwaysHasSource == Spec => []PriceHasSource
<1>1. Init => PriceHasSource
  BY DEF Init, PriceHasSource
<1>2. QED
  BY <1>1, InitType, NextType, NextSourced, PTL DEF Spec

-----------------------------------------------------------------------------
(* The sign of the price.                                                   *)

\* For every precision, what the Band feed does with a positive price: only a USD price
\* whose inverse is at most half a unit can take its sign from it.  The other feed and a
\* restart may.
THEOREM PriceKeptPositive == Spec => KeepsPositive
<1> DEFINE A == csvPrice > 0 /\ csvPrice' <= 0 =>
                    \/ ExportImport
                    \/ \E price \in OraclePrices : IcqPrice(price)
                    \/ \E k \in DOMAIN incoming :
                          incoming[k].ack # incoming'[k].ack /\ incoming[k].data.price >= 2 * One * One
<1>1. ASSUME TypeOK, [Next]_vars
      PROVE  A
  <2>0. SUFFICES ASSUME csvPrice > 0, csvPrice' <= 0 PROVE A
    OBVIOUS
  <2>1. csvPrice \in Int /\ csvPrice' # csvPrice
    <3>1. csvPrice \in Int
      BY <1>1, TypeParts
    <3>2. QED
      BY <2>0, <3>1
  <2>2. ASSUME NEW k \in DOMAIN incoming, OnRecvPacket(k)
        PROVE  A
    <3> DEFINE data == incoming[k].data
    <3>1. incoming[k].ack # incoming'[k].ack /\ csvPrice' = ProcessPriceResponse(data)
      BY <1>1, <2>1, <2>2, RecvEffect
    <3>2. data \in PacketData /\ data.price \in Int /\ data.rate \in Int
      BY <1>1, TypeParts DEF IncomingOK, PacketData
    <3>3. data.price > 0 /\ csvPrice' = Invert(data.price)
      BY <2>0, <2>1, <3>1, <3>2, ResponseOutcome
    <3>4. Invert(data.price) \in Int /\ ~(data.price < 2 * One * One)
      BY <2>0, <3>2, <3>3, InvertPositive
    <3>5. 2 * One * One \in Int
      BY OneAssumption
    <3>6. data.price >= 2 * One * One
      BY <3>2, <3>4, <3>5
    <3>7. QED
      BY <3>1, <3>6
  <2>3. ASSUME NEW price \in OraclePrices, SetPrice(price)
        PROVE  FALSE
    BY <2>0, <2>3, PricefeedAssumption DEF SetPrice
  <2>4. ASSUME ExportImport PROVE A
    BY <2>4
  <2>5. ASSUME NEW price \in OraclePrices, IcqPrice(price)
        PROVE  A
    BY <2>5
  <2>6. QED
    BY <1>1, <2>1, <2>2, <2>3, <2>4, <2>5
    DEF Next, vars, OnChanOpenInit, OnChanOpenTry, OnChanOpen, OnChanOpenAck, OnChanOpenConfirm,
        OnChanCloseConfirm, SendOracleRequest, SendOracleResponse, PeerRecv,
        OnAcknowledgementPacket, OnTimeoutPacket, PeerSend, NextBlock
<1>2. TypeOK /\ [Next]_vars => [A]_vars
  BY <1>1
<1>3. QED
  BY <1>2, InitType, NextType, PTL DEF Spec, KeepsPositive
=============================================================================
