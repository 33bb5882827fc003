--------------------------- MODULE IcqController ---------------------------
(***************************************************************************)
(* x/icqcontroller: the channel an interchain query is sent over, and the   *)
(* correlation of every query packet in flight with what it asked, kept     *)
(* from the send to the acknowledgement or the timeout.                     *)
(*                                                                          *)
(* IBC core is external and modelled by what it guarantees the module:      *)
(* channel ends and their states, one commitment per packet until it is     *)
(* acknowledged or timed out, and the order of an ordered channel.  A       *)
(* callback that fails reverts its transaction, and changes nothing.        *)
(*                                                                          *)
(* The module is taken as it is once the IBC keeper is supplied to it.      *)
(* IBCKeeperFn is an optional input (module/depinject.go) that app.go does  *)
(* not supply; without it SendKVQuery and OnChanCloseConfirm call a nil     *)
(* function.                                                                *)
(***************************************************************************)
EXTENDS Integers, KeyedStore

CONSTANTS
    Connection,
    Channel,         \* channel identifiers core can allot
    NoChannel,       \* no channel is recorded for a connection
    Version,         \* types.Version
    Versions,        \* versions a handshake may carry
    Answer,          \* what the consumer decodes a good value to
    ConsumerWired,   \* whether SetKVConsumer was called on the routed keeper
    Extractor,       \* what finds the value in an acknowledgement
    QueryTimeout     \* the two minutes SendKVQuery gives a packet

Store == {"twap", "gamm"}

Order == {"ORDERED", "UNORDERED"}

(* What the host writes back: an error acknowledgement or one without a     *)
(* value, bytes no decoder takes, or a value.                               *)
Bare(kind) == [kind |-> kind, price |-> 0, liquidity |-> 0]
NoReply    == Bare("none")
Reply      == {Bare("novalue"), Bare("undecodable")} \cup Answer

ASSUME ConnectionAssumption == Connection # {}

ASSUME IcqAssumption ==
    /\ NoChannel \notin Channel
    /\ Version \in Versions
    /\ Answer \subseteq [kind : {"value"}, price : Int, liquidity : Int]
    /\ ConsumerWired \in BOOLEAN
    /\ Extractor \in {"stub", "icq_async", "test"}
    /\ QueryTimeout \in Nat \ {0}

VARIABLES
    now,       \* block time
    chan,      \* core: channel ends
    nextSeq,   \* core: NextSequenceSend
    commit,    \* core: packets neither acknowledged nor timed out, and their reply
    active,    \* ActiveChannel
    pending    \* Pending

icqVars == <<now, chan, nextSeq, commit, active, pending>>

Key == Channel \X (Nat \ {0})

ChannelEnd ==
    [state : {"NONE", "INIT", "TRYOPEN", "OPEN", "CLOSED"},
     conn : Connection, order : Order]

Query  == [store : Store, conn : Connection]
Packet == [store : Store, sentAt : Nat, reply : {NoReply} \cup Reply]

-----------------------------------------------------------------------------
(* The channel handshake (module/module_ibc.go).                            *)

\* OnChanOpenInit and OnChanOpenTry record the channel before it is open,
\* over whatever the connection had.
OnChanOpen(ch, conn, order, version, state) ==
    /\ chan[ch].state = "NONE"
    /\ version = Version
    /\ chan' = [chan EXCEPT ![ch] = [state |-> state, conn |-> conn, order |-> order]]
    /\ active' = [active EXCEPT ![conn] = ch]
    /\ UNCHANGED <<now, nextSeq, commit, pending>>

OnChanOpenInit(ch, conn, order, version) ==
    OnChanOpen(ch, conn, order, version, "INIT")

OnChanOpenTry(ch, conn, order, version) ==
    OnChanOpen(ch, conn, order, version, "TRYOPEN")

OnChanOpenAck(ch, version) ==
    /\ chan[ch].state = "INIT"
    /\ version = Version
    /\ chan' = [chan EXCEPT ![ch].state = "OPEN"]
    /\ UNCHANGED <<now, nextSeq, commit, active, pending>>

OnChanOpenConfirm(ch) ==
    /\ chan[ch].state = "TRYOPEN"
    /\ chan' = [chan EXCEPT ![ch].state = "OPEN"]
    /\ UNCHANGED <<now, nextSeq, commit, active, pending>>

\* Mutation: the callback leaves the mapping to the next handshake.
OnChanCloseConfirmKept(ch) ==
    /\ chan[ch].state \in {"TRYOPEN", "OPEN"}
    /\ chan' = [chan EXCEPT ![ch].state = "CLOSED"]
    /\ UNCHANGED <<now, nextSeq, commit, active, pending>>

\* The counterparty closed its end (OnChanCloseInit refuses to close ours).
\* The connection's mapping goes, whichever channel it names.
OnChanCloseConfirm(ch) ==
    /\ chan[ch].state \in {"TRYOPEN", "OPEN"}
    /\ chan' = [chan EXCEPT ![ch].state = "CLOSED"]
    /\ active' = [active EXCEPT ![chan[ch].conn] = NoChannel]
    /\ UNCHANGED <<now, nextSeq, commit, pending>>

-----------------------------------------------------------------------------
(* Sending (keeper/keeper_icq_async.go).                                    *)

\* The channel keeper's SendPacket, on a client that is up or not.
SendPacket(ch, up) == up /\ chan[ch].state = "OPEN"

\* Mutation: the correlation outlives a send that failed.
AfterFailedSendKept(p, k) == p

AfterFailedSend(p, k) == Drop(p, k)

\* The correlation is kept before the packet is sent, and dropped again when
\* the send fails; s holds the three maps that change.
SendKVQuery(s, conn, store, up, time) ==
    LET ch == active[conn]
        k  == <<ch, s.nextSeq[ch]>>
        p  == Put(s.pending, k, [store |-> store, conn |-> conn])
    IN  IF ch = NoChannel THEN s
        ELSE IF ~SendPacket(ch, up) THEN [s EXCEPT !.pending = AfterFailedSend(p, k)]
        ELSE [pending |-> p,
              commit  |-> Put(s.commit, k, [store |-> store, sentAt |-> time, reply |-> NoReply]),
              nextSeq |-> [s.nextSeq EXCEPT ![ch] = @ + 1]]

-----------------------------------------------------------------------------
(* The packet's life on the other chain and in core (external).             *)

Earlier(k) == {j \in DOMAIN commit : j[1] = k[1] /\ j[2] < k[2]}

Expired(k) == now >= commit[k].sentAt + QueryTimeout

\* The host answers a packet it receives in time, in order on an ordered channel.
HostRecv(k, reply) ==
    /\ commit[k].reply = NoReply
    /\ ~Expired(k)
    /\ chan[k[1]].state = "OPEN"
    /\ chan[k[1]].order = "ORDERED" => \A j \in Earlier(k) : commit[j].reply # NoReply
    /\ commit' = [commit EXCEPT ![k].reply = reply]
    /\ UNCHANGED <<now, chan, nextSeq, active, pending>>

\* Core passes an acknowledgement on only while the channel is open, and in
\* order on an ordered channel.
AckAccepted(k) ==
    /\ commit[k].reply # NoReply
    /\ chan[k[1]].state = "OPEN"
    /\ chan[k[1]].order = "ORDERED" => Earlier(k) = {}

\* Core times a packet out when it was not received in time, or never will be.
TimeoutAccepted(k) ==
    /\ commit[k].reply = NoReply
    /\ Expired(k) \/ chan[k[1]].state = "CLOSED"

-----------------------------------------------------------------------------
(* Acknowledgements and timeouts (keeper/keeper.go).                        *)

\* What extractValueFromAck makes of an acknowledgement, or SetTestAckExtractor's function.
\* The stub of the default build finds no value.  The one of icq_async unmarshals with
\* encoding/json, which does not fill the oneof of an Acknowledgement: {"result":...} is
\* taken for an error as {"error":...} is, no value is found, and only bytes that are no
\* such JSON fail.  Only the extractor that tests set may find a value.
Extracted(reply) ==
    IF Extractor = "test" \/ (Extractor = "icq_async" /\ reply.kind = "undecodable")
    THEN reply.kind
    ELSE "novalue"

\* Mutation: the answer goes to the consumer whether or not it was asked for.
AckOutcomeUncorrelated(k) ==
    IF ~ConsumerWired \/ Extracted(commit[k].reply) = "novalue" THEN "dropped"
    ELSE IF Extracted(commit[k].reply) = "undecodable" THEN "failed"
    ELSE "delivered"

\* What HandlePacketAcknowledgement makes of the reply: nothing was asked or
\* no consumer is wired or the reply has no value; decoding fails; or the
\* consumer gets the value.
AckOutcome(k) ==
    IF k \notin DOMAIN pending \/ ~ConsumerWired \/ Extracted(commit[k].reply) = "novalue"
    THEN "dropped"
    ELSE IF Extracted(commit[k].reply) = "undecodable" THEN "failed"
    ELSE "delivered"

\* Mutation: the deferred removal survives an acknowledgement that fails.
HandlePacketAcknowledgementDeferred(k) ==
    /\ AckAccepted(k)
    /\ commit' = IF AckOutcome(k) = "failed" THEN commit ELSE Drop(commit, k)
    /\ pending' = Drop(pending, k)
    /\ UNCHANGED <<now, chan, nextSeq, active>>

\* OnAcknowledgementPacket on a reply that does not fail.  One that fails
\* reverts the transaction, the deferred RemovePending included.
HandlePacketAcknowledgement(k) ==
    /\ AckAccepted(k)
    /\ AckOutcome(k) # "failed"
    /\ commit' = Drop(commit, k)
    /\ pending' = Drop(pending, k)
    /\ UNCHANGED <<now, chan, nextSeq, active>>

\* Mutation: a timeout only emits its event.
HandlePacketTimeoutEventOnly(k) ==
    /\ TimeoutAccepted(k)
    /\ commit' = Drop(commit, k)
    /\ chan' = [chan EXCEPT ![k[1]].state = IF chan[k[1]].order = "ORDERED" THEN "CLOSED" ELSE @]
    /\ UNCHANGED <<now, nextSeq, active, pending>>

\* OnTimeoutPacket.  Core closes an ordered channel, without any close callback.
HandlePacketTimeout(k) ==
    /\ TimeoutAccepted(k)
    /\ commit' = Drop(commit, k)
    /\ pending' = Drop(pending, k)
    /\ chan' = [chan EXCEPT ![k[1]].state = IF chan[k[1]].order = "ORDERED" THEN "CLOSED" ELSE @]
    /\ UNCHANGED <<now, nextSeq, active>>

\* ExportGenesis writes params and port; core's genesis keeps its channels,
\* sequences and commitments.
ExportImportIcq ==
    /\ active' = [c \in Connection |-> NoChannel]
    /\ pending' = EmptyMap
    /\ UNCHANGED <<now, chan, nextSeq, commit>>

IcqInit ==
    /\ now = 0
    /\ chan = [ch \in Channel |->
                 [state |-> "NONE", conn |-> CHOOSE c \in Connection : TRUE, order |-> "UNORDERED"]]
    /\ nextSeq = [ch \in Channel |-> 1]
    /\ commit = EmptyMap
    /\ active = [c \in Connection |-> NoChannel]
    /\ pending = EmptyMap
=============================================================================
