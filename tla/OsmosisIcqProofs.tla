-------------------------- MODULE OsmosisIcqProofs --------------------------
(***************************************************************************)
(* Proofs about the price feed over interchain queries, for any number of   *)
(* connections, channels and packets, any params and any faults.            *)
(*                                                                          *)
(* A step of the scheduler sends up to two packets, so what is kept of the  *)
(* three maps a send changes is stated of a triple s of them (Maps(s)), and *)
(* a send is shown once to keep it (SendKeeps).                             *)
(***************************************************************************)
EXTENDS OsmosisIcq, TLAPS

Asked(ns) == UNION {{ch} \X (1 .. ns[ch] - 1) : ch \in Channel}

\* The maps of packets and correlations agree with each other, with the send
\* sequences and with the channels.
Maps(s) ==
    /\ s.nextSeq \in [Channel -> Nat \ {0}]
    /\ DOMAIN s.commit \subseteq Key
    /\ \A k \in DOMAIN s.commit : s.commit[k] \in Packet
    /\ DOMAIN s.pending \subseteq Key
    /\ \A k \in DOMAIN s.pending : s.pending[k] \in Query
    /\ \A k \in DOMAIN s.commit : k[2] < s.nextSeq[k[1]] /\ chan[k[1]].state # "NONE"
    /\ \A k \in DOMAIN s.pending :
          /\ k \in DOMAIN s.commit
          /\ s.pending[k].store = s.commit[k].store
          /\ s.pending[k].conn = chan[k[1]].conn

\* From s to t, the correlations gained are those of the packets sent.
Grows(s, t) ==
    /\ Asked(s.nextSeq) \subseteq Asked(t.nextSeq)
    /\ DOMAIN t.pending = DOMAIN s.pending \cup (Asked(t.nextSeq) \ Asked(s.nextSeq))
    /\ DOMAIN s.commit \subseteq DOMAIN t.commit

\* The channel recorded for a connection is one of that connection.
ActiveConn ==
    \A c \in Connection :
        active[c] # NoChannel => chan[active[c]].conn = c /\ chan[active[c]].state # "NONE"

maps == [pending |-> pending, commit |-> commit, nextSeq |-> nextSeq]

\* The inductive invariant.
IndInv == TypeOK /\ Maps(maps) /\ ActiveConn

-----------------------------------------------------------------------------
(* Lemmas on the operators.                                                 *)

\* Which packet identities a table of send sequences has given out.
LEMMA AskedMember ==
    ASSUME NEW ns \in [Channel -> Nat \ {0}], NEW k
    PROVE  k \in Asked(ns) <=> k \in Key /\ k[2] < ns[k[1]]
  BY DEF Asked, Key

\* A send that is taken gives out one identity.
LEMMA AskedNext ==
    ASSUME NEW ns \in [Channel -> Nat \ {0}], NEW ch \in Channel
    PROVE  /\ [ns EXCEPT ![ch] = @ + 1] \in [Channel -> Nat \ {0}]
           /\ Asked([ns EXCEPT ![ch] = @ + 1]) = Asked(ns) \cup {<<ch, ns[ch]>>}
           /\ <<ch, ns[ch]>> \notin Asked(ns)
  <1> DEFINE nt == [ns EXCEPT ![ch] = @ + 1]
  <1>1. nt \in [Channel -> Nat \ {0}]
    OBVIOUS
  <1>2. ASSUME NEW k
        PROVE  k \in Asked(nt) <=> k \in Asked(ns) \/ k = <<ch, ns[ch]>>
    <2>1. k \in Asked(nt) <=> k \in Key /\ k[2] < nt[k[1]]
      BY <1>1, AskedMember
    <2>2. k \in Asked(ns) <=> k \in Key /\ k[2] < ns[k[1]]
      BY AskedMember
    <2>3. k = <<ch, ns[ch]>> <=> k \in Key /\ k[1] = ch /\ k[2] = ns[ch]
      BY DEF Key
    <2>4. k \in Key => k[1] \in Channel /\ k[2] \in Nat
      BY DEF Key
    <2> QED
      BY <2>1, <2>2, <2>3, <2>4
  <1>3. <<ch, ns[ch]>> \notin Asked(ns)
    BY AskedMember DEF Key
  <1> QED
    BY <1>1, <1>2, <1>3

\* What one packet leaves of the maps: nothing when it is not sent, and both
\* of its entries when it is.
LEMMA SendKeeps ==
    ASSUME TypeOK, ActiveConn, NEW s, Maps(s), s = [pending |-> s.pending, commit |-> s.commit, nextSeq |-> s.nextSeq],
           NEW conn \in Connection, NEW store \in Store, NEW up \in BOOLEAN, NEW time \in Nat
    PROVE  LET t == SendKVQuery(s, conn, store, up, time)
           IN  /\ Maps(t) /\ Grows(s, t)
               /\ t = [pending |-> t.pending, commit |-> t.commit, nextSeq |-> t.nextSeq]
               /\ t.nextSeq # s.nextSeq => <<active[conn], s.nextSeq[active[conn]]>> \in Key
  <1> DEFINE ch == active[conn]
             k  == <<ch, s.nextSeq[ch]>>
             q  == [store |-> store, conn |-> conn]
             p  == Put(s.pending, k, q)
             t  == SendKVQuery(s, conn, store, up, time)
  <1>1. CASE ch = NoChannel
    <2>1. t = s
      BY <1>1 DEF SendKVQuery
    <2> QED
      BY <2>1 DEF Grows
  <1>2. CASE ch # NoChannel
    <2>1. ch \in Channel /\ chan[ch].conn = conn /\ chan[ch].state # "NONE"
      BY <1>2 DEF TypeOK, ActiveConn
    <2>2. s.nextSeq \in [Channel -> Nat \ {0}] /\ k \in Key
      BY <2>1 DEF Maps, Key
    <2>3. k \notin DOMAIN s.commit /\ k \notin DOMAIN s.pending
      BY <2>1, <2>2 DEF Maps, Key
    <2>4. CASE ~SendPacket(ch, up)
      <3>1. t = [s EXCEPT !.pending = Drop(p, k)]
        BY <1>2, <2>4 DEF SendKVQuery, AfterFailedSend
      <3>2. DOMAIN Drop(p, k) = DOMAIN s.pending /\ \A j \in DOMAIN s.pending : Drop(p, k)[j] = s.pending[j]
        BY <2>3 DEF Drop, Put, Restrict
      <3>3. t.commit = s.commit /\ t.nextSeq = s.nextSeq /\ t.pending = Drop(p, k)
            /\ t = [pending |-> t.pending, commit |-> t.commit, nextSeq |-> t.nextSeq]
        BY <3>1
      <3> HIDE DEF t, p, k, q
      <3>4. Maps(t)
        BY <3>2, <3>3 DEF Maps
      <3>5. Grows(s, t)
        BY <3>2, <3>3 DEF Grows
      <3> QED
        BY <3>3, <3>4, <3>5 DEF t
    <2>5. CASE SendPacket(ch, up)
      <3> DEFINE r == [store |-> store, sentAt |-> time, reply |-> NoReply]
                 n == [s.nextSeq EXCEPT ![ch] = @ + 1]
      <3>1. t = [pending |-> p, commit |-> Put(s.commit, k, r), nextSeq |-> n]
        BY <1>2, <2>5 DEF SendKVQuery
      <3>2. /\ DOMAIN p = DOMAIN s.pending \cup {k}
            /\ p[k] = q /\ \A j \in DOMAIN s.pending : p[j] = s.pending[j]
        BY <2>3 DEF Put
      <3>3. /\ DOMAIN Put(s.commit, k, r) = DOMAIN s.commit \cup {k}
            /\ Put(s.commit, k, r)[k] = r
            /\ \A j \in DOMAIN s.commit : Put(s.commit, k, r)[j] = s.commit[j]
        BY <2>3 DEF Put
      <3>4. r \in Packet /\ q \in Query
        BY DEF Packet, Query
      <3>5. t.pending = p /\ t.commit = Put(s.commit, k, r) /\ t.nextSeq = n
            /\ t = [pending |-> t.pending, commit |-> t.commit, nextSeq |-> t.nextSeq]
        BY <3>1
      <3>6. /\ n \in [Channel -> Nat \ {0}] /\ Asked(n) = Asked(s.nextSeq) \cup {k}
            /\ k \notin Asked(s.nextSeq)
        BY <2>1, <2>2, AskedNext
      <3>7. /\ k[1] = ch /\ k[2] = s.nextSeq[ch] /\ q.store = r.store /\ q.conn = conn
            /\ n[ch] = s.nextSeq[ch] + 1 /\ s.nextSeq[ch] \in Nat
            /\ \A j \in Key : j[1] \in Channel /\ j[2] \in Nat /\ s.nextSeq[j[1]] <= n[j[1]]
                              /\ s.nextSeq[j[1]] \in Nat /\ n[j[1]] \in Nat
        BY <2>1, <2>2 DEF Key
      <3> HIDE DEF t, p, k, q, r, n, ch
      <3>8. Maps(t)
        <4>1. /\ t.nextSeq \in [Channel -> Nat \ {0}]
              /\ DOMAIN t.commit \subseteq Key
              /\ \A j \in DOMAIN t.commit : t.commit[j] \in Packet
              /\ DOMAIN t.pending \subseteq Key
              /\ \A j \in DOMAIN t.pending : t.pending[j] \in Query
          BY <2>2, <3>2, <3>3, <3>4, <3>5, <3>6 DEF Maps
        <4>2. ASSUME NEW j \in DOMAIN t.commit
              PROVE  j[2] < t.nextSeq[j[1]] /\ chan[j[1]].state # "NONE"
          <5>1. CASE j = k
            BY <5>1, <2>1, <3>5, <3>7
          <5>2. CASE j \in DOMAIN s.commit
            <6>1. j \in Key /\ j[2] < s.nextSeq[j[1]] /\ chan[j[1]].state # "NONE"
              BY <5>2 DEF Maps
            <6> QED
              BY <6>1, <3>5, <3>7
          <5> QED
            BY <5>1, <5>2, <3>3, <3>5
        <4>3. ASSUME NEW j \in DOMAIN t.pending
              PROVE  /\ j \in DOMAIN t.commit
                     /\ t.pending[j].store = t.commit[j].store
                     /\ t.pending[j].conn = chan[j[1]].conn
          <5>1. CASE j = k
            BY <5>1, <2>1, <3>2, <3>3, <3>5, <3>7
          <5>2. CASE j \in DOMAIN s.pending
            <6>1. /\ j \in DOMAIN s.commit /\ s.pending[j].store = s.commit[j].store
                  /\ s.pending[j].conn = chan[j[1]].conn
              BY <5>2 DEF Maps
            <6> QED
              BY <5>2, <6>1, <3>2, <3>3, <3>5
          <5> QED
            BY <5>1, <5>2, <3>2, <3>5
        <4> QED
          BY <4>1, <4>2, <4>3 DEF Maps
      <3>9. Grows(s, t)
        BY <3>2, <3>3, <3>5, <3>6 DEF Grows
      <3> QED
        BY <2>2, <3>5, <3>8, <3>9 DEF t, k, ch
    <2> QED
      BY <2>4, <2>5
  <1> QED
    BY <1>1, <1>2

\* Correlations gained in two sends are gained in all.
LEMMA GrowsTransitive ==
    ASSUME NEW s, NEW t, NEW u, Grows(s, t), Grows(t, u)
    PROVE  Grows(s, u)
  <1> DEFINE A == Asked(s.nextSeq)
             B == Asked(t.nextSeq)
             C == Asked(u.nextSeq)
  <1>1. A \subseteq B /\ B \subseteq C
    BY DEF Grows
  <1>2. DOMAIN t.pending = DOMAIN s.pending \cup (B \ A) /\ DOMAIN u.pending = DOMAIN t.pending \cup (C \ B)
    BY DEF Grows
  <1>3. DOMAIN s.commit \subseteq DOMAIN u.commit
    BY DEF Grows
  <1>4. Grows(s, u) <=> /\ A \subseteq C
                        /\ DOMAIN u.pending = DOMAIN s.pending \cup (C \ A)
                        /\ DOMAIN s.commit \subseteq DOMAIN u.commit
    BY DEF Grows
  <1> HIDE DEF A, B, C
  <1> QED
    BY <1>1, <1>2, <1>3, <1>4

Triple(s) == s = [pending |-> s.pending, commit |-> s.commit, nextSeq |-> s.nextSeq]

IdType == [{"twap", "spot"} -> Key \cup {NoQuery}]

\* Registering one query by its name.
LEMMA RegisterKeeps ==
    ASSUME TypeOK, ActiveConn, NEW r, Maps(r.s), Triple(r.s), r.ids \in IdType,
           params.conn \in Connection, NEW name \in {"twap", "spot"}, NEW store \in Store,
           NEW up \in BOOLEAN, NEW time \in Nat
    PROVE  LET v == RegisterKVQuery(r, name, store, up, time)
           IN  Maps(v.s) /\ Triple(v.s) /\ Grows(r.s, v.s) /\ v.ids \in IdType
  <1> DEFINE s == r.s
             t == SendKVQuery(s, params.conn, store, up, time)
             k == <<active[params.conn], s.nextSeq[active[params.conn]]>>
             v == RegisterKVQuery(r, name, store, up, time)
  <1>1. /\ Maps(t) /\ Grows(s, t) /\ Triple(t)
        /\ t.nextSeq # s.nextSeq => k \in Key
    BY SendKeeps DEF Triple
  <1>2. v = [s |-> t, ids |-> IF t.nextSeq # s.nextSeq THEN [r.ids EXCEPT ![name] = k] ELSE r.ids]
    BY DEF RegisterKVQuery
  <1> HIDE DEF t, k, s, v
  <1>3. v.s = t /\ v.ids = IF t.nextSeq # s.nextSeq THEN [r.ids EXCEPT ![name] = k] ELSE r.ids
    BY <1>2
  <1>4. v.ids \in IdType
    BY <1>1, <1>3 DEF IdType
  <1> QED
    BY <1>1, <1>3, <1>4 DEF v, s

\* What the scheduler's queries leave of the maps.
LEMMA QueriesKeep ==
    ASSUME IndInv, NEW up \in BOOLEAN, NEW time \in Nat
    PROVE  LET r == RegisterQueries(up, time)
           IN  Maps(r.s) /\ Triple(r.s) /\ Grows(maps, r.s) /\ r.ids \in IdType
  <1> DEFINE r0 == [s |-> maps, ids |-> queryIDs]
             r1 == IF params.useTwap THEN RegisterKVQuery(r0, "twap", "twap", up, time) ELSE r0
             r2 == RegisterKVQuery(r1, "spot", "gamm", up, time)
             r  == RegisterQueries(up, time)
  <1>1. r = IF params.conn = "" THEN r0 ELSE r2
    BY DEF RegisterQueries, maps
  <1>2. r0.s = maps /\ r0.ids = queryIDs /\ Triple(maps)
    BY DEF maps, Triple
  <1>3. TypeOK /\ ActiveConn /\ Maps(maps) /\ queryIDs \in IdType /\ params.conn \in Connection \cup {""}
    BY DEF IndInv, TypeOK, IdType, ParamType, Proposal
  <1>4. Grows(maps, maps)
    BY DEF Grows
  <1>5. CASE params.conn = ""
    BY <1>1, <1>2, <1>3, <1>4, <1>5
  <1>6. CASE params.conn # ""
    <2>1. params.conn \in Connection
      BY <1>3, <1>6
    <2>2. Maps(r0.s) /\ Triple(r0.s) /\ r0.ids \in IdType
      BY <1>2, <1>3
    <2>3. Maps(r1.s) /\ Triple(r1.s) /\ Grows(maps, r1.s) /\ r1.ids \in IdType
      <3>1. CASE params.useTwap
        <4> DEFINE v == RegisterKVQuery(r0, "twap", "twap", up, time)
        <4>1. r1 = v
          BY <3>1
        <4> HIDE DEF r0, r1
        <4>2. Maps(v.s) /\ Triple(v.s) /\ Grows(r0.s, v.s) /\ v.ids \in IdType
          BY <1>3, <2>1, <2>2, RegisterKeeps DEF Store
        <4> HIDE DEF v
        <4> QED
          BY <1>2, <4>1, <4>2
      <3>2. CASE ~params.useTwap
        <4>1. r1 = r0
          BY <3>2
        <4> HIDE DEF r0, r1
        <4> QED
          BY <1>2, <1>4, <2>2, <4>1
      <3> QED
        BY <3>1, <3>2
    <2> HIDE DEF r0, r1
    <2>4. Maps(r2.s) /\ Triple(r2.s) /\ Grows(r1.s, r2.s) /\ r2.ids \in IdType
      BY <1>3, <2>1, <2>3, RegisterKeeps DEF Store
    <2> HIDE DEF r2
    <2>5. Grows(maps, r2.s)
      BY <2>3, <2>4, GrowsTransitive
    <2>6. r = r2
      BY <1>1, <1>6
    <2> QED
      BY <2>4, <2>5, <2>6
  <1> QED
    BY <1>5, <1>6

\* Taking one entry out of a map.
LEMMA DropMember ==
    ASSUME NEW f, NEW k
    PROVE  DOMAIN Drop(f, k) = DOMAIN f \ {k} /\ \A j \in DOMAIN f \ {k} : Drop(f, k)[j] = f[j]
  BY DEF Drop, Restrict

\* A division of decimals gives a decimal.
LEMMA QuoType ==
    ASSUME NEW a \in Int, NEW b \in Int, b # 0
    PROVE  Quo(a, b) \in Int
  <1>1. ASSUME NEW x \in Int, NEW y \in Int, y > 0
        PROVE  QuoAbs(x, y) \in Int
    <2>1. One \in Int
      BY OneAssumption
    <2>2. x * One \in Int
      BY <2>1
    <2> DEFINE m == x * One
    <2>3. QuoAbs(x, y) \in {m \div y, (m \div y) + 1}
      BY DEF QuoAbs
    <2> HIDE DEF m
    <2>4. m \div y \in Int
      BY <1>1, <2>2 DEF m
    <2> QED
      BY <2>3, <2>4
  <1>2. Abs(a) \in Int /\ Abs(b) \in Int /\ Abs(b) > 0
    BY DEF Abs
  <1>3. QuoAbs(Abs(a), Abs(b)) \in Int
    BY <1>1, <1>2
  <1> QED
    BY <1>3 DEF Quo

LEMMA NormalizeType ==
    ASSUME NEW price \in Int
    PROVE  NormalizeToCSVPerUSD(price) \in Int
  BY QuoType, OneAssumption DEF NormalizeToCSVPerUSD

-----------------------------------------------------------------------------
(* The inductive invariant.                                                 *)

LEMMA InitInv == Init => IndInv
  <1> SUFFICES ASSUME Init PROVE IndInv
    OBVIOUS
  <1>0. DOMAIN EmptyMap = {}
    BY DEF EmptyMap
  <1> USE DEF Init, IcqInit
  <1>1. TypeOK
    <2>1. chan \in [Channel -> ChannelEnd]
      <3> DEFINE c0 == CHOOSE c \in Connection : TRUE
      <3>1. c0 \in Connection
        BY ConnectionAssumption
      <3> HIDE DEF c0
      <3> QED
        BY <3>1 DEF ChannelEnd, Order
    <2> QED
      BY <1>0, <2>1, OsmosisAssumption DEF TypeOK, Time, NoTime
  <1>2. Maps(maps)
    BY <1>0 DEF Maps, maps
  <1>3. ActiveConn
    BY DEF ActiveConn
  <1> QED
    BY <1>1, <1>2, <1>3 DEF IndInv

LEMMA BeginBlockInv ==
    ASSUME IndInv, NEW up \in BOOLEAN, BeginBlock(up)
    PROVE  IndInv' /\ (Due(now + 1) => Grows(maps, maps'))
  <1>1. now + 1 \in Nat
    BY DEF IndInv, TypeOK
  <1>2. CASE ~Due(now + 1)
    <2>1. UNCHANGED <<chan, active, params, lastResultTime, csvPrice, nextSeq, commit, pending,
                      lastUpdate, nextUpdate, queryIDs>> /\ now' = now + 1
      BY <1>2 DEF BeginBlock, ScheduleQueriesIfDue
    <2>2. TypeOK' /\ Maps(maps)' /\ ActiveConn'
      BY <1>1, <2>1 DEF IndInv, TypeOK, Maps, maps, ActiveConn
    <2> QED
      BY <1>2, <2>2 DEF IndInv
  <1>3. CASE Due(now + 1)
    <2> DEFINE r == RegisterQueries(up, now + 1)
    <2>1. Maps(r.s) /\ Triple(r.s) /\ Grows(maps, r.s) /\ r.ids \in IdType
      BY <1>1, QueriesKeep
    <2>2. /\ pending' = r.s.pending /\ commit' = r.s.commit /\ nextSeq' = r.s.nextSeq
          /\ queryIDs' = r.ids
          /\ lastUpdate' = now + 1
          /\ nextUpdate' = now + 1 + params.interval
          /\ now' = now + 1
          /\ UNCHANGED <<chan, active, params, lastResultTime, csvPrice>>
      BY <1>3 DEF BeginBlock, ScheduleQueriesIfDue
    <2> HIDE DEF r
    <2>3. maps' = r.s
      BY <2>1, <2>2 DEF maps, Triple
    <2>4. Maps(maps)'
      BY <2>1, <2>2, <2>3 DEF Maps
    <2>5. ActiveConn'
      BY <2>2 DEF IndInv, ActiveConn
    <2>6. TypeOK'
      <3>1. params.interval \in Nat
        BY DEF IndInv, TypeOK, ParamType, Proposal
      <3>2. now + 1 + params.interval \in Nat
        BY <1>1, <3>1
      <3>3. /\ DOMAIN commit' \subseteq Key /\ \A k \in DOMAIN commit' : commit'[k] \in Packet
            /\ DOMAIN pending' \subseteq Key /\ \A k \in DOMAIN pending' : pending'[k] \in Query
            /\ nextSeq' \in [Channel -> Nat \ {0}]
        BY <2>1, <2>2 DEF Maps
      <3>4. queryIDs' \in [{"twap", "spot"} -> Key \cup {NoQuery}]
        BY <2>1, <2>2 DEF IdType
      <3>5. /\ now' \in Nat /\ lastUpdate' \in Time /\ nextUpdate' \in Time
        BY <1>1, <2>2, <3>2 DEF Time
      <3>6. /\ chan' \in [Channel -> ChannelEnd] /\ active' \in [Connection -> Channel \cup {NoChannel}]
            /\ params' \in ParamType /\ lastResultTime' \in Time /\ csvPrice' \in Int
        BY <2>2 DEF IndInv, TypeOK
      <3> QED
        BY <3>3, <3>4, <3>5, <3>6 DEF TypeOK
    <2> QED
      BY <2>1, <2>3, <2>4, <2>5, <2>6 DEF IndInv
  <1> QED
    BY <1>2, <1>3

\* The handshake changes a channel that no packet uses, or the state of one
\* that is in use.
LEMMA OpenInv ==
    ASSUME IndInv, UNCHANGED feedVars, NEW ch \in Channel, NEW conn \in Connection,
           NEW order \in Order, NEW version, NEW state \in {"INIT", "TRYOPEN"},
           OnChanOpen(ch, conn, order, version, state)
    PROVE  IndInv'
  <1> USE DEF OnChanOpen, feedVars
  <1>1. [state |-> state, conn |-> conn, order |-> order] \in ChannelEnd
    BY DEF ChannelEnd
  <1>2. chan' \in [Channel -> ChannelEnd]
    BY <1>1 DEF IndInv, TypeOK
  <1>3. /\ \A d \in Channel \ {ch} : chan'[d] = chan[d]
        /\ chan'[ch].conn = conn /\ chan'[ch].state # "NONE"
    BY DEF IndInv, TypeOK
  <1>4. TypeOK'
    BY <1>2 DEF IndInv, TypeOK
  <1>5. Maps(maps)'
    <2>1. maps' = maps
      BY DEF maps
    <2>2. \A k \in DOMAIN commit : k[1] \in Channel \ {ch}
      <3>1. \A k \in DOMAIN commit : k \in Key /\ chan[k[1]].state # "NONE"
        BY DEF IndInv, Maps, maps
      <3> QED
        BY <3>1 DEF Key
    <2>3. DOMAIN pending \subseteq DOMAIN commit
      BY DEF IndInv, Maps, maps
    <2> QED
      BY <1>3, <2>1, <2>2, <2>3 DEF IndInv, Maps, maps
  <1>6. ActiveConn'
    <2>1. SUFFICES ASSUME NEW c \in Connection, active'[c] # NoChannel
                   PROVE  chan'[active'[c]].conn = c /\ chan'[active'[c]].state # "NONE"
      BY DEF ActiveConn
    <2>2. CASE c = conn
      <3>1. active'[c] = ch
        BY <2>2 DEF IndInv, TypeOK
      <3> QED
        BY <1>3, <2>2, <3>1
    <2>3. CASE c # conn
      <3>1. active'[c] = active[c] /\ active[c] \in Channel
        BY <2>1, <2>3 DEF IndInv, TypeOK
      <3>2. chan[active[c]].conn = c /\ chan[active[c]].state # "NONE"
        BY <2>1, <3>1 DEF IndInv, ActiveConn
      <3>3. active[c] # ch
        BY <3>2
      <3> QED
        BY <1>3, <3>1, <3>2, <3>3
    <2> QED
      BY <2>2, <2>3
  <1> QED
    BY <1>4, <1>5, <1>6 DEF IndInv

\* A channel that opens or closes keeps its connection, and stays in use.
LEMMA StateInv ==
    ASSUME IndInv, UNCHANGED <<now, nextSeq, params, lastUpdate, nextUpdate, lastResultTime, queryIDs, csvPrice>>,
           NEW ch \in Channel, NEW state \in {"OPEN", "CLOSED"}, chan[ch].state # "NONE",
           chan' = [chan EXCEPT ![ch].state = state],
           active' \in [Connection -> Channel \cup {NoChannel}],
           \A c \in Connection : active'[c] \in {active[c], NoChannel},
           UNCHANGED <<commit, pending>>
    PROVE  IndInv'
  <1>1. chan \in [Channel -> ChannelEnd]
    BY DEF IndInv, TypeOK
  <1>2. chan' \in [Channel -> ChannelEnd]
    BY <1>1 DEF ChannelEnd
  <1>3. \A d \in Channel : chan'[d].conn = chan[d].conn
                         /\ (chan[d].state # "NONE" => chan'[d].state # "NONE")
    BY <1>1 DEF ChannelEnd
  <1>4. TypeOK'
    BY <1>2 DEF IndInv, TypeOK
  <1>5. Maps(maps)'
    <2>1. maps' = maps
      BY DEF maps
    <2>2. \A k \in Key : k[1] \in Channel
      BY DEF Key
    <2> QED
      BY <1>3, <2>1, <2>2 DEF IndInv, Maps, maps
  <1>6. ActiveConn'
    <2>1. SUFFICES ASSUME NEW c \in Connection, active'[c] # NoChannel
                   PROVE  chan'[active'[c]].conn = c /\ chan'[active'[c]].state # "NONE"
      BY DEF ActiveConn
    <2>2. active'[c] = active[c] /\ active[c] \in Channel
      BY <2>1 DEF IndInv, TypeOK
    <2>3. chan[active[c]].conn = c /\ chan[active[c]].state # "NONE"
      BY <2>1, <2>2 DEF IndInv, ActiveConn
    <2> QED
      BY <1>3, <2>2, <2>3
  <1> QED
    BY <1>4, <1>5, <1>6 DEF IndInv

LEMMA HandshakeInv ==
    ASSUME IndInv, Handshake, UNCHANGED feedVars
    PROVE  IndInv'
  <1>1. PICK ch \in Channel :
          \/ \E conn \in Connection, order \in Order, version \in Versions :
                \/ OnChanOpenInit(ch, conn, order, version)
                \/ OnChanOpenTry(ch, conn, order, version)
          \/ \E version \in Versions : OnChanOpenAck(ch, version)
          \/ OnChanOpenConfirm(ch)
          \/ OnChanCloseConfirm(ch)
    BY DEF Handshake
  <1>0. active \in [Connection -> Channel \cup {NoChannel}]
    BY DEF IndInv, TypeOK
  <1>2. CASE \E conn \in Connection, order \in Order, version \in Versions :
                OnChanOpenInit(ch, conn, order, version)
    BY <1>2, OpenInv DEF OnChanOpenInit
  <1>3. CASE \E conn \in Connection, order \in Order, version \in Versions :
                OnChanOpenTry(ch, conn, order, version)
    BY <1>3, OpenInv DEF OnChanOpenTry
  <1>4. CASE \E version \in Versions : OnChanOpenAck(ch, version)
    <2>1. chan[ch].state # "NONE" /\ chan' = [chan EXCEPT ![ch].state = "OPEN"]
          /\ UNCHANGED <<now, nextSeq, commit, active, pending>>
      BY <1>4 DEF OnChanOpenAck
    <2> QED
      BY <1>0, <2>1, StateInv DEF feedVars
  <1>5. CASE OnChanOpenConfirm(ch)
    <2>1. chan[ch].state # "NONE" /\ chan' = [chan EXCEPT ![ch].state = "OPEN"]
          /\ UNCHANGED <<now, nextSeq, commit, active, pending>>
      BY <1>5 DEF OnChanOpenConfirm
    <2> QED
      BY <1>0, <2>1, StateInv DEF feedVars
  <1>6. CASE OnChanCloseConfirm(ch)
    <2>1. chan[ch].state # "NONE" /\ chan' = [chan EXCEPT ![ch].state = "CLOSED"]
          /\ UNCHANGED <<now, nextSeq, commit, pending>>
          /\ active' = [active EXCEPT ![chan[ch].conn] = NoChannel]
      BY <1>6 DEF OnChanCloseConfirm
    <2>2. /\ active' \in [Connection -> Channel \cup {NoChannel}]
          /\ \A c \in Connection : active'[c] \in {active[c], NoChannel}
      BY <1>0, <2>1
    <2> QED
      BY <2>1, <2>2, StateInv DEF feedVars
  <1> QED
    BY <1>1, <1>2, <1>3, <1>4, <1>5, <1>6

\* A packet that is settled takes its correlation with it.
LEMMA SettleMaps ==
    ASSUME IndInv, NEW k, commit' = Drop(commit, k), pending' = Drop(pending, k), UNCHANGED nextSeq,
           \A d \in Channel : chan'[d].conn = chan[d].conn
                          /\ (chan[d].state # "NONE" => chan'[d].state # "NONE")
    PROVE  /\ Maps(maps)'
           /\ DOMAIN commit' \subseteq Key /\ \A j \in DOMAIN commit' : commit'[j] \in Packet
           /\ DOMAIN pending' \subseteq Key /\ \A j \in DOMAIN pending' : pending'[j] \in Query
  <1>1. /\ DOMAIN commit' = DOMAIN commit \ {k} /\ \A j \in DOMAIN commit \ {k} : commit'[j] = commit[j]
        /\ DOMAIN pending' = DOMAIN pending \ {k} /\ \A j \in DOMAIN pending \ {k} : pending'[j] = pending[j]
    BY DropMember
  <1>2. \A j \in Key : j[1] \in Channel
    BY DEF Key
  <1>3. Maps(maps)
    BY DEF IndInv
  <1>4. Maps(maps)'
    BY <1>1, <1>2, <1>3 DEF Maps, maps
  <1> QED
    BY <1>4 DEF Maps, maps

LEMMA HostRecvInv ==
    ASSUME IndInv, NEW k \in DOMAIN commit, NEW reply \in Reply, HostRecv(k, reply), UNCHANGED feedVars
    PROVE  IndInv'
  <1> USE DEF HostRecv, feedVars
  <1>1. /\ DOMAIN commit' = DOMAIN commit
        /\ \A j \in DOMAIN commit : commit'[j].store = commit[j].store /\ commit'[j] \in Packet
    <2>1. \A j \in DOMAIN commit : commit[j] \in Packet
      BY DEF IndInv, TypeOK
    <2> QED
      BY <2>1 DEF Packet
  <1>2. TypeOK'
    BY <1>1 DEF IndInv, TypeOK
  <1>3. Maps(maps)'
    BY <1>1 DEF IndInv, Maps, maps
  <1>4. ActiveConn'
    BY DEF IndInv, ActiveConn
  <1> QED
    BY <1>2, <1>3, <1>4 DEF IndInv

LEMMA TimeoutInv ==
    ASSUME IndInv, NEW k \in DOMAIN commit, HandlePacketTimeout(k), UNCHANGED feedVars
    PROVE  IndInv'
  <1> USE DEF HandlePacketTimeout, feedVars
  <1>1. k[1] \in Channel /\ chan[k[1]].state # "NONE"
    BY DEF IndInv, Maps, maps, Key
  <1>2. chan \in [Channel -> ChannelEnd]
    BY DEF IndInv, TypeOK
  <1>3. chan' \in [Channel -> ChannelEnd]
    BY <1>1, <1>2 DEF ChannelEnd
  <1>4. \A d \in Channel : chan'[d].conn = chan[d].conn
                         /\ (chan[d].state # "NONE" => chan'[d].state # "NONE")
    BY <1>1, <1>2 DEF ChannelEnd
  <1>5. /\ Maps(maps)'
        /\ DOMAIN commit' \subseteq Key /\ \A j \in DOMAIN commit' : commit'[j] \in Packet
        /\ DOMAIN pending' \subseteq Key /\ \A j \in DOMAIN pending' : pending'[j] \in Query
    BY <1>4, SettleMaps
  <1>6. TypeOK'
    BY <1>3, <1>5 DEF IndInv, TypeOK
  <1>7. ActiveConn'
    BY <1>4 DEF IndInv, TypeOK, ActiveConn
  <1> QED
    BY <1>5, <1>6, <1>7 DEF IndInv

LEMMA AckInv ==
    ASSUME IndInv, NEW k \in DOMAIN commit, OnAcknowledgementPacket(k)
    PROVE  /\ IndInv'
           /\ k \notin DOMAIN pending => UNCHANGED lastResultTime
  <1>1. /\ commit' = Drop(commit, k) /\ pending' = Drop(pending, k)
        /\ UNCHANGED <<now, chan, nextSeq, active, params, lastUpdate, nextUpdate, queryIDs>>
    BY DEF OnAcknowledgementPacket, HandlePacketAcknowledgement
  <1>2. /\ Maps(maps)'
        /\ DOMAIN commit' \subseteq Key /\ \A j \in DOMAIN commit' : commit'[j] \in Packet
        /\ DOMAIN pending' \subseteq Key /\ \A j \in DOMAIN pending' : pending'[j] \in Query
    BY <1>1, SettleMaps
  <1>3. csvPrice' \in Int /\ lastResultTime' \in Time
    <2>1. csvPrice \in Int /\ lastResultTime \in Time /\ now \in Time
      BY DEF IndInv, TypeOK, Time
    <2>2. CASE AckOutcome(k) = "delivered"
      <3> DEFINE price == NormalizeToCSVPerUSD(commit[k].reply.price)
      <3>1. commit[k].reply.price \in Int
        <4>1. commit[k] \in Packet
          BY DEF IndInv, TypeOK
        <4> QED
          BY <4>1, IcqAssumption DEF Packet, Reply, NoReply, Bare
      <3>2. price \in Int
        BY <3>1, NormalizeType
      <3>3. csvPrice' \in {price, csvPrice} /\ lastResultTime' \in {now, lastResultTime}
        BY <2>2 DEF OnAcknowledgementPacket, OnKVResult, ValidateAndPersistPrice
      <3> QED
        BY <2>1, <3>2, <3>3
    <2>3. CASE AckOutcome(k) # "delivered"
      BY <2>1, <2>3 DEF OnAcknowledgementPacket
    <2> QED
      BY <2>2, <2>3
  <1>4. TypeOK'
    BY <1>1, <1>2, <1>3 DEF IndInv, TypeOK
  <1>5. ActiveConn'
    BY <1>1 DEF IndInv, ActiveConn
  <1>6. k \notin DOMAIN pending => UNCHANGED lastResultTime
    BY DEF OnAcknowledgementPacket, AckOutcome
  <1> QED
    BY <1>2, <1>4, <1>5, <1>6 DEF IndInv

LEMMA QuietInv ==
    ASSUME IndInv, UNCHANGED icqVars,
           \/ \E p \in ParamChoices : UpdateParams(p)
           \/ \E price \in OraclePrices : SetPrice(price)
           \/ UNCHANGED feedVars
    PROVE  IndInv' /\ UNCHANGED lastResultTime
  <1>1. /\ UNCHANGED <<now, chan, nextSeq, commit, active, pending>>
        /\ UNCHANGED <<lastUpdate, nextUpdate, lastResultTime, queryIDs>>
        /\ params' \in ParamType /\ csvPrice' \in Int
    <2>0. params \in ParamType /\ csvPrice \in Int
      BY DEF IndInv, TypeOK
    <2>1. ASSUME NEW p \in ParamChoices, UpdateParams(p)
          PROVE  p \in ParamType
      <3>1. p \in Proposal /\ p.maxDev >= 0
        BY <2>1, OsmosisAssumption DEF UpdateParams, Validate
      <3>2. p.maxDev \in Int
        BY <3>1 DEF Proposal
      <3>3. p.maxDev \in Nat
        BY <3>1, <3>2
      <3> QED
        BY <3>1, <3>3 DEF ParamType
    <2>2. CASE \E p \in ParamChoices : UpdateParams(p)
      BY <2>0, <2>1, <2>2 DEF UpdateParams, icqVars
    <2>3. CASE \E price \in OraclePrices : SetPrice(price)
      BY <2>0, <2>3, OsmosisAssumption DEF SetPrice, icqVars
    <2>4. CASE UNCHANGED feedVars
      BY <2>0, <2>4 DEF feedVars, icqVars
    <2> QED
      BY <2>2, <2>3, <2>4
  <1> QED
    BY <1>1 DEF IndInv, TypeOK, Maps, maps, ActiveConn

LEMMA ExportImportInv ==
    ASSUME IndInv, ExportImport
    PROVE  IndInv'
  <1> USE DEF ExportImport, ExportImportIcq
  <1>0. DOMAIN pending' = {}
    BY DEF EmptyMap
  <1>1. TypeOK'
    BY <1>0 DEF IndInv, TypeOK, Time, NoTime
  <1>2. Maps(maps)'
    BY <1>0 DEF IndInv, Maps, maps
  <1>3. ActiveConn'
    BY DEF ActiveConn
  <1> QED
    BY <1>1, <1>2, <1>3 DEF IndInv

LEMMA NextInv == IndInv /\ [Next]_vars => IndInv'
  <1> SUFFICES ASSUME IndInv, [Next]_vars PROVE IndInv'
    OBVIOUS
  <1>1. CASE \E up \in BOOLEAN : BeginBlock(up)
    BY <1>1, BeginBlockInv
  <1>2. CASE Handshake /\ UNCHANGED feedVars
    BY <1>2, HandshakeInv
  <1>3. CASE Relay /\ UNCHANGED feedVars
    BY <1>3, HostRecvInv, TimeoutInv DEF Relay
  <1>4. CASE \E k \in DOMAIN commit : OnAcknowledgementPacket(k)
    BY <1>4, AckInv
  <1>5. CASE \E p \in ParamChoices : UpdateParams(p)
    BY <1>5, QuietInv DEF UpdateParams
  <1>6. CASE \E price \in OraclePrices : SetPrice(price)
    BY <1>6, QuietInv DEF SetPrice
  <1>7. CASE ExportImport
    BY <1>7, ExportImportInv
  <1>8. CASE UNCHANGED vars
    BY <1>8, QuietInv DEF vars
  <1> QED
    BY <1>1, <1>2, <1>3, <1>4, <1>5, <1>6, <1>7, <1>8 DEF Next

\* IndInv holds in every reachable state.
THEOREM IcqInvariant == Spec => []IndInv
  BY InitInv, NextInv, PTL DEF Spec

\* The state of the feed keeps its type.
THEOREM IcqTypeCorrect == Spec => []TypeOK
  <1>1. IndInv => TypeOK
    BY DEF IndInv
  <1> QED
    BY <1>1, IcqInvariant, PTL

\* Every correlation the controller keeps is that of a packet in flight.
THEOREM PendingAlwaysInFlight == Spec => []PendingInFlight
  <1>1. IndInv => PendingInFlight
    BY DEF IndInv, Maps, maps, PendingInFlight
  <1> QED
    BY <1>1, IcqInvariant, PTL

-----------------------------------------------------------------------------
(* What a step does to the queries that wait.                               *)

AskedNow == Asked(nextSeq)

\* A block gains the correlations of the packets it sends, an answer or a
\* timeout takes one away with its packet, an import takes all.
Moves ==
    \/ /\ AskedNow \subseteq AskedNow' /\ UNCHANGED lastResultTime
       /\ DOMAIN pending' = DOMAIN pending \cup (AskedNow' \ AskedNow)
    \/ \E k \in DOMAIN pending :
          /\ DOMAIN pending' = DOMAIN pending \ {k}
          /\ k \notin DOMAIN commit'
          /\ UNCHANGED nextSeq
    \/ ExportImport

LEMMA NextMoves ==
    ASSUME IndInv, [Next]_vars
    PROVE  Moves
  <1>0. ASSUME UNCHANGED <<nextSeq, lastResultTime>>, DOMAIN pending' = DOMAIN pending
        PROVE  Moves
    BY <1>0 DEF Moves, AskedNow
  <1>1. CASE \E up \in BOOLEAN : BeginBlock(up)
    <2>1. PICK up \in BOOLEAN : BeginBlock(up)
      BY <1>1
    <2>2. CASE Due(now + 1)
      <3>1. Grows(maps, maps')
        BY <2>1, <2>2, BeginBlockInv
      <3>2. UNCHANGED lastResultTime
        BY <2>1 DEF BeginBlock
      <3> QED
        BY <3>1, <3>2 DEF Moves, Grows, maps, AskedNow
    <2>3. CASE ~Due(now + 1)
      BY <1>0, <2>1, <2>3 DEF BeginBlock, ScheduleQueriesIfDue
    <2> QED
      BY <2>2, <2>3
  <1>2. CASE Handshake /\ UNCHANGED feedVars
    BY <1>0, <1>2 DEF Handshake, feedVars, OnChanOpenInit, OnChanOpenTry, OnChanOpen, OnChanOpenAck,
                      OnChanOpenConfirm, OnChanCloseConfirm
  <1>a. ASSUME NEW k, commit' = Drop(commit, k), pending' = Drop(pending, k), UNCHANGED nextSeq,
               k \notin DOMAIN pending => UNCHANGED lastResultTime
        PROVE  Moves
    <2>1. DOMAIN commit' = DOMAIN commit \ {k} /\ DOMAIN pending' = DOMAIN pending \ {k}
      BY <1>a, DropMember
    <2>2. CASE k \in DOMAIN pending
      BY <1>a, <2>1, <2>2 DEF Moves
    <2>3. CASE k \notin DOMAIN pending
      BY <1>0, <1>a, <2>1, <2>3
    <2> QED
      BY <2>2, <2>3
  <1>3. CASE Relay /\ UNCHANGED feedVars
    <2>1. PICK k \in DOMAIN commit : (\E reply \in Reply : HostRecv(k, reply)) \/ HandlePacketTimeout(k)
      BY <1>3 DEF Relay
    <2>2. CASE \E reply \in Reply : HostRecv(k, reply)
      BY <1>0, <1>3, <2>2 DEF HostRecv, feedVars
    <2>3. CASE HandlePacketTimeout(k)
      BY <1>3, <1>a, <2>3 DEF HandlePacketTimeout, feedVars
    <2> QED
      BY <2>1, <2>2, <2>3
  <1>4. CASE \E k \in DOMAIN commit : OnAcknowledgementPacket(k)
    <2>1. PICK k \in DOMAIN commit : OnAcknowledgementPacket(k)
      BY <1>4
    <2>2. k \notin DOMAIN pending => UNCHANGED lastResultTime
      BY <2>1, AckInv
    <2> QED
      BY <1>a, <2>1, <2>2 DEF OnAcknowledgementPacket, HandlePacketAcknowledgement
  <1>5. CASE \E p \in ParamChoices : UpdateParams(p)
    BY <1>0, <1>5 DEF UpdateParams, icqVars
  <1>6. CASE \E price \in OraclePrices : SetPrice(price)
    BY <1>0, <1>6 DEF SetPrice, icqVars
  <1>7. CASE ExportImport
    BY <1>7 DEF Moves
  <1>8. CASE UNCHANGED vars
    BY <1>0, <1>8 DEF vars, icqVars, feedVars
  <1> QED
    BY <1>1, <1>2, <1>3, <1>4, <1>5, <1>6, <1>7, <1>8 DEF Next

\* No correlation is lost while its packet is in flight, except by an import.
THEOREM NeverForgotten == Spec => NotForgotten
  <1>1. ASSUME IndInv, [Next]_vars
        PROVE  \A k \in DOMAIN pending :
                  k \in DOMAIN commit' => k \in DOMAIN pending' \/ ExportImport
    <2>1. Moves
      BY <1>1, NextMoves
    <2> QED
      BY <2>1 DEF Moves
  <1>2. IndInv /\ [Next]_vars =>
          [\A k \in DOMAIN pending :
              k \in DOMAIN commit' => k \in DOMAIN pending' \/ ExportImport]_vars
    BY <1>1
  <1> QED
    BY <1>2, IcqInvariant, PTL DEF Spec, NotForgotten

\* The feed implements the ledger: a query has an identity of its own and is
\* settled at most once, and a result is recorded only by settling one.
THEOREM FeedImplementsLedger == Spec => LedgerSpec
  <1>1. Init => Ledger!Init
    <2> SUFFICES ASSUME Init PROVE Ledger!Init
      OBVIOUS
    <2>1. \A ch \in Channel : 1 .. nextSeq[ch] - 1 = {}
      BY DEF Init, IcqInit
    <2>2. UNION {{ch} \X (1 .. nextSeq[ch] - 1) : ch \in Channel} = {}
      BY <2>1
    <2>3. DOMAIN pending = {} /\ lastResultTime = -1
      BY DEF Init, IcqInit, EmptyMap, NoTime
    <2> QED
      BY <2>2, <2>3 DEF Ledger!Init
  <1>2. IndInv /\ [Next]_vars => [Ledger!Next]_(Ledger!ledger)
    <2> SUFFICES ASSUME IndInv, [Next]_vars PROVE [Ledger!Next]_(Ledger!ledger)
      OBVIOUS
    <2>0. /\ AskedNow = UNION {{ch} \X (1 .. nextSeq[ch] - 1) : ch \in Channel}
          /\ AskedNow' = UNION {{ch} \X (1 .. nextSeq'[ch] - 1) : ch \in Channel}
      BY DEF AskedNow, Asked
    <2>1. Moves
      BY NextMoves
    <2>2. CASE /\ AskedNow \subseteq AskedNow' /\ UNCHANGED lastResultTime
               /\ DOMAIN pending' = DOMAIN pending \cup (AskedNow' \ AskedNow)
      <3>1. CASE AskedNow' \ AskedNow = {}
        <4>1. AskedNow' = AskedNow /\ DOMAIN pending' = DOMAIN pending
          BY <2>2, <3>1
        <4> QED
          BY <2>0, <2>2, <4>1 DEF Ledger!ledger
      <3>2. CASE AskedNow' \ AskedNow # {}
        <4>1. Ledger!Ask
          BY <2>0, <2>2, <3>2 DEF Ledger!Ask
        <4> QED
          BY <4>1 DEF Ledger!Next
      <3> QED
        BY <3>1, <3>2
    <2>3. CASE \E k \in DOMAIN pending :
                 DOMAIN pending' = DOMAIN pending \ {k} /\ UNCHANGED nextSeq
      <3>1. Ledger!Settle
        BY <2>3 DEF Ledger!Settle
      <3> QED
        BY <3>1 DEF Ledger!Next
    <2>4. CASE ExportImport
      <3>1. Ledger!Forget
        BY <2>4 DEF Ledger!Forget, ExportImport, ExportImportIcq, EmptyMap, NoTime
      <3> QED
        BY <3>1 DEF Ledger!Next
    <2> QED
      BY <2>1, <2>2, <2>3, <2>4 DEF Moves
  <1> QED
    BY <1>1, <1>2, IcqInvariant, PTL DEF Spec, LedgerSpec, Ledger!Spec

-----------------------------------------------------------------------------
(* The channel mapping.                                                     *)

\* A mapped channel that is closed is an ordered one.
ClosedByCore ==
    \A c \in Connection :
        active[c] # NoChannel /\ chan[active[c]].state = "CLOSED"
            => chan[active[c]].order = "ORDERED"

\* What a step that touches one channel has to show.
LEMMA MappingStep ==
    ASSUME IndInv, ClosedByCore, NEW ch \in Channel, NEW end \in ChannelEnd,
           chan' = [chan EXCEPT ![ch] = end],
           active' \in [Connection -> Channel \cup {NoChannel}],
           \A c \in Connection : active'[c] \in {active[c], ch, NoChannel},
           \A c \in Connection : active'[c] = ch => (end.state = "CLOSED" => end.order = "ORDERED")
    PROVE  ClosedByCore'
  <1>1. chan \in [Channel -> ChannelEnd] /\ NoChannel \notin Channel
    BY IcqAssumption DEF IndInv, TypeOK
  <1>2. SUFFICES ASSUME NEW c \in Connection, active'[c] # NoChannel,
                        chan'[active'[c]].state = "CLOSED"
                 PROVE  chan'[active'[c]].order = "ORDERED"
    BY DEF ClosedByCore
  <1>3. active'[c] \in Channel
    BY <1>2
  <1>4. CASE active'[c] = ch
    BY <1>1, <1>2, <1>4
  <1>5. CASE active'[c] # ch
    <2>1. active'[c] = active[c] /\ chan'[active'[c]] = chan[active[c]]
      BY <1>1, <1>2, <1>3, <1>5
    <2> QED
      BY <1>2, <2>1 DEF ClosedByCore
  <1> QED
    BY <1>4, <1>5

\* Every step keeps closed channels out of the mapping, ordered ones apart.
LEMMA MappingNext == IndInv /\ ClosedByCore /\ [Next]_vars => ClosedByCore'
  <1> SUFFICES ASSUME IndInv, ClosedByCore, [Next]_vars PROVE ClosedByCore'
    OBVIOUS
  <1>1. /\ chan \in [Channel -> ChannelEnd]
        /\ active \in [Connection -> Channel \cup {NoChannel}]
        /\ DOMAIN commit \subseteq Key
    BY DEF IndInv, TypeOK
  <1>2. CASE UNCHANGED <<chan, active>>
    BY <1>2 DEF ClosedByCore
  <1>3. CASE ExportImport
    BY <1>3 DEF ExportImport, ExportImportIcq, ClosedByCore
  <1>4. CASE Handshake
    <2>1. PICK ch \in Channel :
            \/ \E conn \in Connection, order \in Order, version \in Versions :
                  \/ OnChanOpenInit(ch, conn, order, version)
                  \/ OnChanOpenTry(ch, conn, order, version)
            \/ \E version \in Versions : OnChanOpenAck(ch, version)
            \/ OnChanOpenConfirm(ch)
            \/ OnChanCloseConfirm(ch)
      BY <1>4 DEF Handshake
    <2>2. ASSUME NEW conn \in Connection, NEW order \in Order, NEW version,
                 NEW state \in {"INIT", "TRYOPEN"}, OnChanOpen(ch, conn, order, version, state)
          PROVE  ClosedByCore'
      <3> DEFINE end == [state |-> state, conn |-> conn, order |-> order]
      <3>1. end \in ChannelEnd /\ end.state # "CLOSED"
        BY DEF ChannelEnd
      <3>2. chan' = [chan EXCEPT ![ch] = end] /\ active' = [active EXCEPT ![conn] = ch]
        BY <2>2 DEF OnChanOpen
      <3> HIDE DEF end
      <3>3. /\ active' \in [Connection -> Channel \cup {NoChannel}]
            /\ \A c \in Connection : active'[c] \in {active[c], ch, NoChannel}
        BY <1>1, <3>2
      <3> QED
        BY <3>1, <3>2, <3>3, MappingStep
    <2>3. ASSUME chan' = [chan EXCEPT ![ch].state = "OPEN"], UNCHANGED active
          PROVE  ClosedByCore'
      <3> DEFINE end == [chan[ch] EXCEPT !.state = "OPEN"]
      <3>1. end \in ChannelEnd /\ end.state # "CLOSED"
        BY <1>1 DEF ChannelEnd
      <3>2. chan' = [chan EXCEPT ![ch] = end]
        BY <1>1, <2>3
      <3> HIDE DEF end
      <3> QED
        BY <1>1, <2>3, <3>1, <3>2, MappingStep
    <2>4. CASE OnChanCloseConfirm(ch)
      <3> DEFINE end == [chan[ch] EXCEPT !.state = "CLOSED"]
      <3>1. end \in ChannelEnd
        BY <1>1 DEF ChannelEnd
      <3>2. /\ chan' = [chan EXCEPT ![ch] = end]
            /\ active' = [active EXCEPT ![chan[ch].conn] = NoChannel]
        BY <1>1, <2>4 DEF OnChanCloseConfirm
      <3> HIDE DEF end
      <3>3. /\ active' \in [Connection -> Channel \cup {NoChannel}]
            /\ \A c \in Connection : active'[c] \in {active[c], NoChannel}
        BY <1>1, <3>2
      <3>4. ASSUME NEW c \in Connection PROVE active'[c] # ch
        <4>1. CASE active[c] = ch
          <5>1. c = chan[ch].conn
            BY <4>1, IcqAssumption DEF IndInv, ActiveConn
          <5> QED
            BY <1>1, <3>2, <5>1, IcqAssumption
        <4>2. CASE active[c] # ch
          BY <3>3, <4>2, IcqAssumption
        <4> QED
          BY <4>1, <4>2
      <3> QED
        BY <3>1, <3>2, <3>3, <3>4, MappingStep
    <2> QED
      BY <2>1, <2>2, <2>3, <2>4
      DEF OnChanOpenInit, OnChanOpenTry, OnChanOpenAck, OnChanOpenConfirm
  <1>5. ASSUME NEW k \in DOMAIN commit, HandlePacketTimeout(k)
        PROVE  ClosedByCore'
    <2> DEFINE ch == k[1]
               end == [chan[ch] EXCEPT !.state = IF chan[ch].order = "ORDERED" THEN "CLOSED" ELSE @]
    <2>1. ch \in Channel
      BY <1>1 DEF Key
    <2>2. /\ end \in ChannelEnd
          /\ end.order = chan[ch].order
          /\ end.order # "ORDERED" => end.state = chan[ch].state
      BY <1>1, <2>1 DEF ChannelEnd
    <2>3. chan' = [chan EXCEPT ![ch] = end] /\ active' = active
      BY <1>1, <2>1, <1>5 DEF HandlePacketTimeout
    <2> HIDE DEF end, ch
    <2>4. ASSUME NEW c \in Connection, active'[c] = ch, end.state = "CLOSED"
          PROVE  end.order = "ORDERED"
      BY <2>1, <2>2, <2>3, <2>4, IcqAssumption DEF ClosedByCore
    <2> QED
      BY <1>1, <2>1, <2>2, <2>3, <2>4, MappingStep
  <1>6. Next \/ UNCHANGED vars
    OBVIOUS
  <1> QED
    BY <1>2, <1>3, <1>4, <1>5, <1>6
    DEF Next, vars, icqVars, Relay, HostRecv, BeginBlock, OnAcknowledgementPacket,
        HandlePacketAcknowledgement, UpdateParams, SetPrice

\* For any number of connections and channels, and any interleaving of handshakes, closes
\* and timeouts, the mapping names live channels of its own connection, and a closed one
\* only where IBC core closed an ordered channel without a callback.
THEOREM MappingAlwaysAlive == Spec => []MappedAlive
  <1>1. Init => ClosedByCore
    BY DEF Init, IcqInit, ClosedByCore
  <1>2. IndInv /\ ClosedByCore => MappedAlive
    BY DEF IndInv, ActiveConn, ClosedByCore, MappedAlive
  <1> QED
    BY <1>1, <1>2, MappingNext, IcqInvariant, PTL DEF Spec

-----------------------------------------------------------------------------
(* The deviation guard.                                                     *)

\* Products keep the order of a factor.
LEMMA ProductOrder ==
    ASSUME NEW a \in Nat, NEW b \in Nat, NEW n \in Nat, a <= b
    PROVE  a * n <= b * n
  OBVIOUS

\* The quotient of a number and one that is no greater is one at least.
LEMMA QuotientAtLeastOne ==
    ASSUME NEW a \in Nat, NEW b \in Nat \ {0}, b <= a
    PROVE  QuoAbs(a, b) >= One
  <1> DEFINE m == a * One
             q == m \div b
  <1>0. One \in Nat
    BY OneAssumption
  <1>1. m \in Nat /\ b * One \in Nat /\ b * One <= m
    BY <1>0, ProductOrder
  <1>2. q \in Int /\ m < q * b + b
    <2>1. m \in Int
      BY <1>1
    <2> HIDE DEF m
    <2> QED
      BY <2>1
  <1>3. q >= One
    <2> SUFFICES ASSUME q < One PROVE FALSE
      BY <1>0, <1>2
    <2> HIDE DEF q, m
    <2>1. q + 1 <= One
      BY <1>0, <1>2
    <2>2. (q + 1) * b <= One * b
      BY <1>0, <1>2, <2>1
    <2>3. (q + 1) * b = q * b + b /\ One * b = b * One
      BY <1>0, <1>2
    <2> QED
      BY <1>0, <1>1, <1>2, <2>2, <2>3
  <1>4. QuoAbs(a, b) \in {q, q + 1}
    BY DEF QuoAbs
  <1> HIDE DEF q, m
  <1> QED
    BY <1>0, <1>2, <1>3, <1>4

\* While the deviation allowed is below one, a positive price stays positive.
THEOREM PriceStaysPositive == Spec => StaysPositive
  <1>1. ASSUME IndInv, [Next]_vars, csvPrice > 0, 0 < params.maxDev, params.maxDev < One
        PROVE  csvPrice' > 0 \/ ExportImport
    <2>0. csvPrice \in Int /\ params.maxDev \in Int
      BY <1>1 DEF IndInv, TypeOK, ParamType, Proposal
    <2>1. ASSUME NEW k \in DOMAIN commit, OnAcknowledgementPacket(k)
          PROVE  csvPrice' > 0
      <3> DEFINE price == NormalizeToCSVPerUSD(commit[k].reply.price)
      <3>1. commit[k].reply.price \in Int
        <4>1. commit[k] \in Packet
          BY <1>1 DEF IndInv, TypeOK
        <4> QED
          BY <4>1, IcqAssumption DEF Packet, Reply, NoReply, Bare
      <3>2. price \in Int
        BY <3>1, NormalizeType
      <3>3. csvPrice' = csvPrice \/ (csvPrice' = price /\ DeviationOk(price))
        BY <2>1 DEF OnAcknowledgementPacket, OnKVResult, ValidateAndPersistPrice
      <3> HIDE DEF price
      <3>4. ASSUME price <= 0 PROVE ~DeviationOk(price)
        <4>1. Abs(price - csvPrice) = csvPrice - price
          BY <1>1, <2>0, <3>2, <3>4 DEF Abs
        <4>2. /\ csvPrice - price \in Nat /\ csvPrice \in Nat \ {0} /\ csvPrice <= csvPrice - price
          BY <1>1, <2>0, <3>2, <3>4
        <4>3. QuoAbs(csvPrice - price, csvPrice) >= One
          BY <4>2, QuotientAtLeastOne
        <4>4. Quo(csvPrice - price, csvPrice) = QuoAbs(csvPrice - price, csvPrice)
          BY <4>2 DEF Quo, Abs
        <4>5. Quo(csvPrice - price, csvPrice) \in Int
          BY <4>2, QuoType
        <4> QED
          BY <1>1, <2>0, <4>1, <4>3, <4>4, <4>5, OneAssumption DEF DeviationOk
      <3> QED
        BY <1>1, <2>0, <3>2, <3>3, <3>4
    <2>2. CASE \E up \in BOOLEAN : BeginBlock(up)
      BY <1>1, <2>2 DEF BeginBlock
    <2>3. CASE UNCHANGED feedVars
      BY <1>1, <2>3 DEF feedVars
    <2>4. CASE \E p \in ParamChoices : UpdateParams(p)
      BY <1>1, <2>4 DEF UpdateParams
    <2>5. CASE \E price \in OraclePrices : SetPrice(price)
      BY <2>5 DEF SetPrice
    <2> QED
      BY <1>1, <2>1, <2>2, <2>3, <2>4, <2>5 DEF Next, vars
  <1>2. IndInv /\ [Next]_vars =>
          [csvPrice > 0 /\ 0 < params.maxDev /\ params.maxDev < One =>
             csvPrice' > 0 \/ ExportImport]_vars
    BY <1>1
  <1> QED
    BY <1>2, IcqInvariant, PTL DEF Spec, StaysPositive

-----------------------------------------------------------------------------
(* The pace of the queries.                                                 *)

\* From s to t, queries of the given stores were sent at the given time, one
\* of each at most, and the others are as they were.
Sends(s, t, stores, time) ==
    /\ \A j \in DOMAIN s.pending :
          j \in DOMAIN t.pending /\ t.pending[j] = s.pending[j] /\ t.commit[j] = s.commit[j]
    /\ \A j \in DOMAIN t.pending \ DOMAIN s.pending :
          t.commit[j].sentAt = time /\ t.pending[j].store \in stores
    /\ \A i, j \in DOMAIN t.pending \ DOMAIN s.pending :
          t.pending[i].store = t.pending[j].store => i = j

LEMMA SendsNothing ==
    ASSUME NEW s, NEW stores, NEW time
    PROVE  Sends(s, s, stores, time)
  BY DEF Sends

LEMMA SendsBoth ==
    ASSUME NEW s, NEW t, NEW u, NEW S, NEW T, NEW time, S \cap T = {},
           Sends(s, t, S, time), Sends(t, u, T, time)
    PROVE  Sends(s, u, S \cup T, time)
  <1>1. \A j \in DOMAIN s.pending :
          j \in DOMAIN u.pending /\ u.pending[j] = s.pending[j] /\ u.commit[j] = s.commit[j]
    BY DEF Sends
  <1>2. ASSUME NEW j \in DOMAIN u.pending \ DOMAIN s.pending
        PROVE  /\ u.commit[j].sentAt = time
               /\ \/ j \in DOMAIN t.pending \ DOMAIN s.pending /\ u.pending[j] = t.pending[j]
                     /\ u.pending[j].store \in S
                  \/ j \in DOMAIN u.pending \ DOMAIN t.pending /\ u.pending[j].store \in T
    <2>1. CASE j \in DOMAIN t.pending
      BY <2>1 DEF Sends
    <2>2. CASE j \notin DOMAIN t.pending
      BY <2>2 DEF Sends
    <2> QED
      BY <2>1, <2>2
  <1>3. ASSUME NEW i \in DOMAIN u.pending \ DOMAIN s.pending,
               NEW j \in DOMAIN u.pending \ DOMAIN s.pending,
               u.pending[i].store = u.pending[j].store
        PROVE  i = j
    <2>1. CASE i \in DOMAIN t.pending /\ j \in DOMAIN t.pending
      BY <1>2, <1>3, <2>1 DEF Sends
    <2>2. CASE i \notin DOMAIN t.pending /\ j \notin DOMAIN t.pending
      BY <1>3, <2>2 DEF Sends
    <2>3. CASE (i \in DOMAIN t.pending) # (j \in DOMAIN t.pending)
      BY <1>2, <1>3, <2>3
    <2> QED
      BY <2>1, <2>2, <2>3
  <1> QED
    BY <1>1, <1>2, <1>3 DEF Sends

LEMMA SendSends ==
    ASSUME TypeOK, ActiveConn, NEW s, Maps(s), Triple(s), NEW conn \in Connection,
           NEW store \in Store, NEW up \in BOOLEAN, NEW time \in Nat
    PROVE  Sends(s, SendKVQuery(s, conn, store, up, time), {store}, time)
  <1> DEFINE ch == active[conn]
             k  == <<ch, s.nextSeq[ch]>>
             q  == [store |-> store, conn |-> conn]
             p  == Put(s.pending, k, q)
             t  == SendKVQuery(s, conn, store, up, time)
  <1>1. CASE ch = NoChannel
    <2>1. t = s
      BY <1>1 DEF SendKVQuery
    <2> QED
      BY <2>1, SendsNothing
  <1>2. CASE ch # NoChannel
    <2>1. ch \in Channel
      BY <1>2 DEF TypeOK
    <2>2. k \notin DOMAIN s.commit /\ k \notin DOMAIN s.pending
      BY <2>1 DEF Maps, Key
    <2>3. CASE ~SendPacket(ch, up)
      <3>1. t = [s EXCEPT !.pending = Drop(p, k)]
        BY <1>2, <2>3 DEF SendKVQuery, AfterFailedSend
      <3>2. DOMAIN Drop(p, k) = DOMAIN s.pending /\ \A j \in DOMAIN s.pending : Drop(p, k)[j] = s.pending[j]
        BY <2>2 DEF Drop, Put, Restrict
      <3>3. t.commit = s.commit /\ t.pending = Drop(p, k)
        BY <3>1 DEF Triple
      <3> HIDE DEF t, p, k, q
      <3> QED
        BY <3>2, <3>3 DEF Sends, t
    <2>4. CASE SendPacket(ch, up)
      <3> DEFINE r == [store |-> store, sentAt |-> time, reply |-> NoReply]
      <3>1. t.pending = p /\ t.commit = Put(s.commit, k, r)
        BY <1>2, <2>4 DEF SendKVQuery
      <3>2. /\ DOMAIN p = DOMAIN s.pending \cup {k}
            /\ p[k] = q /\ \A j \in DOMAIN s.pending : p[j] = s.pending[j]
        BY <2>2 DEF Put
      <3>3. /\ Put(s.commit, k, r)[k] = r
            /\ \A j \in DOMAIN s.commit : Put(s.commit, k, r)[j] = s.commit[j]
        BY <2>2 DEF Put
      <3>4. r.sentAt = time /\ q.store = store
        OBVIOUS
      <3>5. DOMAIN s.pending \subseteq DOMAIN s.commit
        BY DEF Maps
      <3> HIDE DEF t, p, k, q, r
      <3> QED
        BY <2>2, <3>1, <3>2, <3>3, <3>4, <3>5 DEF Sends, t
    <2> QED
      BY <2>3, <2>4
  <1> QED
    BY <1>1, <1>2

\* A round of the scheduler asks each store once, at the time of its block.
LEMMA QueriesSend ==
    ASSUME IndInv, NEW up \in BOOLEAN, NEW time \in Nat
    PROVE  Sends(maps, RegisterQueries(up, time).s, {"twap", "gamm"}, time)
  <1> DEFINE r0 == [s |-> maps, ids |-> queryIDs]
             r1 == IF params.useTwap THEN RegisterKVQuery(r0, "twap", "twap", up, time) ELSE r0
             r2 == RegisterKVQuery(r1, "spot", "gamm", up, time)
             r  == RegisterQueries(up, time)
  <1>1. r = IF params.conn = "" THEN r0 ELSE r2
    BY DEF RegisterQueries, maps
  <1>2. r0.s = maps /\ r0.ids = queryIDs /\ Triple(maps)
    BY DEF maps, Triple
  <1>3. TypeOK /\ ActiveConn /\ Maps(maps) /\ queryIDs \in IdType /\ params.conn \in Connection \cup {""}
    BY DEF IndInv, TypeOK, IdType, ParamType, Proposal
  <1>4. CASE params.conn = ""
    BY <1>1, <1>2, <1>4, SendsNothing
  <1>5. CASE params.conn # ""
    <2>1. params.conn \in Connection
      BY <1>3, <1>5
    <2>2. Maps(r1.s) /\ Triple(r1.s) /\ Sends(maps, r1.s, {"twap"}, time)
      <3>1. CASE params.useTwap
        <4> DEFINE v == RegisterKVQuery(r0, "twap", "twap", up, time)
        <4>1. r1 = v
          BY <3>1
        <4>2. v.s = SendKVQuery(maps, params.conn, "twap", up, time)
          BY DEF RegisterKVQuery
        <4> HIDE DEF r0, r1
        <4>3. Maps(v.s) /\ Triple(v.s)
          BY <1>2, <1>3, <2>1, RegisterKeeps DEF Store
        <4> HIDE DEF v
        <4>4. Sends(maps, v.s, {"twap"}, time)
          BY <1>2, <1>3, <2>1, <4>2, SendSends DEF Store
        <4> QED
          BY <4>1, <4>3, <4>4
      <3>2. CASE ~params.useTwap
        <4>1. r1 = r0
          BY <3>2
        <4> HIDE DEF r0, r1
        <4> QED
          BY <1>2, <1>3, <4>1, SendsNothing
      <3> QED
        BY <3>1, <3>2
    <2>3. r2.s = SendKVQuery(r1.s, params.conn, "gamm", up, time)
      BY DEF RegisterKVQuery
    <2> HIDE DEF r0, r1, r2
    <2>4. Sends(r1.s, r2.s, {"gamm"}, time)
      BY <1>3, <2>1, <2>2, <2>3, SendSends DEF Store
    <2>5. Sends(maps, r2.s, {"twap"} \cup {"gamm"}, time)
      BY <2>2, <2>4, SendsBoth
    <2>6. {"twap"} \cup {"gamm"} = {"twap", "gamm"} /\ r = r2
      BY <1>1, <1>5
    <2> HIDE DEF r
    <2> QED
      BY <2>5, <2>6 DEF r
  <1> QED
    BY <1>4, <1>5

Choices == ParamChoices \cup {GenesisParams}

\* What paces the queries: whatever waits was asked an interval before the
\* next update at least, an interval of some params.
PaceInv ==
    /\ params \in Choices
    /\ \A k \in DOMAIN pending :
          /\ nextUpdate # NoTime
          /\ \E p \in Choices : p.interval > 0 /\ commit[k].sentAt + p.interval <= nextUpdate
    /\ Paced

\* A step that gains no correlation, and keeps the others as they were, keeps the pace.
LEMMA PaceKept ==
    ASSUME PaceInv, params' \in Choices, DOMAIN pending' \subseteq DOMAIN pending,
           \A k \in DOMAIN pending' : pending'[k] = pending[k] /\ commit'[k].sentAt = commit[k].sentAt,
           DOMAIN pending' # {} => UNCHANGED nextUpdate
    PROVE  PaceInv'
  <1>1. \A k \in DOMAIN pending' :
          /\ nextUpdate' # NoTime
          /\ \E p \in Choices : p.interval > 0 /\ commit'[k].sentAt + p.interval <= nextUpdate'
    BY DEF PaceInv
  <1>2. Paced'
    BY DEF PaceInv, Paced
  <1> QED
    BY <1>1, <1>2 DEF PaceInv

LEMMA PaceStep == IndInv /\ PaceInv /\ [Next]_vars => PaceInv'
  <1> SUFFICES ASSUME IndInv, PaceInv, [Next]_vars PROVE PaceInv'
    OBVIOUS
  <1>0. params \in Choices
    BY DEF PaceInv
  <1>a. ASSUME params' \in Choices, UNCHANGED <<pending, commit, nextUpdate>>
        PROVE  PaceInv'
    BY <1>a, PaceKept
  <1>b. ASSUME NEW k, UNCHANGED <<params, nextUpdate>>,
               commit' = Drop(commit, k), pending' = Drop(pending, k)
        PROVE  PaceInv'
    <2>1. /\ DOMAIN commit' = DOMAIN commit \ {k} /\ \A j \in DOMAIN commit \ {k} : commit'[j] = commit[j]
          /\ DOMAIN pending' = DOMAIN pending \ {k} /\ \A j \in DOMAIN pending \ {k} : pending'[j] = pending[j]
      BY <1>b, DropMember
    <2>2. DOMAIN pending \subseteq DOMAIN commit
      BY DEF IndInv, Maps, maps
    <2> QED
      BY <1>0, <1>b, <2>1, <2>2, PaceKept
  <1>1. ASSUME NEW up \in BOOLEAN, BeginBlock(up), Due(now + 1)
        PROVE  PaceInv'
    <2> DEFINE time == now + 1
               r    == RegisterQueries(up, time)
    <2>1. time \in Nat
      BY DEF IndInv, TypeOK
    <2>2. Sends(maps, r.s, {"twap", "gamm"}, time)
      BY <2>1, QueriesSend
    <2>3. pending' = r.s.pending /\ commit' = r.s.commit /\ nextUpdate' = time + params.interval
          /\ UNCHANGED params
      BY <1>1 DEF BeginBlock, ScheduleQueriesIfDue
    <2> HIDE DEF r
    <2>4. \A p \in Choices : p.interval \in Nat
      BY OsmosisAssumption DEF Choices, ParamType, Proposal
    <2>5. params.interval > 0 /\ params.interval \in Nat /\ (nextUpdate # NoTime => nextUpdate <= time)
      BY <1>0, <1>1, <2>4 DEF Due
    <2>6. /\ \A k \in DOMAIN pending : commit[k].sentAt \in Nat
          /\ nextUpdate # NoTime => nextUpdate \in Nat
      BY DEF IndInv, TypeOK, Maps, maps, Packet, Time, NoTime
    <2>7. /\ \A j \in DOMAIN pending :
               j \in DOMAIN pending' /\ pending'[j] = pending[j] /\ commit'[j] = commit[j]
          /\ \A j \in DOMAIN pending' \ DOMAIN pending : commit'[j].sentAt = time
          /\ \A i, j \in DOMAIN pending' \ DOMAIN pending :
               pending'[i].store = pending'[j].store => i = j
      BY <2>2, <2>3 DEF Sends, maps
    <2> HIDE DEF time
    <2>8. ASSUME NEW j \in DOMAIN pending
          PROVE  \E p \in Choices : p.interval > 0 /\ commit'[j].sentAt + p.interval <= time
      <3>1. PICK p \in Choices : p.interval > 0 /\ commit[j].sentAt + p.interval <= nextUpdate
        BY DEF PaceInv
      <3>2. nextUpdate # NoTime
        BY DEF PaceInv
      <3> QED
        BY <2>1, <2>4, <2>5, <2>6, <2>7, <3>1, <3>2
    <2>9. nextUpdate' # NoTime /\ nextUpdate' >= time /\ nextUpdate' \in Nat
      BY <2>1, <2>3, <2>5 DEF NoTime
    <2>10. \A k \in DOMAIN pending' :
             \E p \in Choices : p.interval > 0 /\ commit'[k].sentAt + p.interval <= nextUpdate'
      <3>1. ASSUME NEW k \in DOMAIN pending', k \notin DOMAIN pending
            PROVE  \E p \in Choices : p.interval > 0 /\ commit'[k].sentAt + p.interval <= nextUpdate'
        BY <1>0, <2>1, <2>3, <2>5, <2>7, <3>1
      <3>2. ASSUME NEW k \in DOMAIN pending
            PROVE  \E p \in Choices : p.interval > 0 /\ commit'[k].sentAt + p.interval <= nextUpdate'
        <4>1. commit'[k].sentAt \in Nat
          BY <2>6, <2>7
        <4> QED
          BY <2>1, <2>4, <2>8, <2>9, <4>1
      <3> QED
        BY <3>1, <3>2
    <2>11. Paced'
      <3>1. SUFFICES ASSUME NEW j \in DOMAIN pending', NEW k \in DOMAIN pending', j # k,
                            pending'[j].store = pending'[k].store
                     PROVE  \E p \in Choices :
                              p.interval > 0 /\ Abs(commit'[j].sentAt - commit'[k].sentAt) >= p.interval
        BY DEF Paced, Choices
      <3>2. CASE j \in DOMAIN pending /\ k \in DOMAIN pending
        BY <2>7, <3>1, <3>2 DEF PaceInv, Paced, Choices
      <3>3. CASE j \in DOMAIN pending /\ k \notin DOMAIN pending
        <4>1. commit'[j].sentAt \in Nat /\ commit'[k].sentAt = time
          BY <2>6, <2>7, <3>3
        <4>2. PICK p \in Choices : p.interval > 0 /\ commit'[j].sentAt + p.interval <= time
          BY <2>8, <3>3
        <4> QED
          BY <2>1, <2>4, <4>1, <4>2 DEF Abs
      <3>4. CASE j \notin DOMAIN pending /\ k \in DOMAIN pending
        <4>1. commit'[k].sentAt \in Nat /\ commit'[j].sentAt = time
          BY <2>6, <2>7, <3>4
        <4>2. PICK p \in Choices : p.interval > 0 /\ commit'[k].sentAt + p.interval <= time
          BY <2>8, <3>4
        <4> QED
          BY <2>1, <2>4, <4>1, <4>2 DEF Abs
      <3>5. CASE j \notin DOMAIN pending /\ k \notin DOMAIN pending
        BY <2>7, <3>1, <3>5
      <3> QED
        BY <3>2, <3>3, <3>4, <3>5
    <2> QED
      BY <1>0, <2>3, <2>9, <2>10, <2>11 DEF PaceInv
  <1>2. CASE \E up \in BOOLEAN : BeginBlock(up) /\ ~Due(now + 1)
    BY <1>0, <1>2, <1>a DEF BeginBlock, ScheduleQueriesIfDue
  <1>3. CASE Handshake /\ UNCHANGED feedVars
    BY <1>0, <1>3, <1>a DEF Handshake, feedVars, OnChanOpenInit, OnChanOpenTry, OnChanOpen,
                            OnChanOpenAck, OnChanOpenConfirm, OnChanCloseConfirm
  <1>4. CASE Relay /\ UNCHANGED feedVars
    <2>1. PICK k \in DOMAIN commit : (\E reply \in Reply : HostRecv(k, reply)) \/ HandlePacketTimeout(k)
      BY <1>4 DEF Relay
    <2>2. CASE \E reply \in Reply : HostRecv(k, reply)
      <3>1. PICK reply \in Reply : commit' = [commit EXCEPT ![k].reply = reply] /\ UNCHANGED pending
        BY <2>2 DEF HostRecv
      <3>2. \A j \in DOMAIN commit : commit[j] \in Packet
        BY DEF IndInv, TypeOK
      <3>3. \A j \in DOMAIN commit : commit'[j].sentAt = commit[j].sentAt
        BY <3>1, <3>2 DEF Packet
      <3>4. DOMAIN pending \subseteq DOMAIN commit
        BY DEF IndInv, Maps, maps
      <3> QED
        BY <1>0, <1>4, <3>1, <3>3, <3>4, PaceKept DEF feedVars
    <2>3. CASE HandlePacketTimeout(k)
      BY <1>4, <1>b, <2>3 DEF HandlePacketTimeout, feedVars
    <2> QED
      BY <2>1, <2>2, <2>3
  <1>5. CASE \E k \in DOMAIN commit : OnAcknowledgementPacket(k)
    BY <1>5, <1>b DEF OnAcknowledgementPacket, HandlePacketAcknowledgement
  <1>6. CASE \E p \in ParamChoices : UpdateParams(p)
    BY <1>6, <1>a DEF UpdateParams, icqVars, Choices
  <1>7. CASE \E price \in OraclePrices : SetPrice(price)
    BY <1>0, <1>7, <1>a DEF SetPrice, icqVars
  <1>8. CASE ExportImport
    <2>1. DOMAIN pending' = {} /\ UNCHANGED params
      BY <1>8 DEF ExportImport, ExportImportIcq, EmptyMap
    <2> QED
      BY <1>0, <2>1, PaceKept
  <1>9. CASE UNCHANGED vars
    BY <1>0, <1>9, <1>a DEF vars, icqVars, feedVars
  <1> QED
    BY <1>1, <1>2, <1>3, <1>4, <1>5, <1>6, <1>7, <1>8, <1>9 DEF Next

\* Queries of one store that wait were asked an interval of some params apart.
THEOREM AlwaysPaced == Spec => []Paced
  <1>1. Init => PaceInv
    <2> SUFFICES ASSUME Init PROVE PaceInv
      OBVIOUS
    <2>1. DOMAIN pending = {} /\ params \in Choices
      BY DEF Init, IcqInit, EmptyMap, Choices
    <2> QED
      BY <2>1 DEF PaceInv, Paced
  <1>2. PaceInv => Paced
    BY DEF PaceInv
  <1> QED
    BY <1>1, <1>2, PaceStep, IcqInvariant, PTL DEF Spec
=============================================================================
