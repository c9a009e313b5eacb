------------------------------ MODULE TxGossip ------------------------------
(***************************************************************************)
(* How transactions travel between nodes: the fetcher (txpool/fetch.go)    *)
(* answers the messages of other nodes, the sender (txpool/send.go) makes  *)
(* packets of announcements, and MainLoop of the pool drives both: it      *)
(* announces what was promoted, and gives a newly connected peer all it    *)
(* has.  Every node runs this code; the sentries and the network between   *)
(* them are external.  What the pool decides about a transaction is left   *)
(* open here (module TxPool models it).                                    *)
(***************************************************************************)
EXTENDS Integers, FiniteSets

CONSTANTS
  Nodes,
  Txs,           \* 1 .. n
  Protocol,      \* node -> 66 or 68: what its sentry speaks
  PerPacket,     \* protocol -> announcements that fit in p2pTxPacketLimit
  Scenarios      \* bounds: whether the pools have started and what is in them, the
                 \* transactions submitted to each node, the connections made, and the
                 \* faults: messages lost or refused, a full channel, a sentry gone

VARIABLES
  state,      \* node -> tx -> "unknown", "unprocessed", "queued", "promoted" or "gone"
  started,    \* node -> pool.Started()
  ready,      \* node -> sentryClient.Ready()
  newTxs,     \* node -> transactions in the channel newTxs
  conn,       \* connected pairs of nodes, both ways
  events,     \* node -> peers whose PeerEvent_Connect is on its way
  recent,     \* node -> recentlyConnectedPeers
  toSend,     \* PropagatePooledTxsToPeersList calls that run: <<node, peers, txs>>
  net,        \* messages: [from, to, id, txs]
  missed,     \* <<node, peer, tx>>: an announcement or its answer was lost
  connects, faults,
  bounds      \* the scenario

vars == <<state, started, ready, newTxs, conn, events, recent, toSend, net, missed, connects,
          faults, bounds>>
loop == <<started, ready, conn, events, recent, toSend, connects, bounds>>

\* The transactions are numbered, and an announcement fits in a packet.
ConstantsFit ==
  /\ Txs \subseteq Nat /\ IsFiniteSet(Txs)
  /\ Protocol \in [Nodes -> {66, 68}] /\ PerPacket \in [{66, 68} -> Nat \ {0}]

Init ==
  /\ ConstantsFit
  /\ bounds \in Scenarios
  /\ state = [n \in Nodes |-> [t \in Txs |-> IF t \in bounds.pool[n] THEN "promoted" ELSE "unknown"]]
  /\ started = [n \in Nodes |-> bounds.started] /\ ready = [n \in Nodes |-> TRUE]
  /\ newTxs = [n \in Nodes |-> {}] /\ conn = {}
  /\ events = [n \in Nodes |-> {}] /\ recent = [n \in Nodes |-> {}]
  /\ toSend = {} /\ net = {} /\ missed = {} /\ connects = 0 /\ faults = 0

In(n, ss) == {t \in Txs : state[n][t] \in ss}
IdHashKnown(n, t) == state[n][t] # "unknown"
HasRlp(n, t) == state[n][t] \in {"queued", "promoted"}
Put(n, T, s) == state' = [state EXCEPT ![n] = [t \in Txs |-> IF t \in T THEN s ELSE @[t]]]
Peers(n) == {m \in Nodes : <<n, m>> \in conn}
Msg(n, m, id, T) == [from |-> n, to |-> m, id |-> id, txs |-> T]
Lost(n, M, T) == {<<n, m, t>> : m \in M, t \in T}

\* The transactions of one packet after another, and the message for the protocol of
\* the sentry: the two encodings are cut independently.
Rank(t, T) == Cardinality({u \in T : u < t})
PacketsCut(T, size) == {{t \in T : Rank(t, T) \div size = i} : i \in 0 .. (Cardinality(T) - 1) \div size - 1}
Packets(T, size) == {{t \in T : Rank(t, T) \div size = i} : i \in 0 .. (Cardinality(T) - 1) \div size}
HashesId(n) == IF Protocol[n] = 68 THEN "NEW_POOLED_TRANSACTION_HASHES_68"
                                   ELSE "NEW_POOLED_TRANSACTION_HASHES_66"
Announcements(n, M, T) ==
  IF T = {} THEN {}
  ELSE {Msg(n, m, HashesId(n), P) : m \in M, P \in Packets(T, PerPacket[Protocol[n]])}

\* What is sent through a sentry that is not ready is skipped.
Sends(n, M, msgs, T) ==
  IF ready[n] THEN net' = net \union {x \in msgs : x.to \in Peers(n)} /\ UNCHANGED missed
              ELSE missed' = missed \union Lost(n, M, T) /\ UNCHANGED net

-----------------------------------------------------------------------------
(* The pool.                                                               *)

\* Transactions that were promoted go to the channel newTxs; when it is full nobody
\* is told.
Notify(n, T) ==
  \/ newTxs' = [newTxs EXCEPT ![n] = @ \union T] /\ UNCHANGED <<missed, faults>>
  \/ /\ faults < bounds.faults /\ T # {} /\ faults' = faults + 1
     /\ missed' = missed \union Lost(n, Peers(n), T) /\ UNCHANGED newTxs

AddLocalTxs(n, t) ==
  /\ started[n] /\ t \in bounds.local[n] /\ state[n][t] = "unknown"
  /\ \/ Put(n, {t}, "promoted") /\ Notify(n, {t})
     \/ Put(n, {t}, "queued") /\ UNCHANGED <<newTxs, missed, faults>>
  /\ UNCHANGED <<loop, net>>

\* processRemoteTxs: each received transaction is promoted, queued or discarded.
ProcessRemoteTxs(n) ==
  LET U == In(n, {"unprocessed"}) IN
  /\ started[n] /\ U # {}
  /\ \E up \in SUBSET U : \E q \in SUBSET (U \ up) :
       /\ state' = [state EXCEPT ![n] = [t \in Txs |-> IF t \in up THEN "promoted"
                      ELSE IF t \in q THEN "queued" ELSE IF t \in U THEN "gone" ELSE @[t]]]
       /\ Notify(n, up)
  /\ UNCHANGED <<loop, net>>

\* A block promotes a queued transaction, or takes one out of the pool.
OnNewBlock(n, t) ==
  /\ \/ started[n] /\ state[n][t] = "queued" /\ Put(n, {t}, "promoted") /\ Notify(n, {t})
        /\ UNCHANGED started
     \/ started[n] /\ HasRlp(n, t) /\ Put(n, {t}, "gone")
        /\ UNCHANGED <<started, newTxs, missed, faults>>
     \/ ~started[n] /\ started' = [started EXCEPT ![n] = TRUE]
        /\ UNCHANGED <<state, newTxs, missed, faults>>
  /\ UNCHANGED <<ready, conn, events, recent, toSend, connects, net, bounds>>

-----------------------------------------------------------------------------
(* MainLoop and Send.                                                      *)

\* The transactions themselves, to some peers; they fit in one packet here.
Broadcasts(n, M, T) == IF T = {} THEN {} ELSE {Msg(n, m, "TRANSACTIONS_66", T) : m \in M}

\* The transactions that still have their rlp are broadcast to some peers and
\* announced to all.
AnnounceNewTxs(n) ==
  LET T == {t \in newTxs[n] : HasRlp(n, t)} IN
  /\ newTxs[n] # {}
  /\ newTxs' = [newTxs EXCEPT ![n] = {}]
  /\ \E some \in SUBSET Peers(n) :
       Sends(n, Peers(n), Announcements(n, Peers(n), T) \union Broadcasts(n, some, T), T)
  /\ UNCHANGED <<state, loop, faults>>

\* The peers that connected are taken out of the list, then everything the pool has is
\* collected for them.
SyncToNewPeers(n) ==
  /\ recent[n] # {} /\ recent' = [recent EXCEPT ![n] = {}]
  /\ toSend' = toSend \union {<<n, recent[n], In(n, {"unprocessed", "queued", "promoted"})>>}
  /\ UNCHANGED <<state, started, ready, newTxs, conn, events, net, missed, connects, faults, bounds>>

PropagatePooledTxsToPeersList(s) ==
  /\ toSend' = toSend \ {s}
  /\ Sends(s[1], s[2], Announcements(s[1], s[2], s[3]), s[3])
  /\ UNCHANGED <<state, started, ready, newTxs, conn, events, recent, connects, faults, bounds>>

-----------------------------------------------------------------------------
(* Fetch.                                                                  *)

\* Hashes that are announced: those the pool does not know are asked for.
Unknown(x) == {t \in x.txs : ~IdHashKnown(x.to, t)}
AskForUnknown(x) ==
  /\ net' = (net \ {x}) \union
       (IF Unknown(x) = {} THEN {}
        ELSE {Msg(x.to, x.from, "GET_POOLED_TRANSACTIONS_66", Unknown(x))})
  /\ UNCHANGED state

\* Transactions that are asked for: those with an rlp are sent.
SendPooled(x) ==
  /\ net' = (net \ {x}) \union
       {Msg(x.to, x.from, "POOLED_TRANSACTIONS_66", {t \in x.txs : HasRlp(x.to, t)})}
  /\ UNCHANGED state

\* Transactions: those the pool does not know go to AddRemoteTxs.
TakeTransactions(x) == net' = net \ {x} /\ Put(x.to, Unknown(x), "unprocessed")

\* handleInboundMessage, of a pool that has started.
Answer(x) ==
  CASE x.id \in {"NEW_POOLED_TRANSACTION_HASHES_66", "NEW_POOLED_TRANSACTION_HASHES_68"} ->
         AskForUnknown(x)
    [] x.id = "GET_POOLED_TRANSACTIONS_66" -> SendPooled(x)
    [] OTHER -> TakeTransactions(x)

\* Whose transactions the peer does not get when x is not handled.
NotHandled(x) ==
  IF x.id = "GET_POOLED_TRANSACTIONS_66" THEN Lost(x.to, {x.from}, x.txs)
                                         ELSE Lost(x.from, {x.to}, x.txs)

\* A message that fails to be handled is logged, and the next one is read; one that
\* comes before the pool has started is dropped.
ReceiveMessage(x) ==
  /\ \/ started[x.to] /\ Answer(x) /\ UNCHANGED <<missed, faults>>
     \/ /\ ~started[x.to] \/ faults < bounds.faults
        /\ faults' = IF started[x.to] THEN faults + 1 ELSE faults
        /\ net' = net \ {x} /\ missed' = missed \union NotHandled(x) /\ UNCHANGED state
  /\ UNCHANGED <<loop, newTxs>>

\* handleNewPeer: AddNewGoodPeer.
ReceivePeer(n, m) ==
  /\ m \in events[n]
  /\ events' = [events EXCEPT ![n] = @ \ {m}]
  /\ recent' = [recent EXCEPT ![n] = @ \union {m}]
  /\ UNCHANGED <<state, started, ready, newTxs, conn, toSend, net, missed, connects, faults, bounds>>

\* MarkDisconnected, and HandShake.
SentryReady(n) ==
  /\ ready[n] => faults < bounds.faults
  /\ faults' = IF ready[n] THEN faults + 1 ELSE faults
  /\ ready' = [ready EXCEPT ![n] = ~@]
  /\ UNCHANGED <<state, started, newTxs, conn, events, recent, toSend, net, missed, connects, bounds>>

\* Two nodes connect; what was missed on an older connection will be given again.
Connect(n, m) ==
  /\ n # m /\ <<n, m>> \notin conn /\ connects < bounds.connects /\ connects' = connects + 1
  /\ conn' = conn \union {<<n, m>>, <<m, n>>}
  /\ events' = [events EXCEPT ![n] = @ \union {m}, ![m] = @ \union {n}]
  /\ missed' = {l \in missed : {l[1], l[2]} # {n, m}}
  /\ UNCHANGED <<state, started, ready, newTxs, recent, toSend, net, faults, bounds>>

Disconnect(n, m) ==
  /\ <<n, m>> \in conn
  /\ conn' = conn \ {<<n, m>>, <<m, n>>}
  /\ net' = {x \in net : {x.from, x.to} # {n, m}}
  /\ UNCHANGED <<state, started, ready, newTxs, events, recent, toSend, missed, connects, faults, bounds>>

Next ==
  \/ \E n \in Nodes :
       \/ \E t \in Txs : AddLocalTxs(n, t) \/ OnNewBlock(n, t)
       \/ ProcessRemoteTxs(n)
       \/ AnnounceNewTxs(n)
       \/ SyncToNewPeers(n)
       \/ SentryReady(n)
       \/ \E m \in Nodes : ReceivePeer(n, m) \/ Connect(n, m) \/ Disconnect(n, m)
  \/ \E s \in toSend : PropagatePooledTxsToPeersList(s)
  \/ \E x \in net : ReceiveMessage(x)

Spec == Init /\ [][Next]_vars

-----------------------------------------------------------------------------
\* Something still will tell m of transaction t of n.
OnItsWay(n, m, t) ==
  \/ t \in newTxs[n] \/ m \in events[n] \union recent[n]
  \/ \E s \in toSend : s[1] = n /\ m \in s[2] /\ t \in s[3]
  \/ \E x \in net : /\ t \in x.txs
                    /\ IF x.id = "GET_POOLED_TRANSACTIONS_66" THEN x.from = m /\ x.to = n
                                                              ELSE x.from = n /\ x.to = m

\* No transaction that a node has promoted is kept from a peer: the peer knows it, or
\* will be told, whatever the order in which the peer connects, the list of new peers is
\* emptied, transactions are promoted and messages are answered; what is excepted is
\* only a message that was lost or came to a pool that had not started, a sentry that was
\* not ready and a full channel, since nothing is asked for again until the peers
\* connect anew.
NothingKeptBack ==
  \A n \in Nodes : \A m \in Peers(n) : \A t \in In(n, {"promoted"}) :
    IdHashKnown(m, t) \/ OnItsWay(n, m, t) \/ <<n, m, t>> \in missed

\* A packet of announcements is within the limit, and only what a node asked for or was
\* sent comes to it.
PacketsFit ==
  \A x \in net : /\ x.id \in {HashesId(n) : n \in Nodes} =>
                      Cardinality(x.txs) \in 1 .. PerPacket[Protocol[x.from]]
                 /\ \A t \in x.txs : IdHashKnown(x.from, t) \/ x.id = "GET_POOLED_TRANSACTIONS_66"

\* Transactions reach the peers.
GossipReaches == NothingKeptBack /\ PacketsFit
=============================================================================
