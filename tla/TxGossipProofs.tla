--------------------------- MODULE TxGossipProofs ---------------------------
(***************************************************************************)
(* No transaction is kept from a peer, and every packet is within its      *)
(* limit, for any number of nodes and transactions, any scenario and any   *)
(* faults: TxGossip.GossipReaches.                                         *)
(***************************************************************************)
EXTENDS TxGossip, TLAPS, FiniteSetTheorems

States == {"unknown", "unprocessed", "queued", "promoted", "gone"}
Ids == {"NEW_POOLED_TRANSACTION_HASHES_66", "NEW_POOLED_TRANSACTION_HASHES_68",
        "GET_POOLED_TRANSACTIONS_66", "POOLED_TRANSACTIONS_66", "TRANSACTIONS_66"}
Message == [from : Nodes, to : Nodes, id : Ids, txs : SUBSET Txs]
Sending == Nodes \X (SUBSET Nodes) \X (SUBSET Txs)

TypeOK ==
  /\ ConstantsFit
  /\ state \in [Nodes -> [Txs -> States]]
  /\ newTxs \in [Nodes -> SUBSET Txs]
  /\ events \in [Nodes -> SUBSET Nodes] /\ recent \in [Nodes -> SUBSET Nodes]
  /\ toSend \subseteq Sending /\ net \subseteq Message

\* What is about to be announced is known to the node.
SendsKnown == \A s \in toSend : \A t \in s[3] : IdHashKnown(s[1], t)

Inv == TypeOK /\ SendsKnown /\ NothingKeptBack /\ PacketsFit

\* m knows t, will be told of it, or has missed it.
Reached(n, m, t) == IdHashKnown(m, t) \/ OnItsWay(n, m, t) \/ <<n, m, t>> \in missed
\* What is known once is known for good.
Remembers == \A n \in Nodes, t \in Txs : IdHashKnown(n, t) => IdHashKnown(n, t)'

-----------------------------------------------------------------------------
(* Packets.                                                                *)

LEMMA Division ==
  ASSUME NEW a \in Nat, NEW d \in Nat \ {0}
  PROVE  a \div d \in Nat /\ d * (a \div d) <= a /\ a < d * (a \div d) + d
OBVIOUS

LEMMA DivisionUnique ==
  ASSUME NEW a \in Nat, NEW d \in Nat \ {0}, NEW i \in Nat, d * i <= a, a < d * i + d
  PROVE  a \div d = i
OBVIOUS

LEMMA Monotone ==
  ASSUME NEW d \in Nat, NEW i \in Nat, NEW j \in Nat, i <= j
  PROVE  d * i <= d * j /\ d * i \in Nat
OBVIOUS

\* The rank of a transaction tells it from the others, and every rank is taken.
LEMMA Ranks ==
  ASSUME NEW T, T \subseteq Nat, IsFiniteSet(T)
  PROVE  /\ Cardinality(T) \in Nat
         /\ \A t \in T : Rank(t, T) \in 0 .. Cardinality(T) - 1
         /\ \A t, u \in T : Rank(t, T) = Rank(u, T) => t = u
         /\ \A r \in 0 .. Cardinality(T) - 1 : \E t \in T : Rank(t, T) = r
<1>. DEFINE Below(x) == {y \in T : y < x}
<1>1. Cardinality(T) \in Nat
  BY FS_CardinalityType
<1>2. ASSUME NEW t \in T
      PROVE  IsFiniteSet(Below(t)) /\ Rank(t, T) \in 0 .. Cardinality(T) - 1 /\ Rank(t, T) \in Nat
  <2>1. IsFiniteSet(T \ {t}) /\ Cardinality(T \ {t}) = Cardinality(T) - 1
    BY FS_RemoveElement
  <2>2. Below(t) \in SUBSET (T \ {t})
    OBVIOUS
  <2>3. IsFiniteSet(Below(t)) /\ Cardinality(Below(t)) <= Cardinality(T \ {t})
    BY <2>1, <2>2, FS_Subset
  <2>4. Cardinality(Below(t)) \in Nat
    BY <2>3, FS_CardinalityType
  <2>. QED
    BY <1>1, <2>1, <2>3, <2>4 DEF Rank
<1>3. ASSUME NEW t \in T, NEW u \in T, t < u
      PROVE  Rank(t, T) < Rank(u, T)
  <2>. DEFINE A == Below(t)
              B == Below(u)
  <2>1. IsFiniteSet(A) /\ IsFiniteSet(B)
    BY <1>2
  <2>2. t \notin A /\ A \cup {t} \in SUBSET B
    <3>1. t \in Nat /\ u \in Nat /\ \A y \in A : y \in T /\ y \in Nat /\ y < t
      OBVIOUS
    <3>2. t \notin A /\ t \in B
      BY <1>3, <3>1
    <3>3. \A y \in A : y \in B
      BY <1>3, <3>1
    <3>. QED
      BY <3>2, <3>3
  <2>3. Rank(t, T) = Cardinality(A) /\ Rank(u, T) = Cardinality(B)
    BY DEF Rank
  <2>. HIDE DEF A, B
  <2>4. Cardinality(A \cup {t}) = Cardinality(A) + 1
    BY <2>1, <2>2, FS_AddElement
  <2>5. Cardinality(A \cup {t}) <= Cardinality(B)
    BY <2>1, <2>2, FS_Subset
  <2>6. Cardinality(A) \in Nat /\ Cardinality(B) \in Nat
    BY <2>1, FS_CardinalityType
  <2>. QED
    BY <2>3, <2>4, <2>5, <2>6
<1>4. \A t, u \in T : Rank(t, T) = Rank(u, T) => t = u
  <2>. SUFFICES ASSUME NEW t \in T, NEW u \in T, Rank(t, T) = Rank(u, T), t # u PROVE FALSE
    OBVIOUS
  <2>1. Rank(t, T) \in Nat /\ Rank(u, T) \in Nat
    BY <1>2
  <2>2. t < u \/ u < t
    OBVIOUS
  <2>. QED
    BY <1>3, <2>1, <2>2
<1>5. \A r \in 0 .. Cardinality(T) - 1 : \E t \in T : Rank(t, T) = r
  <2>. DEFINE I == 0 .. Cardinality(T) - 1
              f == [t \in T |-> Rank(t, T)]
  <2>1. IsFiniteSet(I) /\ Cardinality(I) = Cardinality(T)
    <3>1. 0 \in Int /\ Cardinality(T) - 1 \in Int
      BY <1>1
    <3>2. IsFiniteSet(I) /\ Cardinality(I) = IF 0 > Cardinality(T) - 1 THEN 0 ELSE Cardinality(T) - 1 - 0 + 1
      BY <3>1, FS_Interval
    <3>. QED
      BY <1>1, <3>2
  <2>2. f \in Injection(T, I)
    BY <1>2, <1>4 DEF Injection, IsInjective
  <2>. HIDE DEF I, f
  <2>3. f \in Surjection(T, I)
    BY <2>1, <2>2, FS_Injection
  <2>4. \A r \in I : \E t \in T : f[t] = r
    BY <2>3 DEF Surjection
  <2>. QED
    BY <2>4 DEF I, f
<1>. QED
  BY <1>1, <1>2, <1>4, <1>5

\* The packets hold every transaction, and each some, at most as many as fit.
LEMMA PacketsHold ==
  ASSUME NEW T, T \subseteq Nat, IsFiniteSet(T), T # {}, NEW size \in Nat \ {0}
  PROVE  /\ \A t \in T : \E P \in Packets(T, size) : t \in P
         /\ \A P \in Packets(T, size) : P \subseteq T /\ Cardinality(P) \in 1 .. size
<1>. DEFINE n == Cardinality(T)
            Packet(i) == {t \in T : Rank(t, T) \div size = i}
<1>1. n \in Nat /\ n # 0
  BY FS_CardinalityType, FS_EmptySet
<1>2. /\ \A t \in T : Rank(t, T) \in 0 .. n - 1
      /\ \A t, u \in T : Rank(t, T) = Rank(u, T) => t = u
      /\ \A r \in 0 .. n - 1 : \E t \in T : Rank(t, T) = r
  BY Ranks
<1>3. n - 1 \in Nat /\ (n - 1) \div size \in Nat /\ size * ((n - 1) \div size) <= n - 1
  BY <1>1, Division
<1>. HIDE DEF n
<1>4. Packets(T, size) = {Packet(i) : i \in 0 .. (n - 1) \div size}
  BY DEF Packets, n
<1>5. ASSUME NEW t \in T PROVE Rank(t, T) \div size \in 0 .. (n - 1) \div size
  <2>. DEFINE r == Rank(t, T)
              a == r \div size
              b == (n - 1) \div size
  <2>1. r \in Nat /\ r <= n - 1
    BY <1>2, <1>1
  <2>2. a \in Nat /\ size * a <= r
    BY <2>1, Division
  <2>3. b \in Nat /\ n - 1 < size * b + size
    BY <1>3, Division
  <2>. HIDE DEF r, a, b
  <2>4. a <= b
    <3>. SUFFICES ASSUME b + 1 <= a PROVE FALSE
      BY <2>2, <2>3
    <3>1. size * (b + 1) <= size * a
      BY <2>2, <2>3, Monotone
    <3>2. size * (b + 1) = size * b + size
      BY <2>3
    <3>. QED
      BY <1>3, <2>1, <2>2, <2>3, <3>1, <3>2
  <2>. QED
    BY <2>2, <2>3, <2>4 DEF a, b, r
<1>6. ASSUME NEW i \in 0 .. (n - 1) \div size
      PROVE  Cardinality(Packet(i)) \in 1 .. size
  <2>. DEFINE lo == size * i
              I == lo .. lo + size - 1
              P == Packet(i)
              f == [t \in P |-> Rank(t, T)]
  <2>1. i \in Nat /\ lo \in Nat /\ lo <= n - 1
    BY <1>3, Monotone
  <2>2. IsFiniteSet(I) /\ Cardinality(I) = size
    <3>. HIDE DEF lo
    <3>. QED
      BY <2>1, FS_Interval
  <2>3. \A t \in P : Rank(t, T) \in I
    <3>. SUFFICES ASSUME NEW t \in P PROVE Rank(t, T) \in I
      OBVIOUS
    <3>1. Rank(t, T) \in Nat /\ Rank(t, T) \div size = i
      BY <1>2
    <3>2. lo <= Rank(t, T) /\ Rank(t, T) < lo + size
      BY <3>1, Division
    <3>. HIDE DEF lo
    <3>. QED
      BY <2>1, <3>1, <3>2
  <2>4. f \in Injection(P, I)
    <3>. HIDE DEF I
    <3>. QED
      BY <1>2, <2>3 DEF Injection, IsInjective
  <2>. HIDE DEF f
  <2>5. IsFiniteSet(P) /\ Cardinality(P) <= size
    BY <2>2, <2>4, FS_Injection
  <2>6. P # {}
    <3>1. PICK t \in T : Rank(t, T) = lo
      BY <1>1, <1>2, <2>1
    <3>2. lo \div size = i
      BY <2>1, DivisionUnique
    <3>. QED
      BY <3>1, <3>2
  <2>7. Cardinality(P) \in Nat /\ Cardinality(P) # 0
    BY <2>5, <2>6, FS_CardinalityType, FS_EmptySet
  <2>. QED
    BY <2>5, <2>7
<1>7. ASSUME NEW t \in T PROVE \E P \in Packets(T, size) : t \in P
  <2>1. t \in Packet(Rank(t, T) \div size)
    OBVIOUS
  <2>2. Packet(Rank(t, T) \div size) \in Packets(T, size)
    BY <1>4, <1>5
  <2>. QED
    BY <2>1, <2>2
<1>8. ASSUME NEW P \in Packets(T, size) PROVE P \subseteq T /\ Cardinality(P) \in 1 .. size
  <2>1. PICK i \in 0 .. (n - 1) \div size : P = Packet(i)
    BY <1>4
  <2>. QED
    BY <1>6, <2>1
<1>. QED
  BY <1>7, <1>8
-----------------------------------------------------------------------------
(* What the parts of the actions do.                                       *)

LEMMA MsgType ==
  ASSUME NEW n \in Nodes, NEW m \in Nodes, NEW id \in Ids, NEW T \in SUBSET Txs
  PROVE  /\ Msg(n, m, id, T) \in Message
         /\ Msg(n, m, id, T).from = n /\ Msg(n, m, id, T).to = m
         /\ Msg(n, m, id, T).id = id /\ Msg(n, m, id, T).txs = T
BY DEF Msg, Message, Ids

LEMMA MessageFields ==
  ASSUME NEW x \in Message
  PROVE  x.from \in Nodes /\ x.to \in Nodes /\ x.id \in Ids /\ x.txs \subseteq Txs
BY DEF Message

LEMMA SendingFields ==
  ASSUME NEW s \in Sending
  PROVE  s[1] \in Nodes /\ s[2] \subseteq Nodes /\ s[3] \subseteq Txs
BY DEF Sending

LEMMA HashesIds ==
  \A n \in Nodes : HashesId(n) \in Ids /\ HashesId(n) \notin
     {"GET_POOLED_TRANSACTIONS_66", "POOLED_TRANSACTIONS_66", "TRANSACTIONS_66"}
<1>1. \A n \in Nodes : \/ HashesId(n) = "NEW_POOLED_TRANSACTION_HASHES_68"
                         \/ HashesId(n) = "NEW_POOLED_TRANSACTION_HASHES_66"
  BY DEF HashesId
<1>. QED
  BY <1>1 DEF Ids

\* Announcements: for every peer and transaction there is a message, and each is within the limit.
LEMMA Announced ==
  ASSUME TypeOK, NEW n \in Nodes, NEW M \in SUBSET Nodes, NEW T \in SUBSET Txs
  PROVE  /\ \A m \in M, t \in T : \E x \in Announcements(n, M, T) :
               t \in x.txs /\ x.from = n /\ x.to = m /\ x.id # "GET_POOLED_TRANSACTIONS_66"
         /\ \A x \in Announcements(n, M, T) :
               /\ x \in Message /\ x.from = n /\ x.txs \subseteq T
               /\ Cardinality(x.txs) \in 1 .. PerPacket[Protocol[x.from]]
<1>1. CASE T = {}
  BY <1>1 DEF Announcements
<1>2. CASE T # {}
  <2>. DEFINE size == PerPacket[Protocol[n]]
              All == {Msg(n, m, HashesId(n), P) : m \in M, P \in Packets(T, size)}
  <2>1. T \subseteq Nat /\ IsFiniteSet(T) /\ size \in Nat \ {0}
    <3>1. IsFiniteSet(T)
      BY FS_Subset DEF TypeOK, ConstantsFit
    <3>. QED
      BY <3>1 DEF TypeOK, ConstantsFit
  <2>2. /\ \A t \in T : \E P \in Packets(T, size) : t \in P
        /\ \A P \in Packets(T, size) : P \subseteq T /\ Cardinality(P) \in 1 .. size
    BY <1>2, <2>1, PacketsHold
  <2>3. Announcements(n, M, T) = All
    BY <1>2 DEF Announcements
  <2>4. HashesId(n) \in Ids /\ HashesId(n) # "GET_POOLED_TRANSACTIONS_66"
    BY HashesIds
  <2>5. ASSUME NEW m \in M, NEW P \in Packets(T, size)
        PROVE  /\ Msg(n, m, HashesId(n), P) \in Message
               /\ Msg(n, m, HashesId(n), P).from = n /\ Msg(n, m, HashesId(n), P).to = m
               /\ Msg(n, m, HashesId(n), P).id = HashesId(n) /\ Msg(n, m, HashesId(n), P).txs = P
    <3>1. m \in Nodes /\ P \in SUBSET Txs
      BY <2>2
    <3>. QED
      BY <2>4, <3>1, MsgType
  <2>. HIDE DEF size
  <2>6. ASSUME NEW m \in M, NEW t \in T
        PROVE  \E x \in All :
                 t \in x.txs /\ x.from = n /\ x.to = m /\ x.id # "GET_POOLED_TRANSACTIONS_66"
    <3>1. PICK P \in Packets(T, size) : t \in P
      BY <2>2
    <3>. WITNESS Msg(n, m, HashesId(n), P) \in All
    <3>. QED
      BY <2>4, <2>5, <3>1
  <2>7. ASSUME NEW x \in All
        PROVE  /\ x \in Message /\ x.from = n /\ x.txs \subseteq T
               /\ Cardinality(x.txs) \in 1 .. PerPacket[Protocol[x.from]]
    <3>1. PICK m \in M, P \in Packets(T, size) : x = Msg(n, m, HashesId(n), P)
      BY SMT
    <3>2. x \in Message /\ x.from = n /\ x.txs = P
      BY <2>5, <3>1
    <3>. QED
      BY <2>2, <3>2 DEF size
  <2>. QED
    BY <2>3, <2>6, <2>7
<1>. QED
  BY <1>1, <1>2

\* Sends: the peers get the messages, or have missed the transactions.
LEMMA Sent ==
  ASSUME NEW n, NEW M, NEW msgs, NEW T, Sends(n, M, msgs, T)
  PROVE  /\ net \subseteq net' /\ missed \subseteq missed' /\ net' \subseteq net \cup msgs
         /\ \/ \A m \in M, t \in T : <<n, m, t>> \in missed'
            \/ \A x \in msgs : x.to \in Peers(n) => x \in net'
BY DEF Sends, Lost

\* Notify: what was promoted will be announced, or the peers have missed it.
LEMMA Notified ==
  ASSUME TypeOK, NEW n \in Nodes, NEW T \in SUBSET Txs, Notify(n, T)
  PROVE  /\ newTxs' \in [Nodes -> SUBSET Txs] /\ missed \subseteq missed'
         /\ \A a \in Nodes : newTxs[a] \subseteq newTxs'[a]
         /\ \A m \in Peers(n), t \in T : t \in newTxs'[n] \/ <<n, m, t>> \in missed'
<1>1. CASE newTxs' = [newTxs EXCEPT ![n] = @ \union T] /\ UNCHANGED <<missed, faults>>
  BY <1>1 DEF TypeOK
<1>2. CASE missed' = missed \union Lost(n, Peers(n), T) /\ UNCHANGED newTxs
  BY <1>2 DEF TypeOK, Lost
<1>. QED
  BY <1>1, <1>2 DEF Notify

\* Putting transactions into a state other than unknown.
LEMMA PutDone ==
  ASSUME TypeOK, NEW n \in Nodes, NEW T, NEW s \in States \ {"unknown"}, Put(n, T, s)
  PROVE  /\ state' \in [Nodes -> [Txs -> States]] /\ Remembers
         /\ \A a \in Nodes, t \in Txs : state'[a][t] = IF a = n /\ t \in T THEN s ELSE state[a][t]
<1>1. \A a \in Nodes, t \in Txs : state'[a][t] = IF a = n /\ t \in T THEN s ELSE state[a][t]
  BY DEF TypeOK, Put
<1>2. state' \in [Nodes -> [Txs -> States]]
  BY DEF TypeOK, Put
<1>. QED
  BY <1>1, <1>2 DEF Remembers, IdHashKnown
-----------------------------------------------------------------------------
(* What stays as it is.                                                    *)

\* Where nothing is taken away, what was reached is reached.
LEMMA StillReached ==
  ASSUME TypeOK, Remembers, NEW n \in Nodes, NEW m \in Nodes, NEW t \in Txs, Reached(n, m, t),
         newTxs[n] \subseteq newTxs'[n], events[n] \cup recent[n] \subseteq events'[n] \cup recent'[n],
         toSend \subseteq toSend', net \subseteq net', missed \subseteq missed'
  PROVE  Reached(n, m, t)'
<1>1. CASE IdHashKnown(m, t)
  BY <1>1 DEF Remembers, Reached
<1>2. CASE OnItsWay(n, m, t)
  BY <1>2 DEF OnItsWay, Reached
<1>3. CASE <<n, m, t>> \in missed
  BY <1>3 DEF Reached
<1>. QED
  BY <1>1, <1>2, <1>3 DEF Reached

\* What NothingKeptBack says of one peer and one transaction.
LEMMA KeptBack ==
  ASSUME NothingKeptBack, NEW n \in Nodes, NEW m \in Peers(n), NEW t \in Txs, state[n][t] = "promoted"
  PROVE  Reached(n, m, t)
BY DEF NothingKeptBack, In, Reached

LEMMA KeptBackNext ==
  ASSUME \A n \in Nodes : \A m \in Peers(n)', t \in Txs : state'[n][t] = "promoted" => Reached(n, m, t)'
  PROVE  NothingKeptBack'
BY DEF NothingKeptBack, In, Reached

\* New messages keep PacketsFit when they fit.
LEMMA PacketsFitNext ==
  ASSUME TypeOK, PacketsFit, Remembers,
         \A x \in net' : \/ x \in net
                         \/ /\ x.id \in {HashesId(n) : n \in Nodes} =>
                                 Cardinality(x.txs) \in 1 .. PerPacket[Protocol[x.from]]
                            /\ \A t \in x.txs : IdHashKnown(x.from, t)' \/ x.id = "GET_POOLED_TRANSACTIONS_66"
  PROVE  PacketsFit'
<1>. SUFFICES ASSUME NEW x \in net'
              PROVE  /\ x.id \in {HashesId(n) : n \in Nodes} =>
                          Cardinality(x.txs) \in 1 .. PerPacket[Protocol[x.from]]
                     /\ \A t \in x.txs : IdHashKnown(x.from, t)' \/ x.id = "GET_POOLED_TRANSACTIONS_66"
  BY DEF PacketsFit, HashesId
<1>1. CASE x \in net
  <2>1. x.from \in Nodes /\ x.txs \subseteq Txs
    BY <1>1, MessageFields DEF TypeOK
  <2>. QED
    BY <1>1, <2>1 DEF PacketsFit, Remembers
<1>. QED
  BY <1>1

LEMMA SendsKnownNext ==
  ASSUME TypeOK, SendsKnown, Remembers,
         \A s \in toSend' : s \in toSend \/ \A t \in s[3] : IdHashKnown(s[1], t)'
  PROVE  SendsKnown'
<1>. SUFFICES ASSUME NEW s \in toSend', s \in toSend, NEW t \in s[3] PROVE IdHashKnown(s[1], t)'
  BY DEF SendsKnown
<1>1. s[1] \in Nodes /\ t \in Txs
  BY SendingFields DEF TypeOK
<1>. QED
  BY <1>1 DEF SendsKnown, Remembers
-----------------------------------------------------------------------------
(* The pool.                                                               *)

\* The transactions T of n are promoted, and MainLoop is notified.
LEMMA Promoted ==
  ASSUME Inv, NEW n \in Nodes, NEW T \in SUBSET Txs,
         state' \in [Nodes -> [Txs -> States]], Remembers,
         \A a \in Nodes, t \in Txs :
            state'[a][t] = "promoted" => state[a][t] = "promoted" \/ (a = n /\ t \in T),
         Notify(n, T) \/ (T = {} /\ UNCHANGED <<newTxs, missed>>),
         UNCHANGED <<conn, events, recent, toSend, net>>
  PROVE  Inv'
<1>1. /\ newTxs' \in [Nodes -> SUBSET Txs] /\ missed \subseteq missed'
      /\ \A a \in Nodes : newTxs[a] \subseteq newTxs'[a]
      /\ \A m \in Peers(n), t \in T : t \in newTxs'[n] \/ <<n, m, t>> \in missed'
  <2>1. CASE Notify(n, T)
    BY <2>1, Notified DEF Inv
  <2>2. CASE T = {} /\ UNCHANGED <<newTxs, missed>>
    BY <2>2 DEF Inv, TypeOK
  <2>. QED
    BY <2>1, <2>2
<1>2. TypeOK'
  BY <1>1 DEF Inv, TypeOK, ConstantsFit
<1>3. SendsKnown' /\ PacketsFit'
  BY SendsKnownNext, PacketsFitNext DEF Inv
<1>4. ASSUME NEW a \in Nodes, NEW m \in Peers(a)', NEW t \in Txs, state'[a][t] = "promoted"
      PROVE  Reached(a, m, t)'
  <2>1. m \in Peers(a) /\ m \in Nodes
    BY DEF Peers
  <2>2. CASE a = n /\ t \in T
    BY <1>1, <2>1, <2>2 DEF Reached, OnItsWay
  <2>3. CASE state[a][t] = "promoted"
    <3>1. Reached(a, m, t)
      BY <2>1, <2>3, KeptBack DEF Inv
    <3>. QED
      BY <1>1, <2>1, <3>1, StillReached DEF Inv
  <2>. QED
    BY <1>4, <2>2, <2>3
<1>5. NothingKeptBack'
  BY <1>4, KeptBackNext
<1>. QED
  BY <1>2, <1>3, <1>5 DEF Inv

LEMMA AddLocalTxsStep == ASSUME Inv, NEW n \in Nodes, NEW t \in Txs, AddLocalTxs(n, t) PROVE Inv'
<1>1. UNCHANGED <<conn, events, recent, toSend, net>>
  BY DEF AddLocalTxs, loop
<1>2. CASE Put(n, {t}, "promoted") /\ Notify(n, {t})
  <2>1. /\ state' \in [Nodes -> [Txs -> States]] /\ Remembers
        /\ \A a \in Nodes, u \in Txs :
              state'[a][u] = IF a = n /\ u \in {t} THEN "promoted" ELSE state[a][u]
    BY <1>2, PutDone DEF Inv, States
  <2>2. {t} \in SUBSET Txs
    OBVIOUS
  <2>. QED
    BY <1>1, <1>2, <2>1, <2>2, Promoted
<1>3. CASE Put(n, {t}, "queued") /\ UNCHANGED <<newTxs, missed, faults>>
  <2>1. /\ state' \in [Nodes -> [Txs -> States]] /\ Remembers
        /\ \A a \in Nodes, u \in Txs :
              state'[a][u] = IF a = n /\ u \in {t} THEN "queued" ELSE state[a][u]
    BY <1>3, PutDone DEF Inv, States
  <2>2. {} \in SUBSET Txs /\ \A a \in Nodes, u \in Txs :
          state'[a][u] = "promoted" => state[a][u] = "promoted" \/ (a = n /\ u \in {})
    BY <2>1
  <2>3. {} = {} /\ UNCHANGED <<newTxs, missed>>
    BY <1>3
  <2>. QED
    BY <1>1, <2>1, <2>2, <2>3, Promoted
<1>. QED
  BY <1>2, <1>3 DEF AddLocalTxs

LEMMA ProcessRemoteTxsStep == ASSUME Inv, NEW n \in Nodes, ProcessRemoteTxs(n) PROVE Inv'
<1>. DEFINE U == In(n, {"unprocessed"})
<1>1. PICK up \in SUBSET U : \E q \in SUBSET (U \ up) :
        /\ state' = [state EXCEPT ![n] = [t \in Txs |-> IF t \in up THEN "promoted"
                       ELSE IF t \in q THEN "queued" ELSE IF t \in U THEN "gone" ELSE @[t]]]
        /\ Notify(n, up)
  BY DEF ProcessRemoteTxs
<1>2. PICK q \in SUBSET (U \ up) :
        state' = [state EXCEPT ![n] = [t \in Txs |-> IF t \in up THEN "promoted"
                    ELSE IF t \in q THEN "queued" ELSE IF t \in U THEN "gone" ELSE @[t]]]
  BY <1>1
<1>3. UNCHANGED <<conn, events, recent, toSend, net>>
  BY DEF ProcessRemoteTxs, loop
<1>4. up \in SUBSET Txs
  BY DEF In
<1>5. \A a \in Nodes, t \in Txs :
        state'[a][t] = IF a # n THEN state[a][t] ELSE IF t \in up THEN "promoted"
                       ELSE IF t \in q THEN "queued" ELSE IF t \in U THEN "gone" ELSE state[a][t]
  BY <1>2 DEF Inv, TypeOK
<1>6. state' \in [Nodes -> [Txs -> States]]
  BY <1>2 DEF Inv, TypeOK, States
<1>7. Remembers
  BY <1>5 DEF Remembers, IdHashKnown
<1>8. \A a \in Nodes, t \in Txs :
        state'[a][t] = "promoted" => state[a][t] = "promoted" \/ (a = n /\ t \in up)
  BY <1>5
<1>. QED
  BY <1>1, <1>3, <1>4, <1>6, <1>7, <1>8, Promoted

LEMMA OnNewBlockStep == ASSUME Inv, NEW n \in Nodes, NEW t \in Txs, OnNewBlock(n, t) PROVE Inv'
<1>1. UNCHANGED <<conn, events, recent, toSend, net>>
  BY DEF OnNewBlock
<1>2. CASE Put(n, {t}, "promoted") /\ Notify(n, {t})
  <2>1. /\ state' \in [Nodes -> [Txs -> States]] /\ Remembers
        /\ \A a \in Nodes, u \in Txs :
              state'[a][u] = IF a = n /\ u \in {t} THEN "promoted" ELSE state[a][u]
    BY <1>2, PutDone DEF Inv, States
  <2>2. {t} \in SUBSET Txs
    OBVIOUS
  <2>. QED
    BY <1>1, <1>2, <2>1, <2>2, Promoted
<1>3. CASE Put(n, {t}, "gone") /\ UNCHANGED <<newTxs, missed, faults>>
  <2>1. /\ state' \in [Nodes -> [Txs -> States]] /\ Remembers
        /\ \A a \in Nodes, u \in Txs :
              state'[a][u] = IF a = n /\ u \in {t} THEN "gone" ELSE state[a][u]
    BY <1>3, PutDone DEF Inv, States
  <2>2. {} \in SUBSET Txs /\ \A a \in Nodes, u \in Txs :
          state'[a][u] = "promoted" => state[a][u] = "promoted" \/ (a = n /\ u \in {})
    BY <2>1
  <2>3. {} = {} /\ UNCHANGED <<newTxs, missed>>
    BY <1>3
  <2>. QED
    BY <1>1, <2>1, <2>2, <2>3, Promoted
<1>4. CASE UNCHANGED <<state, newTxs, missed, faults>>
  <2>1. state' \in [Nodes -> [Txs -> States]] /\ Remembers
    BY <1>4 DEF Inv, TypeOK, Remembers, IdHashKnown
  <2>2. {} \in SUBSET Txs /\ \A a \in Nodes, u \in Txs :
          state'[a][u] = "promoted" => state[a][u] = "promoted" \/ (a = n /\ u \in {})
    BY <1>4
  <2>3. {} = {} /\ UNCHANGED <<newTxs, missed>>
    BY <1>4
  <2>. QED
    BY <1>1, <2>1, <2>2, <2>3, Promoted
<1>. QED
  BY <1>2, <1>3, <1>4 DEF OnNewBlock
-----------------------------------------------------------------------------
(* MainLoop and Send.                                                      *)

\* What stands for an announcement is taken away only where it is T of n for the peers M.
OnlyThese(n, M, T) ==
  /\ newTxs' \in [Nodes -> SUBSET Txs] /\ toSend' \subseteq toSend
  /\ \A a, m \in Nodes, t \in Txs :
       state[a][t] = "promoted" /\ m \in Peers(a) =>
         \/ a = n /\ m \in M /\ t \in T
         \/ /\ t \in newTxs[a] => t \in newTxs'[a]
            /\ \A s \in toSend : s[1] = a /\ m \in s[2] /\ t \in s[3] => s \in toSend'

\* The messages K of n hold some of T, and announce nothing.
Besides(K, n, T) ==
  \A x \in K : /\ x \in Message /\ x.from = n /\ x.txs \subseteq T
               /\ x.id \notin {HashesId(a) : a \in Nodes}

\* The announcements T of n for the peers M are sent, in place of what stood for them; K is
\* what else is sent.
LEMMA Announces ==
  ASSUME Inv, NEW n \in Nodes, NEW M \in SUBSET Nodes, NEW T \in SUBSET Txs, NEW K,
         Sends(n, M, Announcements(n, M, T) \cup K, T), UNCHANGED <<state, conn, events, recent>>,
         Besides(K, n, T), \A t \in T : IdHashKnown(n, t), OnlyThese(n, M, T)
  PROVE  Inv'
<1>. USE DEF OnlyThese, Besides
<1>1. /\ net \subseteq net' /\ missed \subseteq missed'
      /\ net' \subseteq net \cup Announcements(n, M, T) \cup K
      /\ \/ \A m \in M, t \in T : <<n, m, t>> \in missed'
         \/ \A x \in Announcements(n, M, T) : x.to \in Peers(n) => x \in net'
  BY Sent
<1>2. /\ \A m \in M, t \in T : \E x \in Announcements(n, M, T) :
            t \in x.txs /\ x.from = n /\ x.to = m /\ x.id # "GET_POOLED_TRANSACTIONS_66"
      /\ \A x \in Announcements(n, M, T) :
            /\ x \in Message /\ x.from = n /\ x.txs \subseteq T
            /\ Cardinality(x.txs) \in 1 .. PerPacket[Protocol[x.from]]
  BY Announced DEF Inv
<1>3. Remembers
  BY DEF Remembers, IdHashKnown
<1>4. TypeOK'
  <2>1. net' \subseteq Message
    BY <1>1, <1>2 DEF Inv, TypeOK
  <2>. QED
    BY <2>1 DEF Inv, TypeOK, ConstantsFit
<1>5. SendsKnown'
  BY <1>3, SendsKnownNext DEF Inv
<1>6. PacketsFit'
  <2>1. \A t \in T : IdHashKnown(n, t)'
    BY DEF IdHashKnown
  <2>2. ASSUME NEW x \in net', x \notin net
        PROVE  /\ x.id \in {HashesId(a) : a \in Nodes} =>
                    Cardinality(x.txs) \in 1 .. PerPacket[Protocol[x.from]]
               /\ \A t \in x.txs : IdHashKnown(x.from, t)'
    BY <1>1, <1>2, <2>1, <2>2
  <2>. QED
    BY <1>3, <2>2, PacketsFitNext DEF Inv
<1>7. ASSUME NEW a \in Nodes, NEW m \in Peers(a)', NEW t \in Txs, state'[a][t] = "promoted"
      PROVE  Reached(a, m, t)'
  <2>1. m \in Peers(a) /\ m \in Nodes /\ state[a][t] = "promoted"
    BY <1>7 DEF Peers
  <2>2. CASE a = n /\ m \in M /\ t \in T
    <3>1. CASE <<n, m, t>> \in missed'
      BY <2>2, <3>1 DEF Reached
    <3>2. CASE \A x \in Announcements(n, M, T) : x.to \in Peers(n) => x \in net'
      <4>1. PICK x \in Announcements(n, M, T) :
              t \in x.txs /\ x.from = n /\ x.to = m /\ x.id # "GET_POOLED_TRANSACTIONS_66"
        BY <1>2, <2>2
      <4>2. x \in net'
        BY <2>1, <2>2, <3>2, <4>1
      <4>. QED
        BY <2>2, <4>1, <4>2 DEF Reached, OnItsWay
    <3>. QED
      BY <1>1, <2>2, <3>1, <3>2
  <2>3. CASE /\ t \in newTxs[a] => t \in newTxs'[a]
             /\ \A s \in toSend : s[1] = a /\ m \in s[2] /\ t \in s[3] => s \in toSend'
    <3>1. Reached(a, m, t)
      BY <2>1, KeptBack DEF Inv
    <3>2. CASE IdHashKnown(m, t)
      BY <3>2 DEF Reached, IdHashKnown
    <3>3. CASE OnItsWay(a, m, t)
      <4>1. OnItsWay(a, m, t)'
        BY <1>1, <2>3, <3>3 DEF OnItsWay
      <4>. QED
        BY <4>1 DEF Reached
    <3>4. CASE <<a, m, t>> \in missed
      BY <1>1, <3>4 DEF Reached
    <3>. QED
      BY <3>1, <3>2, <3>3, <3>4 DEF Reached
  <2>. QED
    BY <2>1, <2>2, <2>3
<1>8. NothingKeptBack'
  BY <1>7, KeptBackNext
<1>. QED
  BY <1>4, <1>5, <1>6, <1>8 DEF Inv

LEMMA AnnounceNewTxsStep == ASSUME Inv, NEW n \in Nodes, AnnounceNewTxs(n) PROVE Inv'
<1>. DEFINE T == {t \in newTxs[n] : HasRlp(n, t)}
<1>1. PICK some \in SUBSET Peers(n) :
        Sends(n, Peers(n), Announcements(n, Peers(n), T) \union Broadcasts(n, some, T), T)
  BY DEF AnnounceNewTxs
<1>2. newTxs' = [newTxs EXCEPT ![n] = {}] /\ UNCHANGED <<state, conn, events, recent, toSend>>
  BY DEF AnnounceNewTxs, loop
<1>3. T \in SUBSET Txs /\ Peers(n) \in SUBSET Nodes
  BY DEF Inv, TypeOK, Peers
<1>4. \A t \in T : IdHashKnown(n, t)
  BY DEF HasRlp, IdHashKnown
<1>5. \A t \in newTxs[n] : state[n][t] = "promoted" => t \in T
  BY DEF HasRlp
<1>. HIDE DEF T
<1>6. ASSUME NEW x \in Broadcasts(n, some, T)
      PROVE  x \in Message /\ x.from = n /\ x.id \notin {HashesId(a) : a \in Nodes} /\ x.txs \subseteq T
  <2>1. PICK m \in some : x = Msg(n, m, "TRANSACTIONS_66", T)
    BY DEF Broadcasts
  <2>2. x \in Message /\ x.from = n /\ x.id = "TRANSACTIONS_66" /\ x.txs = T
    <3>1. m \in Nodes /\ "TRANSACTIONS_66" \in Ids
      BY <1>3 DEF Ids
    <3>. QED
      BY <1>3, <2>1, <3>1, MsgType
  <2>. QED
    BY <2>2, HashesIds
<1>7. newTxs' \in [Nodes -> SUBSET Txs] /\ \A a \in Nodes : a # n => newTxs'[a] = newTxs[a]
  BY <1>2 DEF Inv, TypeOK
<1>8. OnlyThese(n, Peers(n), T)
  BY <1>2, <1>5, <1>7 DEF OnlyThese
<1>9. UNCHANGED <<state, conn, events, recent>>
  BY <1>2
<1>10. Besides(Broadcasts(n, some, T), n, T)
  BY <1>6 DEF Besides
<1>. QED
  BY <1>1, <1>3, <1>4, <1>8, <1>9, <1>10, Announces

LEMMA PropagateStep == ASSUME Inv, NEW s \in toSend, PropagatePooledTxsToPeersList(s) PROVE Inv'
<1>. DEFINE n == s[1]
            M == s[2]
            T == s[3]
<1>1. n \in Nodes /\ M \in SUBSET Nodes /\ T \in SUBSET Txs
  BY SendingFields DEF Inv, TypeOK
<1>2. \A t \in T : IdHashKnown(n, t)
  BY DEF Inv, SendsKnown
<1>3. /\ toSend' = toSend \ {s} /\ Sends(n, M, Announcements(n, M, T), T)
      /\ UNCHANGED <<state, conn, events, recent>> /\ UNCHANGED newTxs
  BY DEF PropagatePooledTxsToPeersList
<1>4. OnlyThese(n, M, T)
  BY <1>3 DEF OnlyThese, Inv, TypeOK
<1>. HIDE DEF n, M, T
<1>5. Sends(n, M, Announcements(n, M, T) \cup {}, T) /\ Besides({}, n, T)
  <2>1. Announcements(n, M, T) \cup {} = Announcements(n, M, T)
    OBVIOUS
  <2>. QED
    BY <1>3, <2>1 DEF Besides
<1>. QED
  BY <1>1, <1>2, <1>3, <1>4, <1>5, Announces

\* The steps that only move what stands for an announcement along.
LEMMA SyncToNewPeersStep == ASSUME Inv, NEW n \in Nodes, SyncToNewPeers(n) PROVE Inv'
<1>. DEFINE T == In(n, {"unprocessed", "queued", "promoted"})
            s == <<n, recent[n], T>>
<1>1. /\ recent' = [recent EXCEPT ![n] = {}] /\ toSend' = toSend \cup {s}
      /\ UNCHANGED <<state, newTxs, conn, events, net, missed>>
  BY DEF SyncToNewPeers
<1>2. T \subseteq Txs /\ \A t \in T : IdHashKnown(n, t)
  BY DEF In, IdHashKnown
<1>3. \A t \in Txs : state[n][t] = "promoted" => t \in T
  BY DEF In
<1>. HIDE DEF T
<1>4. s \in Sending /\ s[1] = n /\ s[2] = recent[n] /\ s[3] = T
  BY <1>2 DEF Inv, TypeOK, Sending
<1>5. TypeOK'
  BY <1>1, <1>4 DEF Inv, TypeOK, ConstantsFit
<1>6. Remembers
  BY <1>1 DEF Remembers, IdHashKnown
<1>7. SendsKnown'
  <2>1. \A t \in s[3] : IdHashKnown(s[1], t)'
    BY <1>1, <1>2, <1>4 DEF IdHashKnown
  <2>. QED
    BY <1>1, <1>6, <2>1, SendsKnownNext DEF Inv
<1>8. PacketsFit'
  BY <1>1, <1>6, PacketsFitNext DEF Inv
<1>9. ASSUME NEW a \in Nodes, NEW m \in Peers(a)', NEW t \in Txs, state'[a][t] = "promoted"
      PROVE  Reached(a, m, t)'
  <2>1. m \in Peers(a) /\ m \in Nodes /\ state[a][t] = "promoted"
    BY <1>1, <1>9 DEF Peers
  <2>2. Reached(a, m, t)
    BY <2>1, KeptBack DEF Inv
  <2>3. CASE a = n /\ m \in recent[n]
    <3>1. s \in toSend' /\ s[1] = a /\ m \in s[2] /\ t \in s[3]
      BY <1>1, <1>3, <1>4, <2>1, <2>3
    <3>. QED
      BY <3>1 DEF Reached, OnItsWay
  <2>4. CASE ~(a = n /\ m \in recent[n])
    <3>1. m \in recent[a] => m \in recent'[a]
      BY <1>1, <2>4 DEF Inv, TypeOK
    <3>. QED
      BY <1>1, <2>2, <3>1 DEF Reached, OnItsWay, IdHashKnown
  <2>. QED
    BY <2>3, <2>4
<1>10. NothingKeptBack'
  BY <1>9, KeptBackNext
<1>. QED
  BY <1>5, <1>7, <1>8, <1>10 DEF Inv

LEMMA ReceivePeerStep ==
  ASSUME Inv, NEW n \in Nodes, NEW p \in Nodes, ReceivePeer(n, p) PROVE Inv'
<1>1. /\ events' = [events EXCEPT ![n] = @ \ {p}] /\ recent' = [recent EXCEPT ![n] = @ \union {p}]
      /\ UNCHANGED <<state, newTxs, conn, toSend, net, missed>>
  BY DEF ReceivePeer
<1>2. TypeOK'
  BY <1>1 DEF Inv, TypeOK, ConstantsFit
<1>3. Remembers
  BY <1>1 DEF Remembers, IdHashKnown
<1>4. SendsKnown' /\ PacketsFit'
  BY <1>1, <1>3, SendsKnownNext, PacketsFitNext DEF Inv
<1>5. \A a \in Nodes : events[a] \cup recent[a] \subseteq events'[a] \cup recent'[a]
  BY <1>1 DEF Inv, TypeOK
<1>6. ASSUME NEW a \in Nodes, NEW m \in Peers(a)', NEW t \in Txs, state'[a][t] = "promoted"
      PROVE  Reached(a, m, t)'
  <2>1. m \in Peers(a) /\ m \in Nodes /\ state[a][t] = "promoted"
    BY <1>1, <1>6 DEF Peers
  <2>2. Reached(a, m, t)
    BY <2>1, KeptBack DEF Inv
  <2>. QED
    BY <1>1, <1>3, <1>5, <2>1, <2>2, StillReached DEF Inv
<1>7. NothingKeptBack'
  BY <1>6, KeptBackNext
<1>. QED
  BY <1>2, <1>4, <1>7 DEF Inv

LEMMA ConnectStep == ASSUME Inv, NEW n \in Nodes, NEW p \in Nodes, Connect(n, p) PROVE Inv'
<1>1. /\ n # p /\ conn' = conn \union {<<n, p>>, <<p, n>>}
      /\ events' = [events EXCEPT ![n] = @ \union {p}, ![p] = @ \union {n}]
      /\ missed' = {l \in missed : {l[1], l[2]} # {n, p}}
      /\ UNCHANGED <<state, newTxs, recent, toSend, net>>
  BY DEF Connect
<1>2. /\ events' \in [Nodes -> SUBSET Nodes] /\ p \in events'[n] /\ n \in events'[p]
      /\ \A a \in Nodes : events[a] \subseteq events'[a]
  BY <1>1 DEF Inv, TypeOK
<1>3. TypeOK'
  BY <1>1, <1>2 DEF Inv, TypeOK, ConstantsFit
<1>4. Remembers
  BY <1>1 DEF Remembers, IdHashKnown
<1>5. SendsKnown' /\ PacketsFit'
  BY <1>1, <1>4, SendsKnownNext, PacketsFitNext DEF Inv
<1>6. ASSUME NEW a \in Nodes, NEW m \in Peers(a)', NEW t \in Txs, state'[a][t] = "promoted"
      PROVE  Reached(a, m, t)'
  <2>1. CASE (a = n /\ m = p) \/ (a = p /\ m = n)
    BY <1>2, <2>1 DEF Reached, OnItsWay
  <2>2. CASE ~((a = n /\ m = p) \/ (a = p /\ m = n))
    <3>1. m \in Peers(a) /\ m \in Nodes /\ state[a][t] = "promoted"
      BY <1>1, <1>6, <2>2 DEF Peers
    <3>2. Reached(a, m, t)
      BY <3>1, KeptBack DEF Inv
    <3>3. {a, m} # {n, p}
      BY <1>1, <2>2
    <3>4. <<a, m, t>> \in missed => <<a, m, t>> \in missed'
      BY <1>1, <3>3
    <3>. QED
      BY <1>1, <1>2, <3>2, <3>4 DEF Reached, OnItsWay, IdHashKnown
  <2>. QED
    BY <2>1, <2>2
<1>7. NothingKeptBack'
  BY <1>6, KeptBackNext
<1>. QED
  BY <1>3, <1>5, <1>7 DEF Inv

LEMMA DisconnectStep == ASSUME Inv, NEW n \in Nodes, NEW p \in Nodes, Disconnect(n, p) PROVE Inv'
<1>1. /\ conn' = conn \ {<<n, p>>, <<p, n>>} /\ net' = {x \in net : {x.from, x.to} # {n, p}}
      /\ UNCHANGED <<state, newTxs, events, recent, toSend, missed>>
  BY DEF Disconnect
<1>2. TypeOK'
  BY <1>1 DEF Inv, TypeOK, ConstantsFit
<1>3. Remembers
  BY <1>1 DEF Remembers, IdHashKnown
<1>4. SendsKnown' /\ PacketsFit'
  BY <1>1, <1>3, SendsKnownNext, PacketsFitNext DEF Inv
<1>5. ASSUME NEW a \in Nodes, NEW m \in Peers(a)', NEW t \in Txs, state'[a][t] = "promoted"
      PROVE  Reached(a, m, t)'
  <2>1. m \in Peers(a) /\ state[a][t] = "promoted" /\ {a, m} # {n, p}
    BY <1>1, <1>5 DEF Peers
  <2>2. Reached(a, m, t)
    BY <2>1, KeptBack DEF Inv
  <2>3. CASE IdHashKnown(m, t) \/ <<a, m, t>> \in missed
    BY <1>1, <2>3 DEF Reached, IdHashKnown
  <2>4. CASE OnItsWay(a, m, t)
    <3>1. \A x \in net : {x.from, x.to} = {a, m} => x \in net'
      BY <1>1, <2>1
    <3>2. OnItsWay(a, m, t)'
      BY <1>1, <2>4, <3>1 DEF OnItsWay
    <3>. QED
      BY <3>2 DEF Reached
  <2>. QED
    BY <2>2, <2>3, <2>4 DEF Reached
<1>6. NothingKeptBack'
  BY <1>5, KeptBackNext
<1>. QED
  BY <1>2, <1>4, <1>6 DEF Inv
-----------------------------------------------------------------------------
(* Fetch.                                                                  *)

\* The message x is about t of n, on its way to m.
StandsFor(x, n, m, t) ==
  t \in x.txs /\ IF x.id = "GET_POOLED_TRANSACTIONS_66" THEN x.from = m /\ x.to = n
                                                      ELSE x.from = n /\ x.to = m

\* A message may be taken from the network when what it stood for is reached.
LEMMA MessageTaken ==
  ASSUME Inv, NEW x \in net, state' \in [Nodes -> [Txs -> States]], Remembers,
         \A a \in Nodes, t \in Txs : state'[a][t] = "promoted" => state[a][t] = "promoted",
         UNCHANGED <<newTxs, conn, events, recent, toSend>>, missed \subseteq missed',
         net' \subseteq Message, net \ {x} \subseteq net', PacketsFit',
         \A a, m \in Nodes, t \in Txs :
            StandsFor(x, a, m, t) /\ state[a][t] = "promoted" => Reached(a, m, t)'
  PROVE  Inv'
<1>1. TypeOK'
  BY DEF Inv, TypeOK, ConstantsFit
<1>2. SendsKnown'
  BY SendsKnownNext DEF Inv
<1>3. ASSUME NEW a \in Nodes, NEW m \in Peers(a)', NEW t \in Txs, state'[a][t] = "promoted"
      PROVE  Reached(a, m, t)'
  <2>1. m \in Peers(a) /\ m \in Nodes /\ state[a][t] = "promoted"
    BY <1>3 DEF Peers
  <2>2. Reached(a, m, t)
    BY <2>1, KeptBack DEF Inv
  <2>3. CASE IdHashKnown(m, t) \/ <<a, m, t>> \in missed
    BY <2>1, <2>3 DEF Reached, Remembers
  <2>4. CASE OnItsWay(a, m, t)
    <3>1. CASE StandsFor(x, a, m, t)
      BY <2>1, <3>1
    <3>2. CASE ~StandsFor(x, a, m, t)
      <4>1. OnItsWay(a, m, t)'
        BY <2>4, <3>2 DEF OnItsWay, StandsFor
      <4>. QED
        BY <4>1 DEF Reached
    <3>. QED
      BY <3>1, <3>2
  <2>. QED
    BY <2>2, <2>3, <2>4 DEF Reached
<1>4. NothingKeptBack'
  BY <1>3, KeptBackNext
<1>. QED
  BY <1>1, <1>2, <1>4 DEF Inv

\* An announcement is answered with a request for what is not known.
LEMMA AskStep ==
  ASSUME Inv, NEW x \in net, x.id # "GET_POOLED_TRANSACTIONS_66", AskForUnknown(x),
         UNCHANGED <<newTxs, conn, events, recent, toSend, missed>>
  PROVE  Inv'
<1>. DEFINE U == Unknown(x)
            y == Msg(x.to, x.from, "GET_POOLED_TRANSACTIONS_66", U)
<1>1. x.from \in Nodes /\ x.to \in Nodes /\ x.txs \subseteq Txs
  BY MessageFields DEF Inv, TypeOK
<1>2. U \in SUBSET Txs
  BY <1>1 DEF Unknown
<1>3. /\ y \in Message /\ y.from = x.to /\ y.to = x.from /\ y.txs = U
      /\ y.id = "GET_POOLED_TRANSACTIONS_66"
  <2>1. "GET_POOLED_TRANSACTIONS_66" \in Ids
    BY DEF Ids
  <2>. QED
    BY <1>1, <1>2, <2>1, MsgType
<1>4. UNCHANGED state /\ net' = (net \ {x}) \union (IF U = {} THEN {} ELSE {y})
  BY DEF AskForUnknown
<1>5. \A t \in x.txs : IdHashKnown(x.to, t) \/ t \in U
  BY DEF Unknown
<1>. HIDE DEF U, y
<1>6. Remembers /\ state' \in [Nodes -> [Txs -> States]]
  BY <1>4 DEF Remembers, IdHashKnown, Inv, TypeOK
<1>7. PacketsFit'
  <2>1. y.id \notin {HashesId(n) : n \in Nodes}
    BY <1>3, HashesIds
  <2>. QED
    BY <1>3, <1>4, <1>6, <2>1, PacketsFitNext DEF Inv
<1>8. ASSUME NEW a \in Nodes, NEW m \in Nodes, NEW t \in Txs, StandsFor(x, a, m, t)
      PROVE  Reached(a, m, t)'
  <2>1. t \in x.txs /\ x.from = a /\ x.to = m
    BY <1>8 DEF StandsFor
  <2>2. CASE IdHashKnown(x.to, t)
    BY <1>6, <2>1, <2>2 DEF Remembers, Reached
  <2>3. CASE t \in U
    <3>1. y \in net'
      BY <1>4, <2>3
    <3>. QED
      BY <1>3, <2>1, <2>3, <3>1 DEF Reached, OnItsWay
  <2>. QED
    BY <1>5, <2>1, <2>2, <2>3
<1>9. net' \subseteq Message /\ net \ {x} \subseteq net' /\ missed \subseteq missed'
  BY <1>3, <1>4 DEF Inv, TypeOK
<1>10. \A a \in Nodes, t \in Txs : state'[a][t] = "promoted" => state[a][t] = "promoted"
  BY <1>4
<1>. QED
  BY <1>6, <1>7, <1>8, <1>9, <1>10, MessageTaken

\* A request is answered with what the pool has.
LEMMA SendPooledStep ==
  ASSUME Inv, NEW x \in net, x.id = "GET_POOLED_TRANSACTIONS_66", SendPooled(x),
         UNCHANGED <<newTxs, conn, events, recent, toSend, missed>>
  PROVE  Inv'
<1>. DEFINE H == {t \in x.txs : HasRlp(x.to, t)}
            y == Msg(x.to, x.from, "POOLED_TRANSACTIONS_66", H)
<1>1. x.from \in Nodes /\ x.to \in Nodes /\ x.txs \subseteq Txs
  BY MessageFields DEF Inv, TypeOK
<1>2. H \in SUBSET Txs
  BY <1>1
<1>3. y \in Message /\ y.from = x.to /\ y.to = x.from /\ y.txs = H /\ y.id = "POOLED_TRANSACTIONS_66"
  <2>1. "POOLED_TRANSACTIONS_66" \in Ids
    BY DEF Ids
  <2>. QED
    BY <1>1, <1>2, <2>1, MsgType
<1>4. UNCHANGED state /\ net' = (net \ {x}) \union {y}
  BY DEF SendPooled
<1>5. /\ \A t \in H : IdHashKnown(x.to, t)
      /\ \A t \in x.txs : state[x.to][t] = "promoted" => t \in H
  <2>1. ASSUME NEW t \in H
        PROVE  IdHashKnown(x.to, t)
    <3>1. HasRlp(x.to, t)
      OBVIOUS
    <3>. QED
      BY ONLY <3>1 DEF HasRlp, IdHashKnown
  <2>2. ASSUME NEW t \in x.txs, state[x.to][t] = "promoted"
        PROVE  t \in H
    <3>1. HasRlp(x.to, t)
      BY ONLY <2>2 DEF HasRlp
    <3>. QED
      BY <3>1
  <2>. QED
    BY ONLY <2>1, <2>2, Zenon
<1>. HIDE DEF H, y
<1>6. Remembers /\ state' \in [Nodes -> [Txs -> States]]
  BY <1>4 DEF Remembers, IdHashKnown, Inv, TypeOK
<1>7. PacketsFit'
  <2>1. y.id \notin {HashesId(n) : n \in Nodes}
    BY <1>3, HashesIds
  <2>2. \A t \in H : IdHashKnown(x.to, t)'
    BY <1>1, <1>2, <1>5, <1>6 DEF Remembers
  <2>3. ASSUME NEW z \in net', z \notin net
        PROVE  /\ z.id \notin {HashesId(n) : n \in Nodes}
               /\ \A t \in z.txs : IdHashKnown(z.from, t)'
    <3>1. z = y
      BY <1>4, <2>3
    <3>. QED
      BY <1>3, <2>1, <2>2, <3>1
  <2>. QED
    BY <1>6, <2>3, PacketsFitNext DEF Inv
<1>8. ASSUME NEW a \in Nodes, NEW m \in Nodes, NEW t \in Txs, StandsFor(x, a, m, t),
             state[a][t] = "promoted"
      PROVE  Reached(a, m, t)'
  <2>1. t \in x.txs /\ x.from = m /\ x.to = a
    BY <1>8 DEF StandsFor
  <2>2. t \in H /\ y \in net'
    BY <1>4, <1>5, <1>8, <2>1
  <2>. QED
    BY <1>3, <2>1, <2>2 DEF Reached, OnItsWay
<1>9. net' \subseteq Message /\ net \ {x} \subseteq net' /\ missed \subseteq missed'
  BY <1>3, <1>4 DEF Inv, TypeOK
<1>10. \A a \in Nodes, t \in Txs : state'[a][t] = "promoted" => state[a][t] = "promoted"
  BY <1>4
<1>. QED
  BY <1>6, <1>7, <1>8, <1>9, <1>10, MessageTaken

\* Transactions that come are known from then on.
LEMMA TakeStep ==
  ASSUME Inv, NEW x \in net, x.id # "GET_POOLED_TRANSACTIONS_66", TakeTransactions(x),
         UNCHANGED <<newTxs, conn, events, recent, toSend, missed>>
  PROVE  Inv'
<1>1. x.from \in Nodes /\ x.to \in Nodes /\ x.txs \subseteq Txs
  BY MessageFields DEF Inv, TypeOK
<1>2. net' = net \ {x} /\ Put(x.to, Unknown(x), "unprocessed")
  BY DEF TakeTransactions
<1>3. /\ state' \in [Nodes -> [Txs -> States]] /\ Remembers
      /\ \A a \in Nodes, t \in Txs :
            state'[a][t] = IF a = x.to /\ t \in Unknown(x) THEN "unprocessed" ELSE state[a][t]
  BY <1>1, <1>2, PutDone DEF Inv, States
<1>4. PacketsFit'
  BY <1>2, <1>3, PacketsFitNext DEF Inv
<1>5. ASSUME NEW a \in Nodes, NEW m \in Nodes, NEW t \in Txs, StandsFor(x, a, m, t)
      PROVE  Reached(a, m, t)'
  <2>1. t \in x.txs /\ x.to = m
    BY <1>5 DEF StandsFor
  <2>2. IdHashKnown(m, t)'
    BY <1>3, <2>1 DEF IdHashKnown, Unknown
  <2>. QED
    BY <2>2 DEF Reached
<1>6. net' \subseteq Message /\ net \ {x} \subseteq net' /\ missed \subseteq missed'
  BY <1>2 DEF Inv, TypeOK
<1>7. \A a \in Nodes, t \in Txs : state'[a][t] = "promoted" => state[a][t] = "promoted"
  BY <1>3
<1>. QED
  BY <1>3, <1>4, <1>5, <1>6, <1>7, MessageTaken

\* A message that is dropped is accounted for.
LEMMA DropStep ==
  ASSUME Inv, NEW x \in net, net' = net \ {x}, missed' = missed \union NotHandled(x),
         UNCHANGED state, UNCHANGED <<newTxs, conn, events, recent, toSend>>
  PROVE  Inv'
<1>1. Remembers /\ state' \in [Nodes -> [Txs -> States]]
  BY DEF Remembers, IdHashKnown, Inv, TypeOK
<1>2. PacketsFit'
  BY <1>1, PacketsFitNext DEF Inv
<1>3. ASSUME NEW a \in Nodes, NEW m \in Nodes, NEW t \in Txs, StandsFor(x, a, m, t)
      PROVE  Reached(a, m, t)'
  <2>1. <<a, m, t>> \in NotHandled(x)
    BY <1>3 DEF StandsFor, NotHandled, Lost
  <2>. QED
    BY <2>1 DEF Reached
<1>4. net' \subseteq Message /\ net \ {x} \subseteq net' /\ missed \subseteq missed'
  BY DEF Inv, TypeOK
<1>5. \A a \in Nodes, t \in Txs : state'[a][t] = "promoted" => state[a][t] = "promoted"
  OBVIOUS
<1>. QED
  BY <1>1, <1>2, <1>3, <1>4, <1>5, MessageTaken

LEMMA ReceiveMessageStep == ASSUME Inv, NEW x \in net, ReceiveMessage(x) PROVE Inv'
<1>1. UNCHANGED <<newTxs, conn, events, recent, toSend>>
  BY DEF ReceiveMessage, loop
<1>2. CASE Answer(x) /\ UNCHANGED <<missed, faults>>
  <2>1. UNCHANGED <<newTxs, conn, events, recent, toSend, missed>>
    BY <1>1, <1>2
  <2>2. CASE x.id \in {"NEW_POOLED_TRANSACTION_HASHES_66", "NEW_POOLED_TRANSACTION_HASHES_68"}
    <3>1. x.id # "GET_POOLED_TRANSACTIONS_66" /\ AskForUnknown(x)
      BY <1>2, <2>2 DEF Answer
    <3>. QED
      BY <2>1, <3>1, AskStep
  <2>3. CASE x.id = "GET_POOLED_TRANSACTIONS_66"
    <3>1. SendPooled(x)
      BY <1>2, <2>3 DEF Answer
    <3>. QED
      BY <2>1, <2>3, <3>1, SendPooledStep
  <2>4. CASE x.id \notin {"NEW_POOLED_TRANSACTION_HASHES_66", "NEW_POOLED_TRANSACTION_HASHES_68",
                         "GET_POOLED_TRANSACTIONS_66"}
    <3>1. TakeTransactions(x)
      BY <1>2, <2>4 DEF Answer
    <3>. QED
      BY <2>1, <2>4, <3>1, TakeStep
  <2>. QED
    BY <2>2, <2>3, <2>4
<1>3. CASE net' = net \ {x} /\ missed' = missed \union NotHandled(x) /\ UNCHANGED state
  BY <1>1, <1>3, DropStep
<1>. QED
  BY <1>2, <1>3 DEF ReceiveMessage
-----------------------------------------------------------------------------
(* The theorem.                                                            *)

LEMMA InvInit == Init => Inv
<1>. SUFFICES ASSUME Init PROVE Inv
  OBVIOUS
<1>1. TypeOK
  BY DEF Init, TypeOK, States
<1>2. SendsKnown /\ NothingKeptBack /\ PacketsFit
  BY DEF Init, SendsKnown, NothingKeptBack, PacketsFit, Peers
<1>. QED
  BY <1>1, <1>2 DEF Inv

\* Nothing that the invariant is about.
LEMMA IdleStep ==
  ASSUME Inv, UNCHANGED <<state, newTxs, conn, events, recent, toSend, net, missed>>
  PROVE  Inv'
<1>1. UNCHANGED <<state, newTxs, conn, events, recent, toSend>> /\ UNCHANGED net /\ UNCHANGED missed
  OBVIOUS
<1>2. TypeOK'
  BY <1>1 DEF Inv, TypeOK, ConstantsFit
<1>3. SendsKnown' /\ PacketsFit'
  BY <1>1 DEF Inv, SendsKnown, PacketsFit, IdHashKnown, HashesId
<1>4. NothingKeptBack'
  BY <1>1 DEF Inv, NothingKeptBack, OnItsWay, IdHashKnown, Peers, In
<1>. QED
  BY <1>2, <1>3, <1>4 DEF Inv

LEMMA InvStep == Inv /\ [Next]_vars => Inv'
<1>. SUFFICES ASSUME Inv, [Next]_vars PROVE Inv'
  OBVIOUS
<1>1. ASSUME NEW n \in Nodes, NEW t \in Txs, AddLocalTxs(n, t) \/ OnNewBlock(n, t) PROVE Inv'
  BY <1>1, AddLocalTxsStep, OnNewBlockStep
<1>2. ASSUME NEW n \in Nodes, ProcessRemoteTxs(n) \/ AnnounceNewTxs(n) \/ SyncToNewPeers(n) PROVE Inv'
  BY <1>2, ProcessRemoteTxsStep, AnnounceNewTxsStep, SyncToNewPeersStep
<1>3. ASSUME NEW n \in Nodes, SentryReady(n) PROVE Inv'
  BY <1>3, IdleStep DEF SentryReady
<1>4. ASSUME NEW n \in Nodes, NEW m \in Nodes, ReceivePeer(n, m) \/ Connect(n, m) \/ Disconnect(n, m)
      PROVE  Inv'
  BY <1>4, ReceivePeerStep, ConnectStep, DisconnectStep
<1>5. ASSUME NEW s \in toSend, PropagatePooledTxsToPeersList(s) PROVE Inv'
  BY <1>5, PropagateStep
<1>6. ASSUME NEW x \in net, ReceiveMessage(x) PROVE Inv'
  BY <1>6, ReceiveMessageStep
<1>7. CASE UNCHANGED vars
  BY <1>7, IdleStep DEF vars
<1>. QED
  BY <1>1, <1>2, <1>3, <1>4, <1>5, <1>6, <1>7 DEF Next

\* txpool/fetch.go, send.go and MainLoop: no transaction that a node has promoted is kept from
\* a connected peer except by a fault that the code does not repair, and a packet of
\* announcements is never empty and never over the limit.
THEOREM GossipReachesPeers == Spec => []GossipReaches
<1>1. Inv => GossipReaches
  BY DEF Inv, GossipReaches
<1>. QED
  BY <1>1, InvInit, InvStep, PTL DEF Spec
=============================================================================
