------------------------------- MODULE TxPool -------------------------------
(* The transaction pool (txpool/pool.go).  Everything TxPool keeps in       *)
(* memory is the record pool; the operators below are its methods, each     *)
(* from a pool to a pool, and an action of the specification is one         *)
(* critical section of TxPool.lock.                                         *)
(*                                                                          *)
(* Around the pool: the node, which commits versions of the state and sends *)
(* a StateChangeBatch for each, the database of the pool, and the callers.  *)
(* Callers take their view of the state before the lock, and the node       *)
(* commits before it notifies: a view may be older or newer than the last   *)
(* batch the pool has seen.                                                 *)
EXTENDS SubPools, FiniteSetsExt

CONSTANTS
    Senders,       \* a sequence: the addresses that send transactions
    TxOrder,       \* a sequence: the hashes, in the order of the database
    RemoteTxs,     \* the transactions that arrive from peers
    LocalBatches,  \* the arguments of AddLocalTxs: a set of sequences
    Genesis,       \* the accounts at the start
    Balances, Fees, GasLimits,  \* what a block may set them to
    MinFeeCap, AccountSlots, PriceBump,   \* Config
    Behind, Ahead, \* how far views may be from the last batch seen
    LateChecks,    \* whether a peer's transaction may be checked long before it is added
    MaxBlockTxs, MaxReorg, MaxUnprocessed,  \* bounds
    Budgets        \* bounds on how often each of Bounded happens: one is chosen at the start

VARIABLES
    pool,   \* the memory of TxPool
    disk,   \* PoolTransaction, RecentLocalTransaction and PoolInfo
    chain,  \* the versions of the state and the batches sent for them
    canon,  \* the blocks of the canonical chain
    seen,   \* how many batches the pool has been given
    out,    \* what the last call answered
    left    \* how often the bounded actions may still happen

vars == <<pool, disk, chain, canon, seen, out, left>>

Addresses == ToSet(Senders)
NotSet == "NotSet"
Success == "Success"

Cost(t) == Tx[t].gas * Tx[t].feeCap + Tx[t].value
Bounded == {"commit", "remote", "local", "flush", "fail", "restart", "yield", "lose", "cancel"}
InOrder(S) == SelectSeq(TxOrder, LAMBDA t : t \in S)
-----------------------------------------------------------------------------
(* sendersBatch.                                                            *)

GetOrCreateID(p, a) ==
    IF a \in DOMAIN p.senderIDs THEN p
    ELSE [p EXCEPT !.senderID = @ + 1,
                   !.senderIDs = [b \in DOMAIN @ \cup {a} |->
                                     IF b = a THEN p.senderID + 1 ELSE @[b]]]

RegisterSenders(p, A) ==
    Fold(GetOrCreateID, p, SelectSeq(Senders, LAMBDA a : a \in A))

IdOf(p, t) == p.senderIDs[Tx[t].from]
-----------------------------------------------------------------------------
(* BySenderAndNonce, byHash and the lists kept beside them.                 *)

Nonce(p, o) == Tx[p.meta[o].tx].nonce
OfSender(p, id) == {o \in p.all : p.meta[o].senderID = id}
Slot(p, id, n) == {o \in OfSender(p, id) : Nonce(p, o) = n}
Ascending(p, id) ==
    SetToSortSeq(OfSender(p, id), LAMBDA a, b : Nonce(p, a) < Nonce(p, b))

\* Mutant: byHash keeps the transaction.
DiscardKeepsHash(p, id, t) ==
    [p EXCEPT !.deletedTxs = Append(@, [senderID |-> id, tx |-> t]),
              !.all = @ \ Slot(p, id, Tx[t].nonce),
              !.discardReasons = @ \cup {t}]

\* all is keyed by sender and nonce, so the deletion takes whatever
\* transaction has them.
DiscardLocked(p, id, t) ==
    [p EXCEPT !.byHash = [h \in DOMAIN @ \ {t} |-> @[h]],
              !.deletedTxs = Append(@, [senderID |-> id, tx |-> t]),
              !.all = @ \ Slot(p, id, Tx[t].nonce),
              !.discardReasons = @ \cup {t}]

DiscardObject(p, o) == DiscardLocked(p, p.meta[o].senderID, p.meta[o].tx)
DiscardAll(p, objects) == Fold(DiscardObject, p, objects)

Bumped(price) == (price * (100 + PriceBump)) \div 100

\* Mutant: one of the two prices is enough.
ReplacesByEither(t, old) == Tx[t].tip >= Bumped(Tx[old].tip)
                         \/ Tx[t].feeCap >= Bumped(Tx[old].feeCap)

Replaces(t, old) == Tx[t].tip >= Bumped(Tx[old].tip)
                 /\ Tx[t].feeCap >= Bumped(Tx[old].feeCap)

NewObject(p) == CHOOSE o \in 1..Cardinality(DOMAIN p.meta) + 1 : o \notin DOMAIN p.meta

Insert(p, t, isLocal, block) ==
    LET o == NewObject(p)
        q == [p EXCEPT !.meta = [x \in DOMAIN @ \cup {o} |->
                                    IF x = o THEN NewMetaTx(t, isLocal, IdOf(p, t), block)
                                    ELSE @[x]],
                       !.byHash = [h \in DOMAIN @ \cup {t} |-> IF h = t THEN o ELSE @[h]],
                       !.all = @ \cup {o},
                       !.isLocal = IF isLocal THEN @ \cup {t} ELSE @]
    IN  AddTo(q, QueuedSubPool, o)

\* The answer is the pool and a DiscardReason.
AddLocked(p, t, isLocal, block) ==
    LET found == Slot(p, IdOf(p, t), Tx[t].nonce)
        o == CHOOSE x \in found : TRUE
        old == p.meta[o].tx
    IN  IF found = {} THEN [pool |-> Insert(p, t, isLocal, block), reason |-> NotSet]
        ELSE IF Replaces(t, old)
          THEN [pool |-> Insert(DiscardObject(RemoveFromSubPool(p, o), o), t, isLocal, block),
                reason |-> NotSet]
          ELSE [pool |-> IF isLocal THEN Announce(p, p.meta[o].currentSubPool, o) ELSE p,
                reason |-> IF old = t THEN NotSet ELSE "NotReplaced"]
-----------------------------------------------------------------------------
(* The recalculation of a sender's transactions.                            *)

\* One transaction in the loop of onSenderStateChange.  w carries the pool
\* and the running values of the loop.
Recalculate(w, o, acct, gasLimit) ==
    LET t == Tx[w.pool.meta[o].tx]
        fee == Lower(w.minFeeCap, t.feeCap)
        tip == Lower(w.minTip, t.tip)
        required == w.required + Cost(w.pool.meta[o].tx)
        noGap == w.noGapsNonce = t.nonce
        m == [w.pool.meta[o] EXCEPT !.minFeeCap = fee, !.minTip = tip,
                                    !.nonceDistance = t.nonce - acct.nonce]
        marker == EnoughFeeCapProtocol + Bit(noGap, NoNonceGaps)
                    + Bit(acct.balance >= required, EnoughBalance)
                    + Bit(t.gas < gasLimit, NotTooMuchGas) + (m.subPool % 2)
        distance == IF acct.balance >= required THEN MaxUint64 ELSE required - acct.balance
    IN  IF acct.nonce > t.nonce
          THEN [w EXCEPT !.pool = RemoveFromSubPool(w.pool, o),
                         !.toDel = Append(@, o)]
        ELSE IF fee < 7
          THEN \* no Updated: the queues keep the place of the old marker
               [w EXCEPT !.minFeeCap = fee, !.minTip = tip,
                         !.pool.meta[o] = [m EXCEPT !.subPool = 0]]
        ELSE [w EXCEPT !.minFeeCap = fee, !.minTip = tip, !.required = required,
                       !.noGapsNonce = IF noGap THEN @ + 1 ELSE @,
                       !.pool = Updated([w.pool EXCEPT !.meta[o] =
                                  [m EXCEPT !.subPool = marker,
                                            !.cumulativeBalanceDistance = distance]], o)]

\* Mutant: the first transaction of the pool is taken to have no gap before it.
OnSenderChangeNoGap(p, id, acct, gasLimit) ==
    LET first == IF OfSender(p, id) = {} THEN acct.nonce ELSE Nonce(p, Ascending(p, id)[1])
        w == Fold(LAMBDA x, o : Recalculate(x, o, acct, gasLimit),
                      [ pool |-> p, noGapsNonce |-> first, required |-> 0,
                        minFeeCap |-> MaxUint64, minTip |-> MaxUint64, toDel |-> <<>> ],
                      Ascending(p, id))
    IN  DiscardAll(w.pool, w.toDel)

OnSenderStateChange(p, id, acct, gasLimit) ==
    Apply(LAMBDA w : DiscardAll(w.pool, w.toDel),
          Fold(LAMBDA x, o : Recalculate(x, o, acct, gasLimit),
               [ pool |-> p, noGapsNonce |-> acct.nonce, required |-> 0,
                 minFeeCap |-> MaxUint64, minTip |-> MaxUint64, toDel |-> <<>> ],
               Ascending(p, id)))

\* order is the order in which Go ranges over sendersWithChangedState.
RecalculateSenders(p, A, order, view, gasLimit) ==
    Fold(LAMBDA q, a : OnSenderStateChange(q, q.senderIDs[a], view[a], gasLimit),
             p, SelectSeq(order, LAMBDA a : a \in A))
-----------------------------------------------------------------------------
(* promote.                                                                 *)

While(p, n, Holds(_), Do(_)) ==
    Fold(LAMBDA q, i : IF Holds(q) THEN Do(q) ELSE q, p, [i \in 1..n |-> i])

\* Every loop of promote takes one transaction out of its sub-pool and puts
\* none back, so it runs at most Length(p, type) times.
Drain(p, type, Holds(_), Do(_)) ==
    While(p, Length(p, type), LAMBDA q : Length(q, type) > 0 /\ Holds(q), Do)

Discard(p, type, o) == DiscardObject(TakeFrom(p, type, o), o)
Move(p, from, to, o) == AddTo(TakeFrom(p, from, o), to, o)

QualifiesPending(m, fee) == m.subPool >= BaseFeePoolBits /\ m.minFeeCap >= fee

\* Mutant: a base fee that rises demotes nothing.
DemoteByMarker(p, fee) ==
    Drain(p, PendingSubPool,
          LAMBDA q : q.meta[Worst(q, PendingSubPool)].subPool < BaseFeePoolBits,
          LAMBDA q : LET o == Worst(q, PendingSubPool)
                     IN  IF q.meta[o].subPool >= QueuedPoolBits
                           THEN Move(q, PendingSubPool, QueuedSubPool, o)
                           ELSE Discard(q, PendingSubPool, o))

DemotePending(p, fee) ==
    Drain(p, PendingSubPool,
          LAMBDA q : ~QualifiesPending(q.meta[Worst(q, PendingSubPool)], fee),
          LAMBDA q : LET o == Worst(q, PendingSubPool)
                         s == q.meta[o].subPool
                     IN  IF s >= BaseFeePoolBits THEN Move(q, PendingSubPool, BaseFeeSubPool, o)
                         ELSE IF s >= QueuedPoolBits THEN Move(q, PendingSubPool, QueuedSubPool, o)
                         ELSE Discard(q, PendingSubPool, o))

PromoteBaseFee(p, fee) ==
    Drain(p, BaseFeeSubPool,
          LAMBDA q : QualifiesPending(q.meta[Best(q, BaseFeeSubPool)], fee),
          LAMBDA q : Move(q, BaseFeeSubPool, PendingSubPool, Best(q, BaseFeeSubPool)))

DemoteBaseFee(p) ==
    Drain(p, BaseFeeSubPool,
          LAMBDA q : q.meta[Worst(q, BaseFeeSubPool)].subPool < BaseFeePoolBits,
          LAMBDA q : LET o == Worst(q, BaseFeeSubPool)
                     IN  IF q.meta[o].subPool >= QueuedPoolBits
                           THEN Move(q, BaseFeeSubPool, QueuedSubPool, o)
                           ELSE Discard(q, BaseFeeSubPool, o))

PromoteQueued(p, fee) ==
    Drain(p, QueuedSubPool,
          LAMBDA q : q.meta[Best(q, QueuedSubPool)].subPool >= BaseFeePoolBits,
          LAMBDA q : LET o == Best(q, QueuedSubPool)
                     IN  Move(q, QueuedSubPool,
                              IF q.meta[o].minFeeCap >= fee THEN PendingSubPool
                              ELSE BaseFeeSubPool, o))

DiscardQueued(p) ==
    Drain(p, QueuedSubPool,
          LAMBDA q : q.meta[Worst(q, QueuedSubPool)].subPool < QueuedPoolBits,
          LAMBDA q : Discard(q, QueuedSubPool, Worst(q, QueuedSubPool)))

\* Mutant: one too many.
DiscardOverflowLate(p, type) ==
    Drain(p, type, LAMBDA q : Length(q, type) > SubLimit[type] + 1,
          LAMBDA q : Discard(q, type, Worst(q, type)))

DiscardOverflow(p, type) ==
    Drain(p, type, LAMBDA q : Length(q, type) > SubLimit[type],
          LAMBDA q : Discard(q, type, Worst(q, type)))

PromoteLoop(p, fee, loop) ==
    CASE loop = "pending" -> DemotePending(p, fee)
      [] loop = "baseFee up" -> PromoteBaseFee(p, fee)
      [] loop = "baseFee down" -> DemoteBaseFee(p)
      [] loop = "queued up" -> PromoteQueued(p, fee)
      [] loop = "queued down" -> DiscardQueued(p)

Promote(p, fee) ==
    Fold(DiscardOverflow,
         Fold(LAMBDA q, loop : PromoteLoop(q, fee, loop), p,
              <<"pending", "baseFee up", "baseFee down", "queued up", "queued down">>),
         <<PendingSubPool, BaseFeeSubPool, QueuedSubPool>>)
-----------------------------------------------------------------------------
(* Validation.                                                              *)

ValidateTx(p, t, isLocal, view) ==
    LET acct == view[Tx[t].from]
    IN  CASE ~isLocal /\ MinFeeCap > Tx[t].feeCap -> "UnderPriced"
          [] ~isLocal /\ Cardinality(OfSender(p, IdOf(p, t))) > AccountSlots -> "Spammer"
          [] acct.nonce > Tx[t].nonce -> "NonceTooLow"
          [] acct.balance < Cost(t) -> "InsufficientFunds"
          [] OTHER -> Success

\* The half of the sender's transactions with the highest nonces leave all
\* and byHash, and stay in their sub-pools.
PunishSpammer(p, id) ==
    LET txs == Reverse(Ascending(p, id))
    IN  DiscardAll(p, SubSeq(txs, 1, Len(txs) \div 2))

\* w.reasons[i] is NotSet if the i-th transaction is good.
ValidateTxs(p, txs, locals, view) ==
    Fold(LAMBDA w, t :
           Apply(LAMBDA r :
                   [ pool |-> IF r = "Spammer" THEN PunishSpammer(w.pool, IdOf(p, t)) ELSE w.pool,
                     reasons |-> Append(w.reasons, IF r = Success THEN NotSet ELSE r),
                     good |-> IF r = Success THEN Append(w.good, t) ELSE w.good ],
                 ValidateTx(w.pool, t, t \in locals, view)),
             [pool |-> p, reasons |-> <<>>, good |-> <<>>], txs)
-----------------------------------------------------------------------------
(* addTxs and addTxsOnNewBlock.                                             *)

AddOne(w, t, isLocal, block) ==
    IF t \in DOMAIN w.pool.byHash
      THEN LET o == w.pool.byHash[t]
           IN  [w EXCEPT !.pool = IF isLocal THEN Announce(@, @.meta[o].currentSubPool, o) ELSE @,
                         !.reasons = Append(@, "DuplicateHash")]
      ELSE Apply(LAMBDA r : [w EXCEPT !.pool = r.pool, !.reasons = Append(@, r.reason),
                               !.changed = IF r.reason = NotSet THEN @ \cup {Tx[t].from} ELSE @],
                 AddLocked(w.pool, t, isLocal, block))

AddTxs(p, txs, locals, fee, gasLimit, order, view) ==
    Apply(LAMBDA w : [ pool |-> EnforceBestInvariants(Promote(
                           RecalculateSenders(w.pool, w.changed, order, view, gasLimit), fee)),
                       reasons |-> w.reasons ],
          Fold(LAMBDA x, t : AddOne(x, t, t \in locals, p.lastSeenBlock),
               [pool |-> p, reasons |-> <<>>, changed |-> {}], txs))

\* A transaction that addLocked refuses is discarded, although it was never
\* in the pool: all loses the one that kept its place.
Reinjected(w, t, r) ==
    IF r.reason # NotSet
      THEN [w EXCEPT !.pool = DiscardLocked(r.pool, IdOf(r.pool, t), t)]
      ELSE [w EXCEPT !.pool = r.pool, !.changed = @ \cup {Tx[t].from}]

\* Mutant: what was discarded, because it was mined, stays out.
ReinjectUnknown(w, t, isLocal, block) ==
    IF t \in DOMAIN w.pool.byHash \cup w.pool.discardReasons THEN w
    ELSE Reinjected(w, t, AddLocked(w.pool, t, isLocal, block))

ReinjectOne(w, t, isLocal, block) ==
    IF t \in DOMAIN w.pool.byHash THEN w
    ELSE Reinjected(w, t, AddLocked(w.pool, t, isLocal, block))

AddTxsOnNewBlock(p, txs, locals, changed, gasLimit, order, view) ==
    Apply(LAMBDA w : RecalculateSenders(w.pool, w.changed, order, view, gasLimit),
          Fold(LAMBDA x, t : ReinjectOne(x, t, t \in locals, p.lastSeenBlock),
               [pool |-> p, changed |-> changed], txs))

RemoveMined(p, mined, order) ==
    LET From(a) == {t \in mined : Tx[t].from = a}
        Upto(q, a) == {o \in OfSender(q, q.senderIDs[a]) :
                          \E t \in From(a) : Nonce(q, o) <= Tx[t].nonce}
        RemoveFor(q, a) ==
            LET gone == SelectSeq(Ascending(q, q.senderIDs[a]), LAMBDA o : o \in Upto(q, a))
            IN  DiscardAll(Fold(RemoveFromSubPool, q, gone), gone)
    IN  Fold(RemoveFor, p, SelectSeq(order, LAMBDA a : From(a) # {}))
-----------------------------------------------------------------------------
(* The methods of TxPool.                                                   *)

EmptyPool ==
    [ meta |-> <<>>, all |-> {}, byHash |-> <<>>,
      sub |-> [type \in SubPoolTypes |-> [best |-> <<>>, worst |-> <<>>]],
      queueFee |-> 0, pendingBaseFee |-> 0, blockGasLimit |-> 0, lastSeenBlock |-> 0,
      adding |-> FALSE, added |-> {}, started |-> FALSE,
      senderIDs |-> <<>>, senderID |-> 0, unprocessed |-> <<>>,
      deletedTxs |-> <<>>, discardReasons |-> {}, isLocal |-> {} ]

\* Objects nothing refers to any more are collected; what the call
\* announced is in out.
Settle(p) ==
    LET live == p.all \cup UNION {Members(p, type) : type \in SubPoolTypes}
                  \cup {p.byHash[t] : t \in DOMAIN p.byHash}
    IN  [p EXCEPT !.meta = [o \in live |-> @[o]], !.adding = FALSE, !.added = {}]

\* The first persisted transaction that is not valid any more ends the
\* loading: the senders read so far are registered, no transaction is added
\* and pendingBaseFee is not set.
FromDB(p, view, order) ==
    LET txs == InOrder(disk.txs)
        locals == p.isLocal \cup disk.locals
        Valid(t) == ValidateTx(RegisterSenders(p, {Tx[t].from}), t, t \in locals, view) = Success
        invalid == SelectInSeq(txs, LAMBDA t : ~Valid(t))
        read == IF invalid = 0 THEN txs ELSE SubSeq(txs, 1, invalid)
        q == [RegisterSenders(p, {Tx[t].from : t \in ToSet(read)}) EXCEPT
                 !.isLocal = @ \cup disk.locals,
                 !.lastSeenBlock = IF @ = 0 THEN disk.lastSeenBlock ELSE @]
    IN  IF invalid # 0 THEN q
        ELSE [AddTxs(q, txs, locals, disk.pendingBaseFee, MaxUint64, order, view).pool EXCEPT
                 !.pendingBaseFee = disk.pendingBaseFee,
                 !.meta = [o \in DOMAIN @ |-> [@[o] EXCEPT !.rlp = FALSE]]]

\* Only a base fee that differs from pendingBaseFee reaches the queues.
SetBaseFee(p, fee) ==
    IF fee > 0 /\ fee # p.pendingBaseFee
      THEN [p EXCEPT !.pendingBaseFee = fee, !.queueFee = fee] ELSE p

\* handleStateChanges resizes minedTxs and unwindTxs for every change of the
\* batch and fills them from the start: the last change of each direction
\* is what remains.
Parsed(batch, dir) ==
    LET changes == SelectSeq(batch.blocks, LAMBDA b : b.dir = dir)
    IN  IF changes = <<>> THEN {} ELSE Last(changes).txs

\* OnNewBlock up to removeMined.
Notified(p, batch) ==
    LET q == SetBaseFee(p, batch.baseFee)
        txs == Parsed(batch, "unwind") \cup Parsed(batch, "forward")
    IN  RegisterSenders([q EXCEPT !.blockGasLimit = batch.gasLimit],
                        batch.changed \cup {Tx[t].from : t \in txs})

\* The rest of it.  Unwound transactions come back as remote ones.
Reorganised(p, batch, view, order) ==
    Apply(LAMBDA v : EnforceInvariants(AddTxsOnNewBlock(
                         ResetAdded(RemoveMined(v.pool, Parsed(batch, "forward"), order)),
                         v.good, {}, batch.changed, batch.gasLimit, order, view)),
          ValidateTxs(p, InOrder(Parsed(batch, "unwind")), {}, view))

Promoted(p) == [EnforceBestInvariants(Promote(p, p.pendingBaseFee)) EXCEPT !.started = TRUE]

IdHashKnown(t) ==
    t \in pool.discardReasons \cup ToSet(pool.unprocessed)
           \cup DOMAIN pool.byHash \cup disk.txs

AddReceived(p, txs, locals, view, order) ==
    Apply(LAMBDA v :
            Apply(LAMBDA a : [ pool |-> a.pool, reasons |-> v.reasons,
                               good |-> v.good, addReasons |-> a.reasons ],
                  AddTxs(ResetAdded(v.pool), v.good, locals, p.pendingBaseFee,
                         p.blockGasLimit, order, view)),
          ValidateTxs(RegisterSenders(p, {Tx[t].from : t \in ToSet(txs)}), txs, locals, view))

\* The answer of AddLocalTxs: addReasons and the good transactions are
\* indexed as if none had been filtered out.
Overlaid(r) ==
    [i \in DOMAIN r.reasons |->
        IF i \in DOMAIN r.addReasons /\ r.addReasons[i] # NotSet
          THEN r.addReasons[i] ELSE r.reasons[i]]

IndexOutOfRange(r) ==
    \E i \in DOMAIN r.reasons : Overlaid(r)[i] = NotSet /\ i > Len(r.good)

\* Mutant: what addTxs discarded is not looked up.
FillNoDiscards(r) ==
    [i \in DOMAIN r.reasons |-> IF Overlaid(r)[i] # NotSet THEN Overlaid(r)[i] ELSE Success]

FillDiscardReasons(r) ==
    [i \in DOMAIN r.reasons |->
        IF Overlaid(r)[i] # NotSet THEN Overlaid(r)[i]
        ELSE IF r.good[i] \in r.pool.discardReasons THEN "Discarded" ELSE Success]

\* getRlpLocked: from memory, or from the database.
HasRlp(p, t) == (t \in DOMAIN p.byHash /\ p.meta[p.byHash[t]].rlp) \/ t \in disk.txs
-----------------------------------------------------------------------------
(* The node.  A version unwinds up to MaxReorg blocks and adds at most one; *)
(* canon[1] is the genesis.                                                 *)

\* Sets of transactions the next block can hold.
Minable(parent) ==
    {T \in SUBSET Txs :
        /\ Cardinality(T) <= MaxBlockTxs
        /\ \A t \in T : Tx[t].feeCap >= parent.baseFee
        /\ \A t, u \in T : Tx[t].from = Tx[u].from /\ Tx[t].nonce = Tx[u].nonce => t = u
        /\ \A t \in T : LET a == parent.accounts[Tx[t].from].nonce
                        IN  /\ a <= Tx[t].nonce
                            /\ \A n \in a..Tx[t].nonce - 1 :
                                  \E u \in T : Tx[u].from = Tx[t].from /\ Tx[u].nonce = n}

After(accounts, T, bal) ==
    [a \in Addresses |->
        [ nonce |-> accounts[a].nonce + Cardinality({t \in T : Tx[t].from = a}),
          balance |-> bal[a] ]]

\* The version that follows when the blocks unwound give way to those added.
Version(blocks, unwound, added, gas) ==
    [ height |-> Len(blocks), accounts |-> Last(blocks).accounts,
      baseFee |-> Last(blocks).baseFee, gasLimit |-> gas,
      blocks |-> [i \in DOMAIN unwound |-> [dir |-> "unwind", txs |-> unwound[i]]]
                   \o [i \in DOMAIN added |-> [dir |-> "forward", txs |-> added[i]]],
      changed |-> {Tx[t].from : t \in UNION ToSet(unwound \o added)}
                    \cup {a \in Addresses : Last(blocks).accounts[a] # Last(chain).accounts[a]} ]

\* Not of the program: the bounds of the instance.
Use(what) == left[what] > 0 /\ left' = [left EXCEPT ![what] = @ - 1]

Commit ==
    /\ Use("commit")
    /\ \E n \in 0..Lower(MaxReorg, Len(canon) - 1), gas \in GasLimits :
         LET kept == SubSeq(canon, 1, Len(canon) - n)
             unwound == [i \in 1..n |-> canon[Len(canon) + 1 - i].txs]
         IN  \/ /\ n > 0
                /\ canon' = kept
                /\ chain' = Append(chain, Version(kept, unwound, <<>>, gas))
             \/ \E T \in Minable(Last(kept)), bal \in [Addresses -> Balances], fee \in Fees :
                  /\ canon' = Append(kept, [ txs |-> T, baseFee |-> fee,
                                             accounts |-> After(Last(kept).accounts, T, bal) ])
                  /\ chain' = Append(chain, Version(canon', unwound, <<T>>, gas))
    /\ UNCHANGED <<pool, disk, seen, out>>
-----------------------------------------------------------------------------
(* The calls.                                                               *)

Silent == [op |-> "none", txs |-> <<>>, reasons |-> <<>>, promoted |-> {}]
Answer(op, txs, reasons, promoted) ==
    [op |-> op, txs |-> txs, reasons |-> reasons, promoted |-> promoted]

Orders == SetToSeqs(Addresses)

\* The version of the last batch, and those a caller's view may be of.
LastSeen == chain[IF seen = 0 THEN 1 ELSE seen]
Views == {v \in DOMAIN chain : v + Behind >= seen /\ v <= (IF seen = 0 THEN 1 ELSE seen) + Ahead}

OnNewBlock ==
    /\ seen < Len(chain)
    /\ seen' = seen + 1
    /\ LET batch == chain[seen + 1]
           p0 == [pool EXCEPT !.lastSeenBlock = batch.height]
       IN  \E v \in seen + 1..Lower(Len(chain), seen + 1 + Ahead), order \in Orders :
           \E p1 \in {IF pool.started THEN p0 ELSE FromDB(p0, chain[v].accounts, order)} :
           \E p2 \in {Reorganised(Notified(p1, batch), batch, chain[v].accounts, order)} :
           \E p3 \in {Promoted(p2)} :
              /\ pool' = Settle(p3)
              /\ out' = Answer("block", <<>>, <<>>, p3.added)
    /\ UNCHANGED <<disk, chain, canon, left>>

\* OnNewBlock returns an error before it changes anything (BeginRo), or when
\* it has loaded the pool (View), or the stream breaks.
LoseBatch ==
    /\ seen < Len(chain)
    /\ Use("lose")
    /\ seen' = seen + 1
    /\ \/ UNCHANGED pool
       \/ /\ ~pool.started
          /\ \E order \in Orders :
                pool' = Settle(FromDB([pool EXCEPT !.lastSeenBlock = chain[seen'].height],
                                      chain[seen'].accounts, order))
    /\ out' = Silent
    /\ UNCHANGED <<disk, chain, canon>>

AddRemoteTxs ==
    /\ pool.started
    /\ Len(pool.unprocessed) < MaxUnprocessed
    /\ Use("remote")
    /\ \E t \in RemoteTxs :
         /\ t \notin ToSet(pool.unprocessed)
         /\ LateChecks \/ ~IdHashKnown(t)
         /\ pool' = [pool EXCEPT !.unprocessed = Append(@, t)]
    /\ out' = Silent
    /\ UNCHANGED <<disk, chain, canon, seen>>

ProcessRemoteTxs ==
    /\ pool.started
    /\ pool.unprocessed # <<>>
    /\ \E v \in Views, order \in Orders :
         \E r \in {AddReceived(pool, pool.unprocessed, {}, chain[v].accounts, order)} :
             \/ /\ pool' = [Settle(r.pool) EXCEPT !.unprocessed = <<>>]
                /\ out' = Answer("remote", <<>>, <<>>, r.pool.added)
                /\ UNCHANGED left
             \/ \* ctx, the one of MainLoop, is done and there is something to announce
                /\ r.pool.added # {}
                /\ Use("cancel")
                /\ pool' = Settle(r.pool)
                /\ out' = Silent
    /\ UNCHANGED <<disk, chain, canon, seen>>

\* A reason beyond the end of the good transactions is an index out of
\* range: the call panics before it notifies anyone.
AddLocalTxs ==
    /\ Use("local")
    /\ \E txs \in LocalBatches, v \in Views, order \in Orders :
         LET view == chain[v].accounts
         IN  \E p \in {IF pool.started THEN pool
                       ELSE [FromDB(pool, view, order) EXCEPT !.started = TRUE]} :
             \E r \in {AddReceived(p, txs, ToSet(txs), view, order)} :
             LET reasons == FillDiscardReasons(r)
                 answered == {r.good[i] : i \in {j \in DOMAIN r.good : reasons[j] = Success}}
             IN  /\ pool' = Settle(r.pool)
                 /\ out' = IF IndexOutOfRange(r) THEN Answer("panic", txs, <<>>, {})
                           ELSE Answer("local", txs, reasons, r.pool.added \cup answered)
    /\ UNCHANGED <<disk, chain, canon, seen>>

\* One iteration of the loop of best.  Gas is counted in units of TxGas, and
\* the gas limit of a transaction is its intrinsic gas.
YieldOne(w, o, skip) ==
    LET t == pool.meta[o].tx
    IN  IF \/ w.left = 0 \/ w.available < 1
           \/ t \in skip \/ Tx[t].gas >= pool.blockGasLimit THEN w
        ELSE IF ~HasRlp(pool, t) THEN [w EXCEPT !.toRemove = Append(@, o)]
        ELSE IF Tx[t].gas > w.available THEN w
        ELSE [w EXCEPT !.txs = Append(@, t), !.left = @ - 1, !.available = @ - Tx[t].gas]

\* A caller that goes on passes what it has got so far as toSkip.
YieldBest ==
    /\ Use("yield")
    /\ \E n \in 1..Length(pool, PendingSubPool), gas \in GasLimits,
          got \in {<<>>} \cup (IF out.op = "yield" THEN {out.txs} ELSE {}) :
         \E w \in {Fold(LAMBDA x, o : YieldOne(x, o, ToSet(got)),
                        [left |-> n, available |-> gas, txs |-> <<>>, toRemove |-> <<>>],
                        pool.sub[PendingSubPool].best)} :
            /\ pool' = Settle(Fold(RemoveFromSubPool, pool, w.toRemove))
            /\ out' = Answer("yield", got \o w.txs, <<>>, {})
    /\ UNCHANGED <<disk, chain, canon, seen>>
-----------------------------------------------------------------------------
(* Persistence.                                                             *)

Nil == [senderID |-> 0, tx |-> "nil"]
Written == {t \in DOMAIN pool.byHash : pool.meta[pool.byHash[t]].rlp}

\* The memory side of flushLocked once it has gone through the first n
\* entries of deletedTxs and has written the transactions W.
Flushed(n, W) ==
    LET idle == {pool.deletedTxs[i].senderID : i \in 1..n}
        objects == {pool.byHash[t] : t \in W}
    IN  [pool EXCEPT
           !.senderIDs = [a \in {b \in DOMAIN @ : @[b] \notin idle \/ OfSender(pool, @[b]) # {}}
                            |-> @[a]],
           !.deletedTxs = [i \in DOMAIN @ |-> IF i <= n THEN Nil ELSE @[i]],
           !.meta = [o \in DOMAIN @ |->
                        IF o \in objects THEN [@[o] EXCEPT !.rlp = FALSE] ELSE @[o]]]

\* A flush after one that failed finds nil in deletedTxs and panics.
CanFlush == pool.started /\ Nil \notin ToSet(pool.deletedTxs)

\* Mutant: the deletions come last.
RewrittenDeleteLast == (disk.txs \cup Written) \ {d.tx : d \in ToSet(pool.deletedTxs)}

\* PoolTransaction after the flush.
Rewritten == (disk.txs \ {d.tx : d \in ToSet(pool.deletedTxs)}) \cup Written

Flush ==
    /\ CanFlush
    /\ Use("flush")
    /\ pool' = [Flushed(Len(pool.deletedTxs), Written) EXCEPT !.deletedTxs = <<>>]
    /\ disk' = [ txs |-> Rewritten,
                 locals |-> pool.isLocal, pendingBaseFee |-> pool.pendingBaseFee,
                 lastSeenBlock |-> pool.lastSeenBlock ]
    /\ out' = Silent
    /\ UNCHANGED <<chain, canon, seen>>

\* The database transaction fails half-way through flushLocked, or on commit.
FlushFails ==
    /\ CanFlush
    /\ Use("fail")
    /\ LET n == Len(pool.deletedTxs)
       IN  \/ \E k \in 0..n - 1 : pool' = Flushed(k, {})
           \/ \E W \in SUBSET Written : pool' = Flushed(n, W)
           \/ pool' = [Flushed(n, Written) EXCEPT !.deletedTxs = <<>>]
    /\ out' = Silent
    /\ UNCHANGED <<disk, chain, canon, seen>>

\* The process ends: the memory is gone, and so are the batches it missed.
Restart ==
    /\ Use("restart")
    /\ pool' = EmptyPool
    /\ seen' = Len(chain)
    /\ out' = Silent
    /\ UNCHANGED <<disk, chain, canon>>

Init ==
    /\ pool = EmptyPool
    /\ disk = [txs |-> {}, locals |-> {}, pendingBaseFee |-> 0, lastSeenBlock |-> 0]
    /\ \E fee \in Fees, gas \in GasLimits :
         /\ canon = <<[txs |-> {}, accounts |-> Genesis, baseFee |-> fee]>>
         /\ chain = <<[ height |-> 1, accounts |-> Genesis, baseFee |-> fee, gasLimit |-> gas,
                        blocks |-> <<[dir |-> "forward", txs |-> {}]>>, changed |-> {} ]>>
    /\ seen = 0
    /\ out = Silent
    /\ left \in Budgets

Next == \/ Commit
        \/ OnNewBlock
        \/ LoseBatch
        \/ AddRemoteTxs
        \/ ProcessRemoteTxs
        \/ AddLocalTxs
        \/ YieldBest
        \/ Flush
        \/ FlushFails
        \/ Restart

Spec == Init /\ [][Next]_vars
-----------------------------------------------------------------------------
(* Properties.                                                              *)

\* byHash, all and the sub-pools hold the same transactions, no two of them
\* have the same sender and nonce, the two queues of a sub-pool agree, and
\* flushLocked finds the address of every sender.
IndexesAgree ==
    LET pooled == UNION {Members(pool, type) : type \in SubPoolTypes}
    IN  /\ pool.all = pooled
        /\ \A t \in DOMAIN pool.byHash : pool.meta[pool.byHash[t]].tx = t
        /\ {pool.byHash[t] : t \in DOMAIN pool.byHash} = pooled
        /\ \A o, x \in pooled :
             (pool.meta[o].senderID = pool.meta[x].senderID /\ Nonce(pool, o) = Nonce(pool, x))
               => o = x
        /\ \A type \in SubPoolTypes : ToSet(pool.sub[type].best) = ToSet(pool.sub[type].worst)
        /\ \A t \in DOMAIN pool.byHash :
             Tx[t].from \in DOMAIN pool.senderIDs
               /\ pool.senderIDs[Tx[t].from] = pool.meta[pool.byHash[t]].senderID

\* promote leaves in pending only transactions that can be in the next block
\* and pay its base fee.
PendingQualifies ==
    \A o \in Members(pool, PendingSubPool) :
        QualifiesPending(pool.meta[o], pool.pendingBaseFee)

\* No call leaves a sub-pool above its limit.
WithinLimits == \A type \in SubPoolTypes : Length(pool, type) <= SubLimit[type]

\* The indexes of the pool agree and its sub-pools keep to their limits, after
\* every call, also one that failed or was cancelled in the middle.
SubPoolsSound == IndexesAgree /\ WithinLimits

\* SubPoolMarker: NoNonceGaps says that the pool has every transaction
\* between the state nonce of the sender and this one, EnoughBalance that the
\* sender can pay for all of them, as of the last block.
MarkersTruthful ==
    \A o \in pool.all :
        LET m == pool.meta[o]
            acct == LastSeen.accounts[Tx[m.tx].from]
            before == {x \in OfSender(pool, m.senderID) : Nonce(pool, x) <= Nonce(pool, o)}
        IN  m.subPool >= QueuedPoolBits =>
              /\ Has(m.subPool, NoNonceGaps)
                   <=> acct.nonce..Nonce(pool, o) = {Nonce(pool, x) : x \in before}
              /\ Has(m.subPool, EnoughBalance)
                   <=> acct.balance >= MapThenSumSet(LAMBDA x : Cost(pool.meta[x].tx), before)

\* GetRlp finds every transaction of the pool, in memory or in the database.
RlpServed == \A t \in DOMAIN pool.byHash : HasRlp(pool, t)

\* What the pool says of its transactions is so: pending is what can be mined,
\* the markers are true as of the last block, and the rlp is there.
PoolTruthful == PendingQualifies /\ MarkersTruthful /\ RlpServed

\* YieldBest hands out a remote transaction only after all of its sender's
\* from the nonce of the state on, so that a block can execute them in the
\* order they come.  (A local transaction overtakes remote ones.)
YieldsExecutable ==
    out.op = "yield" =>
        \A i \in DOMAIN out.txs :
            LET t == Tx[out.txs[i]]
            IN  ~Has(pool.meta[pool.byHash[out.txs[i]]].subPool, IsLocal) =>
                  \A n \in LastSeen.accounts[t.from].nonce..t.nonce - 1 :
                    \E j \in 1..i - 1 : /\ Tx[out.txs[j]].from = t.from
                                        /\ Tx[out.txs[j]].nonce = n

\* AddLocalTxs answers Success only for transactions that are in the pool
\* when it returns, whatever its own additions pushed out.
SuccessMeansPooled ==
    out.op = "local" =>
        \A i \in DOMAIN out.txs : out.reasons[i] = Success => out.txs[i] \in DOMAIN pool.byHash

\* OnNewBlock removes the transactions of the block from the pool.
MinedLeave ==
    [][out'.op = "block" /\ seen' = seen + 1 =>
         UNION {b.txs : b \in {c \in ToSet(chain[seen'].blocks) : c.dir = "forward"}}
           \cap DOMAIN pool'.byHash = {}]_vars

\* OnNewBlock puts the transactions of unwound blocks back, if they are still
\* valid and their place is not taken.
UnwoundReturn ==
    [][out'.op = "block" /\ seen' = seen + 1 =>
         \A t \in UNION {b.txs : b \in {c \in ToSet(chain[seen'].blocks) : c.dir = "unwind"}} :
            LET acct == chain[seen'].accounts[Tx[t].from]
            IN  acct.nonce <= Tx[t].nonce /\ acct.balance >= Cost(t) =>
                  \E u \in DOMAIN pool'.byHash :
                     Tx[u].from = Tx[t].from /\ Tx[u].nonce = Tx[t].nonce]_vars

\* addLocked: a transaction takes the place of another only if both its tip
\* and its feeCap are PriceBump percent higher, rounded down.
ReplacedOnlyByBump ==
    [][LET Bump(new, old) == 100 * new > (100 + PriceBump) * old - 100
       IN  \A t \in DOMAIN pool.byHash, u \in DOMAIN pool'.byHash \ DOMAIN pool.byHash :
             (Tx[t].from = Tx[u].from /\ Tx[t].nonce = Tx[u].nonce)
               => Bump(Tx[u].tip, Tx[t].tip) /\ Bump(Tx[u].feeCap, Tx[t].feeCap)]_vars

=============================================================================
