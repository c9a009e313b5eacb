------------------------------ MODULE SubPools ------------------------------
(* The three sub-pools of the transaction pool (txpool/pool.go): pending,   *)
(* baseFee and queued.  Each keeps its transactions twice, in a "best" and  *)
(* in a "worst" queue.  The queues are binary heaps, except pending.best,   *)
(* which is a slice that is sorted only by EnforceBestInvariants.  A heap   *)
(* is in order only if every change of an element is followed by Fix, so    *)
(* heaps are modelled element by element, as container/heap leaves them.    *)
(*                                                                          *)
(* The operators take and return the pool p, a record with (at least)       *)
(*   meta      metaTx objects: object -> metaTx                             *)
(*   sub       sub-pool -> [best, worst], sequences of objects              *)
(*   queueFee  pendingBaseFee as the six queues know it                     *)
(*   adding, added   whether Add records announcements, and the record      *)
EXTENDS Integers, Sequences, SequencesExt, FiniteSets

CONSTANTS
    Tx,       \* the transactions: hash -> [from, nonce, feeCap, tip, gas, value]
    SubLimit  \* PendingSubPoolLimit, BaseFeeSubPoolLimit, QueuedSubPoolLimit

Txs == DOMAIN Tx

EnoughFeeCapProtocol == 32
NoNonceGaps == 16
EnoughBalance == 8
NotTooMuchGas == 4
EnoughFeeCapBlock == 2
IsLocal == 1
BaseFeePoolBits == EnoughFeeCapProtocol + NoNonceGaps + EnoughBalance + NotTooMuchGas
QueuedPoolBits == EnoughFeeCapProtocol

NoSubPool == 0
PendingSubPool == 1
BaseFeeSubPool == 2
QueuedSubPool == 3
SubPoolTypes == {PendingSubPool, BaseFeeSubPool, QueuedSubPool}

\* F of the value of v, which is computed first; and a fold from the left in
\* which every step starts from a value.  (TLC would otherwise put off the
\* evaluation of one pool until the next one looks into it.)
Apply(F(_), v) == CHOOSE y \in {F(x) : x \in {v}} : TRUE

Fold(Op(_, _), base, seq) ==
    LET f[i \in 0..Len(seq)] ==
          IF i = 0 THEN base ELSE Apply(LAMBDA x : Op(x, seq[i]), f[i - 1])
    IN  f[Len(seq)]

Lower(a, b) == IF a < b THEN a ELSE b
Bit(set, bit) == IF set THEN bit ELSE 0
Has(marker, bit) == (marker \div bit) % 2 = 1
MaxUint64 == 1000000

NewMetaTx(t, isLocal, id, block) ==
    [ tx |-> t, senderID |-> id, rlp |-> TRUE, timestamp |-> block,
      subPool |-> Bit(isLocal, IsLocal), currentSubPool |-> NoSubPool,
      minFeeCap |-> 0, minTip |-> 0, nonceDistance |-> 0,
      cumulativeBalanceDistance |-> 0 ]
-----------------------------------------------------------------------------
(* Which of two transactions is better, and which is worse.                 *)

\* Is the key of a before that of b?
Precedes(key, a, b) ==
    \E i \in DOMAIN key[a] : /\ key[a][i] < key[b][i]
                             /\ \A j \in 1..i - 1 : key[a][j] = key[b][j]

\* The marker, with the bit that depends on the base fee of the next block.
Marker(m, fee) == m.subPool + Bit(m.minFeeCap >= fee, EnoughFeeCapBlock)

EffectiveTip(m, fee) ==
    IF m.minFeeCap >= fee THEN Lower(m.minFeeCap - fee, m.minTip) ELSE 0

\* Mutant: the distance from the state nonce does not count in pending.
BetterKeyNoNonce(type, m, fee) ==
    <<-Marker(m, fee)>>
      \o (CASE type = PendingSubPool -> <<-EffectiveTip(m, fee), m.cumulativeBalanceDistance>>
            [] type = BaseFeeSubPool -> <<-m.minFeeCap>>
            [] type = QueuedSubPool -> <<m.nonceDistance, m.cumulativeBalanceDistance>>)
      \o <<m.timestamp>>

BetterKey(type, m, fee) ==
    <<-Marker(m, fee)>>
      \o (CASE type = PendingSubPool ->
                 <<-EffectiveTip(m, fee), m.nonceDistance, m.cumulativeBalanceDistance>>
            [] type = BaseFeeSubPool -> <<-m.minFeeCap>>
            [] type = QueuedSubPool -> <<m.nonceDistance, m.cumulativeBalanceDistance>>)
      \o <<m.timestamp>>

WorseKey(type, m, fee) ==
    <<Marker(m, fee)>>
      \o (IF type = PendingSubPool THEN <<m.minFeeCap>> ELSE <<>>)
      \o <<-m.nonceDistance, -m.cumulativeBalanceDistance, -m.timestamp>>

Key(p, end, type, m) ==
    IF end = "best" THEN BetterKey(type, m, p.queueFee) ELSE WorseKey(type, m, p.queueFee)

Less(p, end, a, b) ==
    Precedes([o \in {a, b} |-> Key(p, end, p.meta[a].currentSubPool, p.meta[o])], a, b)
-----------------------------------------------------------------------------
(* container/heap.  h is the heap, end says which queue it is.              *)

Swap(h, i, j) == [h EXCEPT ![i] = h[j], ![j] = h[i]]

Position(h, o) == CHOOSE i \in DOMAIN h : h[i] = o

Up(p, end, heap, start) ==
    LET up[s \in Seq(Nat) \X Nat] ==
          LET h == s[1]
              j == s[2]
              i == j \div 2
          IN  IF j > 1 /\ Less(p, end, h[j], h[i])
                THEN up[<<Swap(h, i, j), i>>] ELSE h
    IN  up[<<heap, start>>]

\* The child of i that goes first.
Child(p, end, h, i) ==
    IF 2 * i < Len(h) /\ Less(p, end, h[2 * i + 1], h[2 * i]) THEN 2 * i + 1 ELSE 2 * i

Down(p, end, heap, start) ==
    LET down[s \in Seq(Nat) \X Nat] ==
          LET h == s[1]
              i == s[2]
          IN  IF 2 * i > Len(h) THEN h
              ELSE Apply(LAMBDA j : IF Less(p, end, h[j], h[i])
                                      THEN down[<<Swap(h, i, j), j>>] ELSE h,
                         Child(p, end, h, i))
    IN  down[<<heap, start>>]

HeapPush(p, end, h, o) == Up(p, end, Append(h, o), Len(h) + 1)

HeapFix(p, end, h, i) ==
    Apply(LAMBDA d : IF d # h THEN d ELSE Up(p, end, h, i), Down(p, end, h, i))

HeapRemove(p, end, h, i) ==
    IF i = Len(h) THEN Front(h)
    ELSE Apply(LAMBDA rest : HeapFix(p, end, rest, i), Front(Swap(h, i, Len(h))))

HeapInit(p, end, h) ==
    Fold(LAMBDA g, k : Down(p, end, g, k), h,
             [k \in 1..Len(h) \div 2 |-> (Len(h) \div 2) + 1 - k])
-----------------------------------------------------------------------------
(* PendingPool and SubPool.                                                 *)

Length(p, type) == Len(p.sub[type].best)
Members(p, type) == ToSet(p.sub[type].best)
Best(p, type) == p.sub[type].best[1]
Worst(p, type) == p.sub[type].worst[1]

\* queued never records: nothing calls its resetAdded.
Announce(p, type, o) ==
    IF p.adding /\ type \in {PendingSubPool, BaseFeeSubPool}
      THEN [p EXCEPT !.added = @ \cup {p.meta[o].tx}] ELSE p

\* The queues of type with Op done to those that are heaps, and Slice to the
\* slice.
Queues(p, type, Slice(_), Op(_, _)) ==
    [end \in {"best", "worst"} |->
        IF type = PendingSubPool /\ end = "best" THEN Slice(p.sub[type].best)
        ELSE Op(end, p.sub[type][end])]

Pushed(p, type, o) ==
    [p EXCEPT !.sub[type] = Queues(p, type, LAMBDA q : Append(q, o),
                                   LAMBDA end, h : HeapPush(p, end, h, o))]

AddTo(p, type, o) == Pushed([Announce(p, type, o) EXCEPT !.meta[o].currentSubPool = type], type, o)

\* UnsafeRemove: the last element moves into the gap, and the order is left to
\* EnforceBestInvariants.
UnsafeRemove(q, o) == Front(Swap(q, Position(q, o), Len(q)))

\* Remove, PopBest and PopWorst.
TakeFrom(p, type, o) ==
    [p EXCEPT !.meta[o].currentSubPool = NoSubPool,
              !.sub[type] = Queues(p, type, LAMBDA q : UnsafeRemove(q, o),
                                   LAMBDA end, h : HeapRemove(p, end, h, Position(h, o)))]

\* Mutant: the switch has no case for pending.
RemoveUnlessPending(p, o) ==
    LET type == p.meta[o].currentSubPool
    IN  IF type \in {NoSubPool, PendingSubPool} THEN p ELSE TakeFrom(p, type, o)

\* The switch on currentSubPool around Remove: nothing to do if the
\* transaction is in none.
RemoveFromSubPool(p, o) ==
    LET type == p.meta[o].currentSubPool
    IN  IF type = NoSubPool THEN p ELSE TakeFrom(p, type, o)

Updated(p, o) ==
    LET type == p.meta[o].currentSubPool
    IN  IF type = NoSubPool THEN p
        ELSE [p EXCEPT !.sub[type] =
                 Queues(p, type, LAMBDA q : q, LAMBDA end, h : HeapFix(p, end, h, Position(h, o)))]

EnforceInvariants(p) ==
    [p EXCEPT !.sub = [type \in SubPoolTypes |->
        Queues(p, type, LAMBDA q : q, LAMBDA end, h : HeapInit(p, end, h))]]

EnforceBestInvariants(p) ==
    [p EXCEPT !.sub[PendingSubPool].best =
        SortSeq(@, LAMBDA a, b : Less(p, "best", a, b))]

ResetAdded(p) == [p EXCEPT !.adding = TRUE, !.added = {}]
=============================================================================
