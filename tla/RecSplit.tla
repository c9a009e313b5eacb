------------------------------ MODULE RecSplit ------------------------------
(***************************************************************************)
(* recsplit: a minimal perfect hash table from keys to offsets.  Keys are  *)
(* collected with a bucket and a fingerprint, every bucket is split        *)
(* recursively with the first salt that splits it evenly, the salts are    *)
(* Golomb-Rice coded, and Index.Lookup walks down the coded tree.  The     *)
(* caller (state/domain.go buildIndex and its like) starts again with the  *)
(* next salt when two fingerprints of a bucket collide.                    *)
(*                                                                         *)
(* Murmur3 and the mixing of 64 bits are Sum128 and Remix, tables of the   *)
(* instance.  The float formula of computeGolombRice is GolombLength.      *)
(* Get3 of the bucket table is modelled in DoubleEliasFano, the order of   *)
(* the etl collector in Etl.                                               *)
(***************************************************************************)
EXTENDS Integers, FiniteSets, SequencesExt

CONSTANTS
    KeySets,         \* what is indexed: sequences of <<key, offset>>
    Sum128(_, _),    \* <<bucketHash, fingerprint>> of a key under a salt
    HashRange,       \* 2^64: bucket hashes are below it
    Remix(_),        \* 0..MixRange - 1
    MixRange,        \* 2^48
    StartSeed,       \* the seed of every level
    LeafSize, BucketSize,
    GolombLength(_), \* computeGolombRice: the length for more than LeafSize
    NewOffset(_),    \* where the merged file has what was at an offset
    MaxSalt          \* bound on the search for a salt

VARIABLES
    keys, enums,     \* what is indexed, and RecSplitArgs.Enums
    salt,            \* the salt of the hasher
    collected,       \* bucketCollector: [bucket, fp, val]
    offsetsIn,       \* offsetCollector
    gr,              \* GolombRice: the bits so far
    tableLen,        \* len(golombRice)
    records,         \* the offsets written to the index
    sizeAcc, posAcc, \* bucketSizeAcc, bucketPosAcc
    maxOffset,
    phase            \* "adding", "building", "collision", "open", "rewritten"

vars == <<keys, enums, salt, collected, offsetsIn, gr, tableLen, records, sizeAcc,
          posAcc, maxOffset, phase>>

bijMemo == <<0, 0, 0, 1, 3, 4, 5, 7, 8, 10, 11, 12, 14, 15, 16>>   \* from 0

bucketCount == (Len(keys) + BucketSize - 1) \div BucketSize
remap(x, n) == (x * n) \div HashRange
remap16(x, n) == (x * n) \div MixRange
Mixed(fp, level, s, m) == remap16(Remix(fp + StartSeed[level + 1] + s), m)

CeilDiv(a, b) == (a + b - 1) \div b
primaryAggrBound ==
    LeafSize * (IF CeilDiv(35 * LeafSize + 50, 100) > 2
                THEN CeilDiv(35 * LeafSize + 50, 100) ELSE 2)
secondaryAggrBound ==
    primaryAggrBound * (IF LeafSize < 7 THEN 2 ELSE CeilDiv(21 * LeafSize + 90, 100))

(* How many keys a part of a split has.                                    *)
splitUnit(m) ==
    IF m > secondaryAggrBound
    THEN secondaryAggrBound * CeilDiv((m + 1) \div 2, secondaryAggrBound)
    ELSE IF m > primaryAggrBound THEN primaryAggrBound ELSE LeafSize
splitFanout(m) == IF m > secondaryAggrBound THEN 2 ELSE CeilDiv(m, splitUnit(m))
PartSize(m, i) ==
    IF i = splitFanout(m) THEN m - (i - 1) * splitUnit(m) ELSE splitUnit(m)

-----------------------------------------------------------------------------
(* The Golomb-Rice parameters of m keys: the length of the fixed part, the *)
(* sum of the lengths in the subtree, and its number of nodes.             *)
RECURSIVE SkipBits(_)
SkipBits(m) ==
    IF m <= LeafSize THEN bijMemo[m + 1]
    ELSE FoldLeft(LAMBDA x, i : x + SkipBits(PartSize(m, i)), GolombLength(m),
                  [i \in 1..splitFanout(m) |-> i])

RECURSIVE SkipNodes(_)
SkipNodes(m) ==
    IF m = 0 THEN 0 ELSE IF m <= LeafSize THEN 1
    ELSE FoldLeft(LAMBDA x, i : x + SkipNodes(PartSize(m, i)), 1,
                  [i \in 1..splitFanout(m) |-> i])

golombParam(m) == IF m <= LeafSize THEN bijMemo[m + 1] ELSE GolombLength(m)

(* appendFixed and appendUnaryAll.                                         *)
Fixed(v, log2golomb) == [i \in 1..log2golomb |-> (v \div 2^(i - 1)) % 2]
Unary(us) == FlattenSeq([i \in 1..Len(us) |-> Append([j \in 1..us[i] |-> 0], 1)])

-----------------------------------------------------------------------------
(* recsplit: the offsets in the order they are written, the fixed bits,    *)
(* the numbers for the unary part, and the largest m asked for.            *)

\* A salt is the first that works.
MapsOntoLeaf(level, bucket, m, s) == IsInjective([i \in 1..m |-> Mixed(bucket[i].fp, level, s, m)])

LeafSalt(level, bucket, m) ==
    CHOOSE s \in 0..MaxSalt : /\ MapsOntoLeaf(level, bucket, m, s)
                              /\ \A t \in 0..s - 1 : ~MapsOntoLeaf(level, bucket, m, t)

PartOf(level, item, s, m) == Mixed(item.fp, level, s, m) \div splitUnit(m)

SplitsEvenly(level, bucket, m, s) ==
    \A p \in 0..splitFanout(m) - 2 :
        Cardinality({i \in 1..m : PartOf(level, bucket[i], s, m) = p}) = splitUnit(m)

SplitSalt(level, bucket, m) ==
    CHOOSE s \in 0..MaxSalt : /\ SplitsEvenly(level, bucket, m, s)
                              /\ \A t \in 0..s - 1 : ~SplitsEvenly(level, bucket, m, t)

Leaf(level, bucket, m, s) ==
    [written |-> [j \in 1..m |->
                     bucket[CHOOSE i \in 1..m : Mixed(bucket[i].fp, level, s, m) = j - 1].val],
     fixed |-> Fixed(s, golombParam(m)), unary |-> <<s \div 2^golombParam(m)>>, m |-> m]

Joined(a, b) ==
    [written |-> a.written \o b.written, fixed |-> a.fixed \o b.fixed,
     unary |-> a.unary \o b.unary, m |-> IF a.m > b.m THEN a.m ELSE b.m]

RECURSIVE recsplit(_, _)
recsplit(level, bucket) ==
    LET m == Len(bucket)
        split(s) ==
            FoldLeft(LAMBDA done, p :
                         Joined(done,
                             recsplit(level + 1,
                                 SelectSeq(bucket, LAMBDA x : PartOf(level, x, s, m) = p))),
                     [written |-> <<>>, fixed |-> Fixed(s, golombParam(m)),
                      unary |-> <<s \div 2^golombParam(m)>>, m |-> m],
                     [p \in 1..splitFanout(m) |-> p - 1])
    IN  IF m = 1     \* a last part of one key is written without a salt
        THEN [written |-> <<bucket[1].val>>, fixed |-> <<>>, unary |-> <<>>, m |-> 0]
        ELSE IF m <= LeafSize THEN Leaf(level, bucket, m, LeafSalt(level, bucket, m))
        ELSE split(SplitSalt(level, bucket, m))

-----------------------------------------------------------------------------
(* Sets of size 0 and 1 are not processed further.                         *)
Processed(bucket) ==
    IF Len(bucket) > 1 THEN recsplit(0, bucket)
    ELSE [written |-> [i \in 1..Len(bucket) |-> bucket[i].val], fixed |-> <<>>,
          unary |-> <<>>, m |-> -1]

Collides(bucket) == \E i \in 2..Len(bucket) : bucket[i].fp = bucket[i - 1].fp

(* Extended with copies of the last element to hold index i.               *)
Extended(s, i) == s \o [j \in 1..i - Len(s) |-> Last(s)]

BucketNow(b) ==
    LET items == {i \in 1..Len(collected) : collected[i].bucket = b}
        before(i) == {j \in items : collected[j].fp < collected[i].fp
                        \/ (collected[j].fp = collected[i].fp /\ j < i)}
    IN  [n \in 1..Cardinality(items) |->
            collected[CHOOSE i \in items : Cardinality(before(i)) = n - 1]]

(* AddKey, of the next key.                                                *)
AddKey ==
    /\ phase = "adding"
    /\ Len(collected) < Len(keys)
    /\ LET n == Len(collected)
           key == keys[n + 1]
           sum == Sum128(key[1], salt)
       IN  /\ collected' = Append(collected,
                  [bucket |-> remap(sum[1], bucketCount), fp |-> sum[2],
                   val |-> IF enums THEN n ELSE key[2]])
           /\ offsetsIn' = IF enums THEN Append(offsetsIn, key[2]) ELSE offsetsIn
           /\ maxOffset' = IF key[2] > maxOffset THEN key[2] ELSE maxOffset
    /\ UNCHANGED <<keys, enums, salt, gr, tableLen, records, sizeAcc, posAcc, phase>>

(* Build, up to the buckets.                                               *)
Build ==
    /\ phase = "adding"
    /\ Len(collected) = Len(keys)
    /\ phase' = "building"
    /\ records' = <<>>
    /\ UNCHANGED <<keys, enums, salt, collected, offsetsIn, gr, tableLen, sizeAcc,
                   posAcc, maxOffset>>

BucketsToDo ==
    {b \in {collected[i].bucket : i \in 1..Len(collected)} : b >= Len(sizeAcc) - 1}

(* recsplitCurrentBucket, of the next bucket in order.                     *)
recsplitCurrentBucket ==
    /\ phase = "building"
    /\ BucketsToDo # {}
    /\ LET b == CHOOSE x \in BucketsToDo : \A y \in BucketsToDo : x <= y
           bucket == BucketNow(b)
           sizes == [Extended(sizeAcc, b + 2) EXCEPT ![b + 2] = @ + Len(bucket)]
           done == Processed(bucket)
           bits == gr \o done.fixed \o Unary(done.unary)
       IN  IF Collides(bucket)
           THEN /\ phase' = "collision"
                /\ sizeAcc' = sizes
                /\ UNCHANGED <<gr, tableLen, records, posAcc>>
           ELSE /\ gr' = bits
                /\ records' = records \o done.written
                /\ tableLen' = IF done.m + 1 > tableLen THEN done.m + 1 ELSE tableLen
                /\ sizeAcc' = sizes
                /\ posAcc' = [Extended(posAcc, b + 2) EXCEPT ![b + 2] = Len(bits)]
                /\ UNCHANGED phase
    /\ UNCHANGED <<keys, enums, salt, collected, offsetsIn, maxOffset>>

(* The rest of Build, and OpenIndex: the sentinel bit and the parameters.  *)
WriteAndOpen ==
    /\ phase = "building"
    /\ BucketsToDo = {}
    /\ gr' = Append(gr, 1)
    /\ phase' = "open"
    /\ UNCHANGED <<keys, enums, salt, collected, offsetsIn, tableLen, records,
                   sizeAcc, posAcc, maxOffset>>

(* ResetNextSalt.  The Golomb-Rice bits stay.                              *)
ResetNextSalt ==
    /\ phase = "collision"
    /\ salt' = salt + 1
    /\ collected' = <<>>
    /\ offsetsIn' = <<>>
    /\ maxOffset' = 0
    /\ sizeAcc' = <<0>>
    /\ posAcc' = <<0>>
    /\ phase' = "adding"
    /\ UNCHANGED <<keys, enums, gr, tableLen, records>>

-----------------------------------------------------------------------------
(* GolombRiceReader: the positions of the fixed and of the unary part.     *)

Ones(from) == {p \in from + 1..Len(gr) : gr[p] = 1}
NthOne(from, n) == CHOOSE p \in Ones(from) :
                       Cardinality({x \in Ones(from) : x < p}) = n - 1

ReadReset(bitPos, unaryOffset) == [fixed |-> bitPos, unary |-> bitPos + unaryOffset]

SkipSubtree(r, nodes, fixedLen) ==
    [fixed |-> r.fixed + fixedLen, unary |-> NthOne(r.unary, nodes)]

FixedBits(at, n) == FoldLeft(LAMBDA x, i : x + 2^(i - 1) * gr[at + i], 0, [i \in 1..n |-> i])

ReadNext(r, log2golomb) ==
    LET pos == NthOne(r.unary, 1)
    IN  [v |-> (pos - 1 - r.unary) * 2^log2golomb + FixedBits(r.fixed, log2golomb),
         r |-> [fixed |-> r.fixed + log2golomb, unary |-> pos]]

(* Mutant: the nodes before the part are not skipped.                      *)
DownUnskipped(st, fp) ==
    LET m == st.m
        next == ReadNext(st.r, golombParam(m))
        unit == splitUnit(m)
        part == Mixed(fp, st.level, next.v, m) \div unit
    IN  [m |-> IF unit < m - part * unit THEN unit ELSE m - part * unit,
         level |-> st.level + 1, cumKeys |-> st.cumKeys + part * unit, r |-> next.r]

(* Lookup goes down one level: into the part of m keys the fingerprint     *)
(* falls in, past the subtrees of the parts before it.                     *)
Down(st, fp) ==
    LET m == st.m
        next == ReadNext(st.r, golombParam(m))
        unit == splitUnit(m)
        part == Mixed(fp, st.level, next.v, m) \div unit
    IN  [m |-> IF unit < m - part * unit THEN unit ELSE m - part * unit,
         level |-> st.level + 1, cumKeys |-> st.cumKeys + part * unit,
         r |-> IF part = 0 THEN next.r
               ELSE SkipSubtree(next.r, SkipNodes(unit) * part, SkipBits(unit) * part)]

RECURSIVE Descend(_, _)
Descend(st, fp) == IF st.m <= LeafSize THEN st ELSE Descend(Down(st, fp), fp)

BytesPerRec == CHOOSE n \in 0..8 : /\ maxOffset < 256^n
                                   /\ \A k \in 0..n - 1 : maxOffset >= 256^k
Record(rec) == records[rec + 1] % 256^BytesPerRec

LookupAt(st, fp) ==
    Record(st.cumKeys + Mixed(fp, st.level, ReadNext(st.r, golombParam(st.m)).v, st.m))

Lookup(key) ==
    LET sum == Sum128(key, salt)
        b == remap(sum[1], bucketCount)
        m == sizeAcc[b + 2] - sizeAcc[b + 1]
    IN  IF Len(keys) = 1 THEN 0
        ELSE LookupAt(Descend([m |-> m, level |-> 0, cumKeys |-> sizeAcc[b + 1],
                               r |-> ReadReset(posAcc[b + 1], SkipBits(m))], sum[2]),
                      sum[2])

(* The offsets went through the collector that sorts them.                 *)
OrdinalLookup(i) ==
    CHOOSE o \in ToSet(offsetsIn) :
        LET below == Cardinality({j \in DOMAIN offsetsIn : offsetsIn[j] < o})
        IN  below <= i /\ i < below + Cardinality({j \in DOMAIN offsetsIn : offsetsIn[j] = o})

(* RewriteWithOffsets, and OpenIndex of the result: the records with the   *)
(* offsets replaced, in as many bytes as those need.                       *)
RewriteWithOffsets ==
    /\ phase = "open"
    /\ ~enums
    /\ records' = [i \in DOMAIN records |-> NewOffset(Record(i - 1))]
    /\ maxOffset' = NewOffset(maxOffset)
    /\ phase' = "rewritten"
    /\ UNCHANGED <<keys, enums, salt, collected, offsetsIn, gr, tableLen, sizeAcc, posAcc>>

-----------------------------------------------------------------------------
Init ==
    /\ keys \in KeySets
    /\ enums \in BOOLEAN
    /\ salt = 0
    /\ collected = <<>>
    /\ offsetsIn = <<>>
    /\ gr = <<>>
    /\ tableLen = 0
    /\ records = <<>>
    /\ sizeAcc = <<0>>
    /\ posAcc = <<0>>
    /\ maxOffset = 0
    /\ phase = "adding"

Next == AddKey \/ Build \/ recsplitCurrentBucket \/ WriteAndOpen \/ ResetNextSalt
        \/ RewriteWithOffsets

Spec == Init /\ [][Next]_vars

(* An index that was built, after collisions too, leads from every key to  *)
(* its offset, through its ordinal when there are two layers (Lookup,      *)
(* OrdinalLookup), to the new offset once it is rewritten                  *)
(* (RewriteWithOffsets), and has the parameters of every bucket            *)
(* (OpenIndex).                                                            *)
LookupFinds ==
    phase \in {"open", "rewritten"} /\ Len(keys) > 1 =>
        /\ \A n \in 1..Len(keys) :
              IF enums THEN /\ Lookup(keys[n][1]) = n - 1
                            /\ OrdinalLookup(n - 1) = keys[n][2]
              ELSE Lookup(keys[n][1]) = IF phase = "open" THEN keys[n][2]
                                        ELSE NewOffset(keys[n][2])
        /\ \A b \in 1..Len(sizeAcc) - 1 : sizeAcc[b + 1] - sizeAcc[b] < tableLen
=============================================================================
