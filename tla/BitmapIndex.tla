---------------------------- MODULE BitmapIndex ----------------------------
(***************************************************************************)
(* Inverted indices kept as bitmaps (kv/bitmapdb): the numbers of a key    *)
(* are cut into chunks that fit a page; a chunk is stored under the key    *)
(* and its largest number, the last chunk of a key under the key and the   *)
(* largest number there is.  Roaring bitmaps are sets, with SizeOf for the *)
(* serialized size.  Both widths, 32 and 64 bits, are the same code.       *)
(***************************************************************************)
EXTENDS Integers, Sequences, FiniteSets

CONSTANTS
  Keys,          \* keys, all of the same length
  MaxNum,        \* ^uint64(0); the numbers indexed are smaller
  SizeOf(_),     \* GetSerializedSizeInBytes after RunOptimize
  ChunkLimit,
  Batches        \* sets of numbers that are added at once

VARIABLES
  chunks,    \* the table: a set of [key, upto, bm]
  held       \* key -> the numbers added and not truncated

vars == <<chunks, held>>

MinOf(S) == CHOOSE n \in S : \A m \in S : n <= m
MaxOf(S) == CHOOSE n \in S : \A m \in S : n >= m

-----------------------------------------------------------------------------
\* sort.Search.
RECURSIVE SearchFrom(_, _, _, _)
SearchFrom(bm, from, lo, hi) ==
  IF lo >= hi THEN lo
  ELSE LET mid == (lo + hi) \div 2 IN
       IF SizeOf({n \in bm : from <= n /\ n <= from + mid}) > ChunkLimit
       THEN SearchFrom(bm, from, lo, mid)
       ELSE SearchFrom(bm, from, mid + 1, hi)

\* CutLeft that also takes the number that was too much.
CutLeftOver(bm) ==
  IF SizeOf(bm) <= ChunkLimit THEN bm
  ELSE LET from == MinOf(bm) IN
       {n \in bm : n <= from + SearchFrom(bm, from, 0, MaxOf(bm) - from)}

\* CutLeft: everything when it fits, else as many as fit, found by bisection.
CutLeft(bm) ==
  IF SizeOf(bm) <= ChunkLimit THEN bm
  ELSE LET from == MinOf(bm) IN
       {n \in bm : n < from + SearchFrom(bm, from, 0, MaxOf(bm) - from)}

\* WalkChunkWithKeys: the chunks of a bitmap with their keys.
RECURSIVE WalkChunkWithKeys(_, _)
WalkChunkWithKeys(k, bm) ==
  IF bm = {} THEN {}
  ELSE LET chunk == CutLeft(bm)
           rest == bm \ chunk IN
       {[key |-> k, upto |-> IF rest = {} THEN MaxNum ELSE MaxOf(chunk), bm |-> chunk]}
         \union WalkChunkWithKeys(k, rest)

Stored(cs, k) == {c \in cs : c.key = k}

\* Put of every chunk replaces the one under the same key.
PutAll(cs, new) ==
  {c \in cs : ~\E d \in new : d.key = c.key /\ d.upto = c.upto} \union new

\* Get: the chunks from the first that reaches from to the first that reaches to.
Get(cs, k, from, to) ==
  LET reach == {c \in Stored(cs, k) : c.upto >= from}
      ends == {c.upto : c \in {d \in reach : d.upto >= to}} IN
  UNION {c.bm : c \in {d \in reach : ends = {} \/ d.upto <= MinOf(ends)}}

\* SeekInBitmap64, by rank: 0 stands for not found (numbers are from 1).
SeekInBitmap(bm, n) ==
  IF bm = {} THEN 0
  ELSE IF n = 0 THEN MinOf(bm)
  ELSE LET searchRank == Cardinality({m \in bm : m <= n - 1}) IN
       IF searchRank >= Cardinality(bm) THEN 0
       ELSE CHOOSE m \in bm : Cardinality({o \in bm : o < m}) = searchRank

-----------------------------------------------------------------------------
Init == chunks = {} /\ held = [k \in Keys |-> {}]

\* What the stages that index do: the last chunk of the key, joined with numbers
\* after it, is cut again.
AddBatch(k, nums) ==
  /\ \A n \in nums, m \in held[k] : m < n
  /\ LET last == {c \in Stored(chunks, k) : c.upto = MaxNum}
         bm == nums \union UNION {c.bm : c \in last} IN
     chunks' = PutAll(chunks, WalkChunkWithKeys(k, bm))
  /\ held' = [held EXCEPT ![k] = @ \union nums]

\* TruncateRange: what is left of the chunks that reach to is written again.
TruncateRange(k, to) ==
  LET got == Get(chunks, k, to, MaxNum)
      bm == {n \in got : n < to}
      kept == {c \in chunks : ~(c.key = k /\ c.upto >= to)} IN
  /\ chunks' = PutAll(kept, WalkChunkWithKeys(k, bm))
  /\ held' = [held EXCEPT ![k] = {n \in @ : n < to}]

Next ==
  \E k \in Keys : \/ \E nums \in Batches : AddBatch(k, nums)
                  \/ \E to \in 0..MaxNum - 1 : TruncateRange(k, to)

Spec == Init /\ [][Next]_vars

-----------------------------------------------------------------------------
\* Whatever was added and truncated, in any order: every chunk fits its page and is
\* not empty, the chunks of a key split its numbers at their keys, and Get of any
\* range finds exactly the numbers of that range that are held; the first number
\* from n on is found in them (bitmapdb.go).
ChunksHold ==
  /\ \A c \in chunks :
       /\ c.bm # {} /\ SizeOf(c.bm) <= ChunkLimit
       /\ \A n \in c.bm : n <= c.upto
       /\ \A d \in Stored(chunks, c.key) \ {c} : c.upto < d.upto => \A n \in d.bm : n > c.upto
  /\ \A k \in Keys :
       /\ UNION {c.bm : c \in Stored(chunks, k)} = held[k]
       /\ \A from, to \in 0..MaxNum :
            from <= to => {n \in Get(chunks, k, from, to) : from <= n /\ n <= to}
                            = {n \in held[k] : from <= n /\ n <= to}
       /\ \A n \in 0..MaxNum :
            SeekInBitmap(held[k], n) = IF \E m \in held[k] : m >= n
                                       THEN MinOf({m \in held[k] : m >= n}) ELSE 0
=============================================================================
