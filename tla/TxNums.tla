------------------------------- MODULE TxNums -------------------------------
(***************************************************************************)
(* Which transactions a block holds (kv/rawdbv3): the table MaxTxNum maps  *)
(* a block number to the last transaction number of the block.             *)
(***************************************************************************)
EXTENDS Integers, FiniteSets

CONSTANTS MaxBlock, MaxTxNum     \* bounds

VARIABLES
  table      \* block -> its last transaction number, for the blocks that are stored

vars == <<table>>

Blocks == DOMAIN table
NoBlocks == [b \in {} |-> 0]
LastBlock == CHOOSE b \in Blocks : \A c \in Blocks : b >= c

Stored(t, b, n) == [c \in DOMAIN t \union {b} |-> IF c = b THEN n ELSE t[c]]
WithBlock(b, n) == Stored(table, b, n)

-----------------------------------------------------------------------------
\* Max and Min of a block: of one that is not stored, as of the last one.
Max(b) == CASE b \in Blocks -> table[b]
            [] b \notin Blocks /\ Blocks # {} -> table[LastBlock]
            [] OTHER -> 0

Min(b) == CASE b = 0 -> 0
            [] b # 0 /\ b - 1 \in Blocks -> table[b - 1] + 1
            [] b # 0 /\ b - 1 \notin Blocks /\ Blocks # {} -> table[LastBlock] + 1
            [] OTHER -> 0

\* FindBlockNum: bisection over as many blocks as are stored, from block 0 on;
\* <<>> when all of them end earlier.
RECURSIVE SearchIn(_, _, _)
SearchIn(lo, hi, n) ==
  IF lo >= hi THEN lo
  ELSE LET mid == (lo + hi) \div 2 IN
       IF table[mid] >= n THEN SearchIn(lo, mid, n) ELSE SearchIn(mid + 1, hi, n)

FindBlockNum(n) ==
  LET cnt == Cardinality(Blocks)
      b == SearchIn(0, cnt, n) IN
  IF b = cnt THEN <<>> ELSE <<b>>

-----------------------------------------------------------------------------
Init == table = NoBlocks

\* Append without the test for gaps.
AppendAnywhere(b, n) ==
  /\ Blocks # {} => b > LastBlock
  /\ table' = WithBlock(b, n)

\* Append: a gap is refused once there is a block after block 1; the table takes
\* nothing but keys past its end.
Append(b, n) ==
  /\ Blocks # {} => (LastBlock > 1 => b = LastBlock + 1)
  /\ Blocks # {} => b > LastBlock
  /\ table' = WithBlock(b, n)

WriteForGenesis(n) == table' = WithBlock(0, n)

\* Truncate: every block from b on, one by one with DeleteCurrent and Next.
RECURSIVE Truncated(_, _)
Truncated(t, b) ==
  LET from == {c \in DOMAIN t : c >= b} IN
  IF from = {} THEN t
  ELSE LET k == CHOOSE c \in from : \A d \in from : c <= d IN
       Truncated([c \in DOMAIN t \ {k} |-> t[c]], b)
Truncate(b) == table' = Truncated(table, b)

\* The chain the callers store: from the genesis on, every block with at least the
\* two system transactions around its own; once there are two blocks after the
\* genesis they may try any block.
Tried(b, n) ==
  /\ Blocks # {} /\ n >= table[LastBlock] + 2
  /\ b = LastBlock + 1 \/ LastBlock > 1

Next ==
  \/ \E n \in 1..2 : Blocks = {} /\ WriteForGenesis(n)
  \/ \E b \in 1..MaxBlock, n \in 1..MaxTxNum : Tried(b, n) /\ Append(b, n)
  \/ \E b \in 1..MaxBlock : Truncate(b)

Spec == Init /\ [][Next]_vars

-----------------------------------------------------------------------------
\* Every transaction number up to the last block's belongs to exactly one block:
\* FindBlockNum finds it, and it lies between Min and Max of that block; the blocks
\* stay without gaps through any appends and truncations, even of callers that skip
\* blocks once there are two (txnum.go).
BlocksOfTxNums ==
  Blocks # {} =>
    /\ Blocks = 0..LastBlock
    /\ \A n \in 0..table[LastBlock] :
         /\ FindBlockNum(n) # <<>>
         /\ \A b \in Blocks : (FindBlockNum(n) = <<b>>) <=> (Min(b) <= n /\ n <= Max(b))
    /\ FindBlockNum(table[LastBlock] + 1) = <<>>
    /\ \A b \in Blocks : b # 0 => Min(b) = Max(b - 1) + 1
=============================================================================
