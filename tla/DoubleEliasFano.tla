-------------------------- MODULE DoubleEliasFano --------------------------
(***************************************************************************)
(* eliasfano16.DoubleEliasFano: the two monotone sequences of a recsplit   *)
(* index, how many keys come before a bucket and where its bits start.     *)
(* The numbers are less by a multiple of the smallest difference, their    *)
(* low bits alternate in one array, and the jump tables of the two unary   *)
(* arrays share their words.                                               *)
(***************************************************************************)
EXTENDS BitArrays, Sequences

CONSTANTS
    WordBits,     \* 64
    Q, SuperQ,    \* 2^8 and 2^14
    Inputs        \* pairs of sequences of equal length that start with 0

VARIABLES
    input,     \* <<cumKeys, position>>
    ef         \* <<>>, or the DoubleEliasFano

vars == <<input, ef>>

SlotsPerWord == 4                   \* 16-bit offsets in a word
SuperQSize == 1 + (SuperQ \div Q) \div SlotsPerWord
WordsFor(bits) == (bits + WordBits - 1) \div WordBits

jumpSizeWords(n) ==
    LET rest == (n + 1) % SuperQ
    IN  ((n + 1) \div SuperQ) * SuperQSize * 2 +
        IF rest = 0 THEN 0 ELSE (1 + ((rest + Q - 1) \div Q + 3) \div 4) * 2

deriveFields(n, uCumKeys, uPosition) ==
    LET lCumKeys == LeadingBit(uCumKeys \div (n + 1))
        lPosition == LeadingBit(uPosition \div (n + 1))
    IN  [lCumKeys |-> lCumKeys, lPosition |-> lPosition,
         lowerWords |-> WordsFor((n + 1) * (lCumKeys + lPosition)) + 1,
         wordsCumKeys |-> WordsFor(n + 1 + uCumKeys \div 2^lCumKeys),
         wordsPosition |-> WordsFor(n + 1 + uPosition \div 2^lPosition),
         jumpWords |-> jumpSizeWords(n)]

MinDelta(s) ==
    LET deltas == {s[i + 1] - s[i] : i \in 1..Len(s) - 1}
    IN  CHOOSE d \in deltas : \A x \in deltas : d <= x

(* Head of the jump table of a sequence (0: cumKeys, 1: position) for the  *)
(* c-th number.                                                            *)
JumpHead(c, which) == (c \div SuperQ) * (SuperQSize * 2) + which

(* The word and the slot of the c-th number's offset.                      *)
JumpSlot(c, which) ==
    LET inside == 2 * ((c % SuperQ) \div Q) + which
    IN  <<JumpHead(c, 0) + 2 + inside \div SlotsPerWord, inside % SlotsPerWord>>

(* The offsets are written from 0 on; a slot written twice holds the last. *)
JumpTable(n, uppers) ==
    LET at(c, which) == Select(uppers[which + 1], 0, c)
        head(w) == {x \in (0..n) \X {0, 1} :
                       x[1] % SuperQ = 0 /\ JumpHead(x[1], x[2]) = w}
        slot(w, s) == {x \in (0..n) \X {0, 1} :
                          x[1] % Q = 0 /\ JumpSlot(x[1], x[2]) = <<w, s>>}
        last(S) == CHOOSE x \in S :
                      \A y \in S : y[2] < x[2] \/ (y[2] = x[2] /\ y[1] <= x[1])
        off(S) == IF S = {} THEN 0
                  ELSE at(last(S)[1], last(S)[2]) -
                       at((last(S)[1] \div SuperQ) * SuperQ, last(S)[2])
    IN  [w \in 0..jumpSizeWords(n) - 1 |->
            [head |-> IF head(w) = {} THEN 0 ELSE at(last(head(w))[1], last(head(w))[2]),
             slots |-> [s \in 0..SlotsPerWord - 1 |-> off(slot(w, s))]]]

(* The number at i, less its share of the smallest difference.             *)
Less(s, delta, i) == s[i + 1] - i * delta

Lowers(s, delta, n, l, width, from) ==
    UNION {{i * width + from + b : b \in BitsBelow(Less(s, delta, i), l)} : i \in 0..n}
Uppers(s, delta, n, l) == {Less(s, delta, i) \div 2^l + i : i \in 0..n}

BuildWith(cumKeys, position, n, ck, pos, f) ==
    LET width == f.lCumKeys + f.lPosition
        upCum == Uppers(cumKeys, ck, n, f.lCumKeys)
        upPos == Uppers(position, pos, n, f.lPosition)
    IN  [numBuckets |-> n, cumKeysMinDelta |-> ck, posMinDelta |-> pos, f |-> f,
         uCumKeys |-> Less(cumKeys, ck, n) + 1, uPosition |-> Less(position, pos, n) + 1,
         lower |-> Lowers(cumKeys, ck, n, f.lCumKeys, width, 0) \cup
                   Lowers(position, pos, n, f.lPosition, width, f.lCumKeys),
         upperCumKeys |-> upCum, upperPosition |-> upPos,
         jump |-> JumpTable(n, <<upCum, upPos>>)]

Build(cumKeys, position) ==
    LET n == Len(cumKeys) - 1
        ck == MinDelta(cumKeys)
        pos == MinDelta(position)
    IN  BuildWith(cumKeys, position, n, ck, pos,
                  deriveFields(n, Less(cumKeys, ck, n) + 1, Less(position, pos, n) + 1))

-----------------------------------------------------------------------------
Jump(e, i, which) ==
    e.jump[JumpHead(i, which)].head + e.jump[JumpSlot(i, which)[1]].slots[JumpSlot(i, which)[2]]

LowerWord(e, i) == Word(e.lower, i * (e.f.lCumKeys + e.f.lPosition), WordBits)

SelectCumKeys(e, i) == Select(e.upperCumKeys, Jump(e, i, 0), i % Q)

Assemble(sel, i, l, low, delta) ==
    (sel - i) * 2^l + Number(low \cap 0..l - 1) + i * delta

Get2(e, i) ==
    <<Assemble(SelectCumKeys(e, i), i, e.f.lCumKeys, LowerWord(e, i), e.cumKeysMinDelta),
      Assemble(Select(e.upperPosition, Jump(e, i, 1), i % Q), i, e.f.lPosition,
               Word(LowerWord(e, i), e.f.lCumKeys, WordBits), e.posMinDelta)>>

(* cumKeys, the next cumKeys and the position.                             *)
Get3(e, i) ==
    <<Get2(e, i)[1],
      Assemble(Select(e.upperCumKeys, SelectCumKeys(e, i) + 1, 0), i + 1, e.f.lCumKeys,
               Word(LowerWord(e, i), e.f.lCumKeys + e.f.lPosition, WordBits),
               e.cumKeysMinDelta),
      Get2(e, i)[2]>>

Write(e) ==
    [numBuckets |-> e.numBuckets, uCumKeys |-> e.uCumKeys, uPosition |-> e.uPosition,
     cumKeysMinDelta |-> e.cumKeysMinDelta, posMinDelta |-> e.posMinDelta,
     jump |-> e.jump,
     data |-> e.lower \cup {WordBits * e.f.lowerWords + b : b \in e.upperCumKeys} \cup
              {WordBits * (e.f.lowerWords + e.f.wordsCumKeys) + b : b \in e.upperPosition}]

Read(r) ==
    LET f == deriveFields(r.numBuckets, r.uCumKeys, r.uPosition)
        start == WordBits * f.lowerWords
        next == start + WordBits * f.wordsCumKeys
    IN  [numBuckets |-> r.numBuckets, cumKeysMinDelta |-> r.cumKeysMinDelta,
         posMinDelta |-> r.posMinDelta, f |-> f, uCumKeys |-> r.uCumKeys,
         uPosition |-> r.uPosition, lower |-> Word(r.data, 0, start),
         upperCumKeys |-> Word(r.data, start, WordBits * f.wordsCumKeys),
         upperPosition |-> Word(r.data, next, WordBits * f.wordsPosition),
         jump |-> [w \in 0..f.jumpWords - 1 |-> r.jump[w]]]

-----------------------------------------------------------------------------
BuildAndWrite ==
    /\ ef = <<>>
    /\ ef' = <<Read(Write(Build(input[1], input[2])))>>
    /\ UNCHANGED input

Init == input \in Inputs /\ ef = <<>>

Next == BuildAndWrite

Spec == Init /\ [][Next]_vars

(* The two sequences come back from the file as they were, number by       *)
(* number and with the next number of keys (Get2, Get3), where the low     *)
(* bits of three numbers fit in a word, as deriveFields demands.           *)
BucketsReadBack ==
    ef # <<>> /\ 2 * ef[1].f.lCumKeys + ef[1].f.lPosition <= WordBits =>
        /\ \A i \in 0..ef[1].numBuckets :
              Get2(ef[1], i) = <<input[1][i + 1], input[2][i + 1]>>
        /\ \A i \in 0..ef[1].numBuckets - 1 :
              Get3(ef[1], i) = <<input[1][i + 1], input[1][i + 2], input[2][i + 1]>>
=============================================================================
