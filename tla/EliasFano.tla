----------------------------- MODULE EliasFano -----------------------------
(***************************************************************************)
(* eliasfano32.EliasFano: a monotone sequence of numbers in an array of    *)
(* words.  The low l bits of each number lie one after the other, the rest *)
(* is in unary, and a jump table gives the position of every q-th number   *)
(* of the unary part relative to every superQ-th.  A bit array is the set  *)
(* of its positions; q, superQ and the width of a word are parameters.     *)
(***************************************************************************)
EXTENDS BitArrays, SequencesExt

CONSTANTS
    WordBits,     \* 64
    Q, SuperQ,    \* 2^8 and 2^14
    MaxCount,     \* bound: how many numbers a sequence has
    MaxValue      \* bound: the largest number

VARIABLES
    ef,        \* the EliasFano
    offsets,   \* what AddOffset was called with
    it,        \* an EliasFanoIter, and what it returned
    phase      \* "new", "adding", "built", "read"

vars == <<ef, offsets, it, phase>>

SlotsPerWord == 2                   \* offsets of the jump table in a word
SuperQSize == 1 + (SuperQ \div Q) \div SlotsPerWord
WordsFor(bits) == (bits + WordBits - 1) \div WordBits

jumpSizeWords(count) ==
    LET rest == (count + 1) % SuperQ
    IN  ((count + 1) \div SuperQ) * SuperQSize +
        IF rest = 0 THEN 0 ELSE 1 + ((rest + Q - 1) \div Q + 3) \div 2

(* Where the three parts of the array are, from the count and the bound.   *)
deriveFields(count, u) ==
    LET l == LeadingBit(u \div (count + 1))
    IN  [l |-> l, lowerWords |-> WordsFor((count + 1) * l) + 1,
         upperWords |-> WordsFor(count + 1 + u \div 2^l),
         jumpWords |-> jumpSizeWords(count)]

(* count is one less than the number of offsets.                           *)
NewEliasFano(count, maxOffset) ==
    [count |-> count - 1, u |-> maxOffset + 1, maxOffset |-> maxOffset,
     f |-> deriveFields(count - 1, maxOffset + 1),
     lower |-> {}, upper |-> {}, jump |-> <<>>, i |-> 0]

AddOffset(e, offset) ==
    [e EXCEPT !.lower = @ \cup {e.i * e.f.l + b : b \in BitsBelow(offset, e.f.l)},
              !.upper = @ \cup {offset \div 2^e.f.l + e.i},
              !.i = @ + 1]

(* Slot s of word w of the jump table for the c-th number.                 *)
JumpHead(c) == (c \div SuperQ) * SuperQSize
JumpSlot(c) == LET inside == (c % SuperQ) \div Q
               IN  <<JumpHead(c) + 1 + inside \div SlotsPerWord, inside % SlotsPerWord>>

Build(e) ==
    LET at(c) == CHOOSE b \in e.upper : Cardinality({x \in e.upper : x < b}) = c
        head(w) == {c \in 0..e.count : c % SuperQ = 0 /\ JumpHead(c) = w}
        slot(w, s) == {c \in 0..e.count : c % Q = 0 /\ JumpSlot(c) = <<w, s>>}
        off(S) == IF S = {} THEN 0
                  ELSE LET c == CHOOSE x \in S : TRUE
                       IN  at(c) - at((c \div SuperQ) * SuperQ)
    IN  [e EXCEPT !.jump =
            [w \in 0..e.f.jumpWords - 1 |->
                IF head(w) # {}
                THEN [head |-> at(CHOOSE c \in head(w) : TRUE), slots |-> <<0, 0>>]
                ELSE [head |-> 0, slots |-> <<off(slot(w, 0)), off(slot(w, 1))>>]]]

(* The word of lower bits that starts with the ones of the i-th number.    *)
LowerWord(e, i) == Word(e.lower, i * e.f.l, WordBits)

Jump(e, i) == e.jump[JumpHead(i)].head + e.jump[JumpSlot(i)[1]].slots[JumpSlot(i)[2] + 1]

get(e, i) == Select(e.upper, Jump(e, i), i % Q)

Assemble(e, i, sel, low) ==
    (sel - i) * 2^e.f.l + Number(low \cap 0..e.f.l - 1)

Get(e, i) == Assemble(e, i, get(e, i), LowerWord(e, i))

(* The number after the i-th one, its low bits taken from the same word.   *)
Next2(e, i) ==
    Assemble(e, i + 1, Select(e.upper, get(e, i) + 1, 0),
             Word(LowerWord(e, i), e.f.l, WordBits))

(* The first number that is not less: <<>> or <<number>>.                  *)
Search(e, offset) ==
    LET from == {i \in 0..e.count : Get(e, i) >= offset}
    IN  IF from = {} THEN <<>>
        ELSE <<Get(e, CHOOSE i \in from : \A j \in from : i <= j)>>

Count(e) == e.count + 1

(* Min of the serialised form: the first number, from the first words.     *)
MinOf(e) == Assemble(e, 0, Select(e.upper, e.jump[0].head + e.jump[1].slots[1], 0),
                   Word(e.lower, 0, WordBits))

(* AppendBytes writes count, u and the array; ReadEliasFano finds the      *)
(* parts of the array again.                                               *)
AppendBytes(e) ==
    [count |-> e.count, u |-> e.u, jump |-> e.jump,
     data |-> e.lower \cup {WordBits * e.f.lowerWords + b : b \in e.upper}]

ReadEliasFano(r) ==
    LET f == deriveFields(r.count, r.u)
        start == WordBits * f.lowerWords
    IN  [count |-> r.count, u |-> r.u, maxOffset |-> r.u - 1, f |-> f, i |-> 0,
         lower |-> {b \in r.data : b < start},
         upper |-> Word(r.data, start, WordBits * f.upperWords),
         jump |-> [w \in 0..f.jumpWords - 1 |-> r.jump[w]]]

Iterator == [idx |-> 0, lowerIdx |-> 0, upperAt |-> 0, upper |-> 0, got |-> <<>>]

(* EliasFanoIter.Next walks the unary part; every bit that is not set adds *)
(* one step.                                                               *)
IterNext(e, r) ==
    LET at == Select(e.upper, r.upperAt, 0)
        upper == r.upper + (at - r.upperAt) * 2^e.f.l
        low == Word(e.lower, r.lowerIdx, WordBits)
    IN  [idx |-> r.idx + 1, lowerIdx |-> r.lowerIdx + e.f.l, upperAt |-> at + 1,
         upper |-> upper,
         got |-> Append(r.got, Number(low \cap 0..e.f.l - 1) + upper)]

-----------------------------------------------------------------------------
New ==
    /\ phase = "new"
    /\ \E count \in 1..MaxCount, max \in 0..MaxValue :
          ef' = NewEliasFano(count, max)
    /\ phase' = "adding"
    /\ UNCHANGED <<offsets, it>>

(* The numbers come in order and none is above the bound.                  *)
Add ==
    /\ phase = "adding"
    /\ ef.i <= ef.count
    /\ \E o \in (IF offsets = <<>> THEN 0 ELSE Last(offsets))..ef.maxOffset :
          /\ ef' = AddOffset(ef, o)
          /\ offsets' = Append(offsets, o)
    /\ UNCHANGED <<it, phase>>

BuildAll ==
    /\ phase = "adding"
    /\ ef.i = ef.count + 1
    /\ ef' = Build(ef)
    /\ phase' = "built"
    /\ UNCHANGED <<offsets, it>>

Reopen ==
    /\ phase = "built"
    /\ ef' = ReadEliasFano(AppendBytes(ef))
    /\ phase' = "read"
    /\ UNCHANGED <<offsets, it>>

Iterate ==
    /\ phase = "read"
    /\ it.idx <= ef.count
    /\ it' = IterNext(ef, it)
    /\ UNCHANGED <<ef, offsets, phase>>

Init ==
    /\ phase = "new"
    /\ ef = <<>>
    /\ offsets = <<>>
    /\ it = Iterator

Next == New \/ Add \/ BuildAll \/ Reopen \/ Iterate

Spec == Init /\ [][Next]_vars

-----------------------------------------------------------------------------
(* What was built is read back, from memory and from the serialised form:  *)
(* each number by its index (Get), with the next one when the low bits of  *)
(* two numbers fit in a word (Get2), by value (Search), the first and the  *)
(* count, and in order by the iterator.                                    *)
SequenceReadBack ==
    phase \in {"built", "read"} =>
        /\ Count(ef) = Len(offsets)
        /\ MinOf(ef) = offsets[1]
        /\ \A i \in 0..ef.count : Get(ef, i) = offsets[i + 1]
        /\ 2 * ef.f.l <= WordBits =>
              \A i \in 0..ef.count - 1 : Next2(ef, i) = offsets[i + 2]
        /\ \A o \in 0..MaxValue :
              Search(ef, o) = LET ge == SelectSeq(offsets, LAMBDA x : x >= o)
                              IN  SubSeq(ge, 1, IF ge = <<>> THEN 0 ELSE 1)
        /\ it.got = SubSeq(offsets, 1, it.idx)
=============================================================================
