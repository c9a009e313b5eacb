---------------------------- MODULE FixedBitmaps ----------------------------
(***************************************************************************)
(* A file of bitmaps of a fixed size (kv/bitmapdb FixedSizeBitmaps), used  *)
(* by the locality index: bitmap number item takes the bitsPerBitmap bits  *)
(* from item * bitsPerBitmap on, in words of WordBits bits.  The writer    *)
(* fills a temporary file that Build renames; the reader maps the file.    *)
(***************************************************************************)
EXTENDS Integers, Sequences, FiniteSets

CONSTANTS
  WordBits,        \* 64
  Shapes,          \* pairs <<bitsPerBitmap, amount>> a file is created with
  PageWords        \* the words of the smallest file

VARIABLES
  shape,     \* [bits, amount]
  data,      \* word -> its set of bits
  built,     \* Build renamed the file
  listed     \* item -> the values added

vars == <<shape, data, built, listed>>

Bits == shape[1]
Amount == shape[2]

\* NewFixedSizeBitmapsWriter: the size in pages, one more than what is full.
NewFixedSizeBitmapsWriter(s) == [i \in 0..(((s[1] * s[2]) \div WordBits) \div PageWords + 1) * PageWords - 1 |-> {}]

Init ==
  /\ shape \in Shapes
  /\ data = NewFixedSizeBitmapsWriter(shape)
  /\ built = FALSE
  /\ listed = [i \in 0..Amount - 1 |-> {}]

\* AddArray of one list of values.
AddArray(item, values) ==
  /\ ~built /\ item <= Amount
  /\ LET bitsAt == {item * Bits + v : v \in values} IN
     data' = [i \in DOMAIN data |->
                data[i] \union {n % WordBits : n \in {m \in bitsAt : m \div WordBits = i}}]
  /\ listed' = [listed EXCEPT ![item] = @ \union values]
  /\ UNCHANGED <<shape, built>>

Build ==
  /\ ~built /\ built' = TRUE
  /\ UNCHANGED <<shape, data, listed>>

\* The bits At and First2At visit, word by word from bitFrom to bitTo: pairs of the
\* word and the bit, in order.
RECURSIVE VisitedFrom(_, _, _, _)
VisitedFrom(i, bitFrom, blkTo, end) ==
  IF i >= blkTo THEN <<>>
  ELSE LET bitTo == IF i = blkTo - 1 THEN end % WordBits ELSE WordBits IN
       [b \in 1..(IF bitTo > bitFrom THEN bitTo - bitFrom ELSE 0) |-> <<i, bitFrom + b - 1>>]
         \o VisitedFrom(i + 1, 0, blkTo, end)

\* The same without the word after the last full one.
VisitedFull(item) ==
  VisitedFrom((Bits * item) \div WordBits, (Bits * item) % WordBits,
              (Bits * item + Bits) \div WordBits, Bits * item + Bits)

Visited(item) ==
  LET n == Bits * item IN
  VisitedFrom(n \div WordBits, n % WordBits, (n + Bits) \div WordBits + 1, n + Bits)

Set(w) == w[2] \in data[w[1]]
At(item) == {j - 1 : j \in {k \in DOMAIN Visited(item) : Set(Visited(item)[k])}}

\* First2At: the first value from after on, and the one after it; <<>> for none.
First2At(item, after) ==
  LET hits == {j \in At(item) : j >= after}
      fst == CHOOSE j \in hits : \A k \in hits : j <= k
      more == hits \ {fst} IN
  CASE hits = {} -> <<>>
    [] hits # {} /\ more = {} -> <<fst>>
    [] OTHER -> <<fst, CHOOSE j \in more : \A k \in more : j <= k>>

Next ==
  \/ \E item \in 0..Amount - 1, values \in SUBSET (0..Bits - 1) : values # {} /\ AddArray(item, values)
  \/ Build

Spec == Init /\ [][Next]_vars

-----------------------------------------------------------------------------
\* In the file that was built every item reads back as the values added to it,
\* wherever its bits begin and end in the words, and First2At finds the first two
\* of them from any value on (fixed_size.go).
BitmapsReadBack ==
  built => \A item \in 0..Amount - 1 :
    /\ At(item) = listed[item]
    /\ \A after \in 0..Bits :
         LET rest == {v \in listed[item] : v >= after}
             f == First2At(item, after) IN
         /\ Len(f) = IF Cardinality(rest) < 2 THEN Cardinality(rest) ELSE 2
         /\ \A i \in DOMAIN f : f[i] \in rest /\ Cardinality({v \in rest : v < f[i]}) = i - 1
=============================================================================
