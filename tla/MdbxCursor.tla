----------------------------- MODULE MdbxCursor -----------------------------
(***************************************************************************)
(* The tables of kv/mdbx: what a cursor of MdbxTx writes and reads.        *)
(*                                                                         *)
(* A plain table holds one value a key, a dup-sorted one a sorted set of   *)
(* values a key.  A table with AutoDupSortKeysConversion ("auto") is a     *)
(* dup-sorted table that behaves as a plain one: a key of DupFromLen bytes *)
(* is cut after DupToLen bytes and its rest is put before the value; keys  *)
(* shorter than DupToLen are stored as they are.                           *)
(*                                                                         *)
(* rows is what MDBX stores (external, modelled by how the cursor uses     *)
(* it), a set of pairs ordered by key and value; table is what the callers *)
(* of Put, Delete and Append are entitled to: key -> value, for a          *)
(* dup-sorted table the set of its pairs.                                  *)
(***************************************************************************)
EXTENDS Integers, Sequences, FiniteSets

CONSTANTS
  Kinds,        \* the kinds of table to start with: "plain", "auto", "dup"
  DupFromLen, DupToLen,
  MaxByte,      \* 0xFF
  KeysOf,       \* kind -> the keys written
  Vals,         \* the values written
  Seeks,        \* the keys, bounds and prefixes read with; contains <<>>
  Limits        \* the limits of ranges; contains -1, no limit

VARIABLES kind, rows, table

vars == <<kind, rows, table>>

-----------------------------------------------------------------------------
(* Byte strings and MDBX.                                                  *)

IsPrefix(a, b) == Len(a) <= Len(b) /\ SubSeq(b, 1, Len(a)) = a

Less(a, b) ==
  \/ a # b /\ IsPrefix(a, b)
  \/ \E i \in DOMAIN a \intersect DOMAIN b :
       a[i] < b[i] /\ SubSeq(a, 1, i - 1) = SubSeq(b, 1, i - 1)
LessEq(a, b) == a = b \/ Less(a, b)

RowLess(r, s) == Less(r[1], s[1]) \/ (r[1] = s[1] /\ Less(r[2], s[2]))

\* The first and the last row of a set as a sequence of one, <<>> for none
\* (MDBX_NOTFOUND).
First(R) == IF R = {} THEN <<>>
            ELSE <<CHOOSE r \in R : \A s \in R \ {r} : RowLess(r, s)>>
Last(R) == IF R = {} THEN <<>>
           ELSE <<CHOOSE r \in R : \A s \in R \ {r} : RowLess(s, r)>>

setRange(R, k) == First({r \in R : LessEq(k, r[1])})
set(R, k) == First({r \in R : r[1] = k})
getBoth(R, k, v) == First({r \in R : r = <<k, v>>})
getBothRange(R, k, v) == First({r \in R : r[1] = k /\ LessEq(v, r[2])})
next(R, row) == First({r \in R : RowLess(row, r)})
prev(R, row) == Last({r \in R : RowLess(r, row)})
nextDup(R, row) == First({r \in R : r[1] = row[1] /\ RowLess(row, r)})
prevDup(R, row) == Last({r \in R : r[1] = row[1] /\ RowLess(r, row)})
nextNoDup(R, row) == First({r \in R : Less(row[1], r[1])})
prevNoDup(R, row) == Last({r \in R : Less(r[1], row[1])})
delAllDupData(R, k) == {r \in R : r[1] # k}

\* put: a plain table has one row a key.
put(R, k, v) == (IF kind = "plain" THEN delAllDupData(R, k) ELSE R) \union {<<k, v>>}

-----------------------------------------------------------------------------
(* The conversion of keys.                                                 *)

KeyPart == DupFromLen - DupToLen
Rest(k) == SubSeq(k, DupToLen + 1, Len(k))
Cut(k) == SubSeq(k, 1, DupToLen)

\* The record of a row, on the way out of a cursor.
Converted(row) ==
  IF kind = "auto" /\ Len(row[1]) = DupToLen
  THEN <<row[1] \o SubSeq(row[2], 1, KeyPart), SubSeq(row[2], KeyPart + 1, Len(row[2]))>>
  ELSE row

WrongLength(k) == Len(k) # DupFromLen /\ Len(k) >= DupToLen

\* putDupSort that leaves the row of the key where it is.
putDupSortBeside(R, k, v) ==
  CASE WrongLength(k) -> R
    [] Len(k) < DupToLen -> delAllDupData(R, k) \union {<<k, v>>}
    [] Len(k) = DupFromLen -> R \union {<<Cut(k), Rest(k) \o v>>}

putDupSort(R, k, v) ==
  CASE WrongLength(k) -> R
    [] Len(k) < DupToLen -> delAllDupData(R, k) \union {<<k, v>>}
    [] Len(k) = DupFromLen ->
         LET value == Rest(k) \o v
             at == getBothRange(R, Cut(k), Rest(k)) IN
         IF at # <<>> /\ SubSeq(at[1][2], 1, KeyPart) = Rest(k)
         THEN (R \ {at[1]}) \union {<<Cut(k), value>>}   \* putCurrent, or delCurrent and put
         ELSE R \union {<<Cut(k), value>>}

deleteDupSort(R, k) ==
  CASE WrongLength(k) -> R
    [] Len(k) < DupToLen -> LET at == set(R, k) IN IF at = <<>> THEN R ELSE R \ {at[1]}
    [] Len(k) = DupFromLen ->
         LET at == getBothRange(R, Cut(k), Rest(k)) IN
         IF at # <<>> /\ SubSeq(at[1][2], 1, KeyPart) = Rest(k) THEN R \ {at[1]} ELSE R

-----------------------------------------------------------------------------
(* Writing.                                                                *)

Init ==
  /\ kind \in Kinds /\ rows = {} /\ table = {}

Keys == KeysOf[kind]
Entitled(k, v) == (IF kind = "dup" THEN table ELSE delAllDupData(table, k)) \union {<<k, v>>}

Put(k, v) ==
  /\ rows' = IF kind = "auto" THEN putDupSort(rows, k, v) ELSE put(rows, k, v)
  /\ table' = IF kind = "auto" /\ WrongLength(k) THEN table ELSE Entitled(k, v)
  /\ UNCHANGED kind

Delete(k) ==
  /\ rows' = IF kind = "auto" THEN deleteDupSort(rows, k) ELSE delAllDupData(rows, k)
  /\ table' = delAllDupData(table, k)
  /\ UNCHANGED kind

\* Append, of a key past the end of the table; Append and AppendDup of a dup-sorted
\* table also take another value after the last one of the last key.
PastEnd(k, v) ==
  \A r \in table : Less(r[1], k) \/ (kind = "dup" /\ r[1] = k /\ Less(r[2], v))
AppendRow(k, v) ==
  /\ PastEnd(k, v)
  /\ rows' = IF kind = "auto"
             THEN IF WrongLength(k) THEN rows
                  ELSE rows \union {IF Len(k) = DupFromLen THEN <<Cut(k), Rest(k) \o v>>
                                    ELSE <<k, v>>}
             ELSE rows \union {<<k, v>>}
  /\ table' = IF kind = "auto" /\ WrongLength(k) THEN table ELSE Entitled(k, v)
  /\ UNCHANGED kind

\* PutNoOverwrite: not implemented for converted keys.
PutNoOverwrite(k, v) ==
  /\ kind # "auto" /\ set(rows, k) = <<>>
  /\ rows' = put(rows, k, v) /\ table' = Entitled(k, v)
  /\ UNCHANGED kind

\* DeleteCurrent where Seek left the cursor.
DeleteCurrent(k) ==
  /\ kind = "plain" /\ setRange(rows, k) # <<>>
  /\ rows' = rows \ {setRange(rows, k)[1]}
  /\ table' = table \ {setRange(rows, k)[1]}
  /\ UNCHANGED kind

\* The cursor of a dup-sorted table: PutNoDupData refuses a pair that is there,
\* DeleteExact deletes one pair, DeleteCurrentDuplicates the values of the key the
\* cursor is at.
PutNoDupData(k, v) ==
  /\ kind = "dup" /\ getBoth(rows, k, v) = <<>>
  /\ rows' = put(rows, k, v) /\ table' = Entitled(k, v)
  /\ UNCHANGED kind

DeleteExact(k, v) ==
  /\ kind = "dup"
  /\ LET at == getBoth(rows, k, v) IN rows' = IF at = <<>> THEN rows ELSE rows \ {at[1]}
  /\ table' = table \ {<<k, v>>}
  /\ UNCHANGED kind

DeleteCurrentDuplicates(k) ==
  /\ kind = "dup" /\ setRange(rows, k) # <<>>
  /\ rows' = delAllDupData(rows, setRange(rows, k)[1][1])
  /\ table' = delAllDupData(table, setRange(rows, k)[1][1])
  /\ UNCHANGED kind

Next ==
  \E k \in Keys :
    \/ Delete(k)
    \/ DeleteCurrent(k)
    \/ DeleteCurrentDuplicates(k)
    \/ \E v \in Vals : \/ Put(k, v)
                       \/ AppendRow(k, v)
                       \/ PutNoOverwrite(k, v)
                       \/ PutNoDupData(k, v)
                       \/ DeleteExact(k, v)

Spec == Init /\ [][Next]_vars

-----------------------------------------------------------------------------
(* Reading: a cursor is at a row, a result is <<>> or a sequence of one row. *)

\* seekDupSort: the first DupToLen bytes choose the row, the rest the value; when
\* no value of that row is far enough, the row after it.
seekDupSort(R, seek) ==
  IF seek = <<>> THEN First(R)
  ELSE LET seek1 == IF Len(seek) > DupToLen THEN Cut(seek) ELSE seek
           at == setRange(R, seek1) IN
       IF at = <<>> \/ Len(seek) <= DupToLen \/ at[1][1] # seek1 THEN at
       ELSE LET both == getBothRange(R, seek1, Rest(seek)) IN
            IF both # <<>> THEN both ELSE nextNoDup(R, at[1])

Seek(R, seek) ==
  CASE kind = "auto" -> seekDupSort(R, seek)
    [] kind # "auto" /\ seek = <<>> -> First(R)
    [] OTHER -> setRange(R, seek)

\* What a cursor hands out of a row it came to: the row and its record.
Out(at) == IF at = <<>> THEN <<>> ELSE <<at[1], Converted(at[1])>>

\* SeekExact: nothing for another key.  Of a long converted key it hands out the
\* first DupToLen bytes, with the value.
SeekExact(R, key) ==
  IF kind = "auto" /\ Len(key) = DupFromLen
  THEN LET at == getBothRange(R, Cut(key), Rest(key)) IN
       IF at # <<>> /\ SubSeq(at[1][2], 1, KeyPart) = Rest(key)
       THEN <<at[1], <<Cut(key), Converted(at[1])[2]>>>>
       ELSE <<>>
  ELSE LET at == set(R, key) IN IF at = <<>> THEN <<>> ELSE <<at[1], at[1]>>

GetOne(R, key) == LET at == SeekExact(R, key) IN IF at = <<>> THEN <<>> ELSE <<at[2][2]>>
Has(R, key) == LET at == Seek(R, key) IN at # <<>> /\ Converted(at[1])[1] = key

\* ForEach, ForPrefix and ForAmount: Seek and Next with a walker that goes on.
RECURSIVE Walked(_, _)
Walked(R, at) ==
  IF at = <<>> THEN <<>> ELSE <<Converted(at[1])>> \o Walked(R, next(R, at[1]))
ForEach(R, fromPrefix) == Walked(R, Seek(R, fromPrefix))

RECURSIVE PrefixWalked(_, _, _)
PrefixWalked(R, at, prefix) ==
  IF at = <<>> \/ ~IsPrefix(prefix, Converted(at[1])[1]) THEN <<>>
  ELSE <<Converted(at[1])>> \o PrefixWalked(R, next(R, at[1]), prefix)
ForPrefix(R, prefix) == PrefixWalked(R, Seek(R, prefix), prefix)

RECURSIVE AmountWalked(_, _, _)
AmountWalked(R, at, amount) ==
  IF at = <<>> \/ amount = 0 THEN <<>>
  ELSE <<Converted(at[1])>> \o AmountWalked(R, next(R, at[1]), amount - 1)
ForAmount(R, fromPrefix, amount) ==
  IF amount = 0 THEN <<>> ELSE AmountWalked(R, Seek(R, fromPrefix), amount)

\* NextSubtree: the bytes plus one, without the bytes that are at their maximum;
\* <<>> when all of them are.
RECURSIVE NextSubtree(_)
NextSubtree(p) ==
  CASE p = <<>> -> <<>>
    [] p # <<>> /\ p[Len(p)] < MaxByte -> [p EXCEPT ![Len(p)] = @ + 1]
    [] OTHER -> NextSubtree(SubSeq(p, 1, Len(p) - 1))

\* cursor2iter: init reads ahead, HasNext asks the limit and the bound, Next moves.
\* No bound (nil) is <<>>.
iterInit(R, from, asc) ==
  CASE from = <<>> -> Out(IF asc THEN First(R) ELSE Last(R))
    [] from # <<>> /\ asc -> Out(Seek(R, from))
    [] OTHER -> LET at == SeekExact(R, from) IN
                IF at # <<>> THEN at ELSE Out(Last({r \in R : RowLess(r, <<from, <<>>>>)}))

HasNext(at, to, asc, limit) ==
  /\ limit # 0 /\ at # <<>>
  /\ to # <<>> => IF asc THEN Less(at[2][1], to) ELSE Less(to, at[2][1])

RECURSIVE Iterated(_, _, _, _, _)
Iterated(R, at, to, asc, limit) ==
  IF ~HasNext(at, to, asc, limit) THEN <<>>
  ELSE <<at[2]>>
         \o Iterated(R, Out(IF asc THEN next(R, at[1]) ELSE prev(R, at[1])), to, asc, limit - 1)

rangeOrderLimit(R, from, to, asc, limit) == Iterated(R, iterInit(R, from, asc), to, asc, limit)

Prefix(R, prefix) == rangeOrderLimit(R, prefix, NextSubtree(prefix), TRUE, -1)

\* The walks a dup-sorted cursor is used for: over the keys with NextNoDup or back
\* with PrevNoDup, over the values of each with NextDup or, from LastDup, PrevDup.
RECURSIVE DupsFrom(_, _)
DupsFrom(R, at) == IF at = <<>> THEN <<>> ELSE <<at[1]>> \o DupsFrom(R, nextDup(R, at[1]))
RECURSIVE DupsBefore(_, _)
DupsBefore(R, at) == IF at = <<>> THEN <<>> ELSE DupsBefore(R, prevDup(R, at[1])) \o <<at[1]>>
FirstDup(R, k) == First({r \in R : r[1] = k})
LastDup(R, k) == Last({r \in R : r[1] = k})
RECURSIVE KeysUp(_, _)
KeysUp(R, at) ==
  IF at = <<>> THEN <<>>
  ELSE DupsFrom(R, FirstDup(R, at[1][1])) \o KeysUp(R, nextNoDup(R, at[1]))
RECURSIVE KeysDown(_, _)
KeysDown(R, at) ==
  IF at = <<>> THEN <<>>
  ELSE KeysDown(R, prevNoDup(R, at[1])) \o DupsBefore(R, LastDup(R, at[1][1]))
CountDuplicates(R, k) == Cardinality({r \in R : r[1] = k})
SeekBothRange(R, k, v) == getBothRange(R, k, v)

-----------------------------------------------------------------------------
(* What the table is entitled to hold, in order.                           *)

RankOf(r, S) == Cardinality({s \in S : s = r \/ RowLess(s, r)})
Sorted(S) == [i \in 1..Cardinality(S) |-> CHOOSE r \in S : RankOf(r, S) = i]
Backwards(s) == [i \in DOMAIN s |-> s[Len(s) + 1 - i]]
Taken(s, n) == IF n < 0 \/ n >= Len(s) THEN s ELSE SubSeq(s, 1, n)
Between(lo, hi) == {r \in table : LessEq(lo, r[1]) /\ (hi # <<>> => Less(r[1], hi))}

\* Through the conversion of keys a table holds exactly what was put into it and not
\* deleted, one value a key: GetOne, Has, Seek, every walk and every ascending range
\* answer what the table it stands for would (kv_mdbx.go).  A seek longer than a key
\* is not asked: its bytes would be compared with a value; nor is GetOne of a key of
\* a length Put refuses: it would hand out a row as it is stored.
ReadsWhatWasPut ==
  /\ {Converted(r) : r \in rows} = table /\ Cardinality(rows) = Cardinality(table)
  /\ \A s \in Seeks :
       /\ kind = "plain" \/ (kind = "auto" /\ ~WrongLength(s)) =>
            GetOne(rows, s) = [i \in 1..CountDuplicates(table, s) |-> (CHOOSE r \in table : r[1] = s)[2]]
       /\ s # <<>> => (Has(rows, s) <=> \E r \in table : r[1] = s)
       /\ ForEach(rows, s) = Sorted(Between(s, <<>>))
       /\ ForPrefix(rows, s) = Sorted({r \in table : IsPrefix(s, r[1])})
       /\ Prefix(rows, s) = ForPrefix(rows, s)
       /\ \A n \in Limits \ {-1} : ForAmount(rows, s, n) = Taken(Sorted(Between(s, <<>>)), n)
       /\ \A t \in Seeks, n \in Limits :
            (s = <<>> \/ t = <<>> \/ Less(s, t)) =>
              rangeOrderLimit(rows, s, t, TRUE, n) = Taken(Sorted(Between(s, t)), n)

\* Descending ranges hold the keys up to and with the upper bound, down to but
\* without the lower one.  For tables with one value a key; with converted keys the
\* upper bound is none or a short key.
DescendingRanges ==
  kind # "dup" =>
    \A s, t \in Seeks, n \in Limits :
      (s = <<>> \/ t = <<>> \/ Less(t, s)) /\ (kind = "auto" => Len(s) < DupToLen) =>
        rangeOrderLimit(rows, s, t, FALSE, n)
          = Taken(Backwards(Sorted({r \in table : (s # <<>> => LessEq(r[1], s))
                                               /\ (t # <<>> => Less(t, r[1]))})), n)

\* The dup-sorted cursor's walks meet every pair once and in order, in both
\* directions.
DupWalks ==
  kind = "dup" =>
    /\ KeysUp(rows, First(rows)) = Sorted(table)
    /\ KeysDown(rows, Last(rows)) = Sorted(table)
    /\ \A k \in Keys, v \in Vals :
         SeekBothRange(rows, k, v) = First({r \in table : r[1] = k /\ LessEq(v, r[2])})

TableReads == ReadsWhatWasPut /\ DescendingRanges /\ DupWalks
=============================================================================
