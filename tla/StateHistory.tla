---------------------------- MODULE StateHistory ----------------------------
(* What a History of state/ holds and answers (history.go, with the         *)
(* InvertedIndex below it): changes go through a buffer to three tables of  *)
(* the database, from there to the files of a step, and into merged files;  *)
(* pruning, unwinding and crashes take entries away.  For every change the  *)
(* history keeps the value from BEFORE it, so that the value of a key as of *)
(* txNum t is the one kept with the first change at or after t.             *)
(*                                                                          *)
(* Keys and values are numbers; value 0 is the empty value.  Every history  *)
(* behaves like the one here.  Which files readers get, and when files go,  *)
(* is HistoryFiles; here a file is there until it is merged.                *)
EXTENDS FileRanges, TLC

CONSTANTS
    Keys,             \* a finite set of numbers
    AggregationStep,
    MaxTxNum,         \* bound on txNum
    Batches,          \* what a txNum may change: sets of functions from keys to "put", "del"
    PruneLimits,      \* the limits given to Prune; 0 is no limit
    Budgets           \* bounds on how often each of Bounded happens: one is chosen at the start

Bounded == {"execute", "unwind", "crash", "prune"}

SizesArePositive ==
    /\ AggregationStep \in Nat \ {0} /\ Keys \subseteq Nat
    /\ Budgets \subseteq [Bounded -> Nat]

VARIABLES
    mem,    \* the execution: state, past and the buffer of writes
    db,     \* the tables as the read-write transaction has them
    disk,   \* the tables as committed
    files,  \* the files, each with the index (ef) and the values (v)
    left    \* how often the bounded events may still happen

vars == <<mem, db, disk, files, left>>

Empty == 0
NoWrites == [keys |-> {}, index |-> {}, vals |-> <<>>]

(* The tables: keys holds txNum -> key+valNum, index holds key -> txNum,    *)
(* vals holds valNum -> value.  state is PlainState.  past is not in the    *)
(* code: past[t + 1] is what the state was before txNum t.                  *)
Genesis == [k \in Keys |-> Empty]
NoTables == NoWrites @@ [count |-> 0, state |-> Genesis, past |-> <<Genesis>>]

TxNum(s) == Len(s.past) - 1
Ordered(keys) == SetToSortSeq(keys, <)
Changed(s, k, t) == s.past[t + 1][k] # s.past[t + 2][k]
ChangesOf(s, k) == {t \in 0..TxNum(s) - 1 : Changed(s, k, t)}

StartTxNum(f) == f.from * AggregationStep
EndTxNum(f) == f.to * AggregationStep
FilesEnd == EndOf(files) * AggregationStep
-----------------------------------------------------------------------------
(* Writing.                                                                 *)

AddPrevValue(w, t, k, original) ==
    LET n == IF original = Empty THEN 0 ELSE w.count + 1
    IN  [ keys  |-> w.keys \cup {<<t, k, n>>},
          index |-> w.index \cup {<<k, t>>},
          vals  |-> IF n = 0 THEN w.vals ELSE w.vals @@ (n :> original),
          count |-> IF n = 0 THEN w.count ELSE n ]

\* Not of the program: the bounds of the instance.
Use(event) == left[event] > 0 /\ left' = [left EXCEPT ![event] = @ - 1]

\* A txNum is executed: AddPrevValue for every key it changes.
Execute ==
    /\ TxNum(mem) < MaxTxNum
    /\ Use("execute")
    /\ \E batch \in Batches :
         LET t    == TxNum(mem)
             new  == [k \in Keys |-> CASE k \notin DOMAIN batch -> mem.state[k]
                                       [] k \in DOMAIN batch /\ batch[k] = "put" -> t + 1
                                       [] k \in DOMAIN batch /\ batch[k] = "del" -> Empty]
             wal  == FoldLeft(LAMBDA w, k : AddPrevValue(w, t, k, mem.state[k]), mem.wal,
                              Ordered({k \in Keys : new[k] # mem.state[k]}))
         IN  mem' = [ wal |-> wal, state |-> new, past |-> Append(mem.past, new) ]
    /\ UNCHANGED <<db, disk, files>>

\* Rotate and Flush, between two txNums.  The state is flushed with it.
Flush ==
    /\ mem.past # db.past
    /\ db' = [ keys |-> db.keys \cup mem.wal.keys, index |-> db.index \cup mem.wal.index,
               vals |-> mem.wal.vals @@ db.vals, count |-> mem.wal.count,
               state |-> mem.state, past |-> mem.past ]
    /\ mem' = [mem EXCEPT !.wal = NoWrites @@ [count |-> @.count]]
    /\ UNCHANGED <<disk, files, left>>

Commit ==
    /\ disk # db
    /\ disk' = db
    /\ UNCHANGED <<mem, db, files, left>>

\* The process ends without a commit; the next one starts with newWriter.
Crash ==
    /\ mem.past # disk.past
    /\ Use("crash")
    /\ db' = disk
    /\ mem' = [ wal |-> NoWrites @@ [count |-> disk.count], state |-> disk.state, past |-> disk.past ]
    /\ UNCHANGED <<disk, files>>
-----------------------------------------------------------------------------
(* Pruning and unwinding.                                                   *)

\* The entries of txNums in txFrom..txTo-1 are deleted from the three tables.
Without(s, txFrom, txTo) ==
    LET gone == {e \in s.keys : txFrom <= e[1] /\ e[1] < txTo}
        kept == DOMAIN s.vals \ {e[3] : e \in gone}
    IN  [s EXCEPT !.keys = @ \ gone,
                  !.index = @ \ {<<e[2], e[1]>> : e \in gone},
                  !.vals = [n \in kept |-> @[n]]]

FirstTxNum(s) == Min({e[1] : e \in s.keys})

Prune ==
    /\ db.keys # {} /\ FirstTxNum(db) < FilesEnd
    /\ Use("prune")
    /\ \E limit \in PruneLimits :
         LET txTo == IF limit = 0 THEN FilesEnd ELSE Min({FilesEnd, FirstTxNum(db) + limit})
         IN  db' = Without(db, FirstTxNum(db), txTo)
    /\ UNCHANGED <<mem, disk, files>>

LastTxNum(s) == IF s.keys = {} THEN 0 ELSE Max({e[1] : e \in s.keys})

\* What the caller respects: no step that is in files, or could be put there
\* meanwhile, is unwound.
MayUnwind(to) == to >= FilesEnd /\ to >= (LastTxNum(disk) \div AggregationStep) * AggregationStep

KeptValue(s, n) == IF n = 0 THEN Empty ELSE s.vals[n]

\* Mutant: the newest of the collected entries wins.
StateChangesNewest(s, to) ==
    [k \in {e[2] : e \in {x \in s.keys : x[1] >= to}} |->
        LET newest == CHOOSE e \in s.keys :
                        /\ e[2] = k
                        /\ \A x \in s.keys : x[2] = k => e[1] >= x[1]
        IN  KeptValue(s, newest[3])]

\* pruneF collects the value kept with every entry that it deletes;
\* OldestEntryBuffer keeps the first one of each key.
StateChanges(s, to) ==
    [k \in {e[2] : e \in {x \in s.keys : x[1] >= to}} |->
        LET oldest == CHOOSE e \in s.keys :
                        /\ e[2] = k /\ e[1] >= to
                        /\ \A x \in s.keys : x[2] = k /\ x[1] >= to => e[1] <= x[1]
        IN  KeptValue(s, oldest[3])]

\* A history of accounts or of storage: Unwind leaves the history of code alone.
Unwind ==
    /\ mem.past = db.past
    /\ Use("unwind")
    /\ \E to \in 0..TxNum(mem) - 1 :
         /\ MayUnwind(to)
         /\ LET past  == SubSeq(mem.past, 1, to + 1)
                state == StateChanges(db, to) @@ mem.state
            IN  /\ db' = [Without(db, to, MaxTxNum + 1) EXCEPT !.state = state, !.past = past]
                /\ mem' = [mem EXCEPT !.state = state, !.past = past]
    /\ UNCHANGED <<disk, files>>
-----------------------------------------------------------------------------
(* Files.  ef has the txNums of each key, v the values in the order of the  *)
(* keys and, for a key, of its txNums; the index of v finds a value by      *)
(* txNum and key, that is, by its place in this order.                      *)

KeysOf(f) == {k \in Keys : f.ef[k] # <<>>}
Before(f, k) == FoldFunctionOnSet(LAMBDA s, n : n + Len(s), 0, f.ef, {j \in Keys : j < k})
ValuesOf(f, k) == SubSeq(f.v, Before(f, k) + 1, Before(f, k) + Len(f.ef[k]))
ValueAt(f, k, n) == f.v[Before(f, k) + (CHOOSE i \in DOMAIN f.ef[k] : f.ef[k][i] = n)]

\* SeekBothRange finds the first entry of the txNum and the key.
DbValue(s, k, t) == KeptValue(s, Min({e[3] : e \in {x \in s.keys : x[1] = t /\ x[2] = k}}))

Collate(s, step) ==
    LET txNums(k) == {e[1] : e \in {x \in s.keys :
                        x[2] = k /\ x[1] >= step * AggregationStep /\ x[1] < (step + 1) * AggregationStep}}
        ef == [k \in Keys |-> Ordered(txNums(k))]
    IN  [ from |-> step, to |-> step + 1, ef |-> ef,
          v |-> FlattenSeq([i \in 1..Cardinality(Keys) |->
                  LET k == Ordered(Keys)[i] IN [j \in DOMAIN ef[k] |-> DbValue(s, k, ef[k][j])]]) ]

\* The builder reads what is committed, a step that is complete there.
Build ==
    LET step == EndOf(files)
    IN  /\ step < LastTxNum(disk) \div AggregationStep
        /\ files' = files \cup {Collate(disk, step)}
        /\ UNCHANGED <<mem, db, disk, left>>

MergedEf(outs) == [k \in Keys |-> FlattenSeq([i \in DOMAIN outs |-> outs[i].ef[k]])]

\* Mutant: the cursors of the values are in the order of those of the index,
\* the last file first.
MergedValuesReversed(outs) ==
    FlattenSeq([j \in 1..Cardinality(Keys) |->
        FlattenSeq([i \in DOMAIN outs |-> ValuesOf(Reverse(outs)[i], Ordered(Keys)[j])])])

MergedValues(outs) ==
    FlattenSeq([j \in 1..Cardinality(Keys) |->
        FlattenSeq([i \in DOMAIN outs |-> ValuesOf(outs[i], Ordered(Keys)[j])])])

MergeFiles(outs, r) ==
    [ from |-> r.from, to |-> r.to, ef |-> MergedEf(outs), v |-> MergedValues(outs) ]

Merge ==
    LET r == IndexMergeRange(files, EndOf(files))
        outs == StaticFilesInRange(files, r)
    IN  /\ r.any
        /\ files' = (files \ ToSet(outs)) \cup {MergeFiles(outs, r)}
        /\ UNCHANGED <<mem, db, disk, left>>
-----------------------------------------------------------------------------
(* Reading, from the files and a transaction on s.                          *)

NoKey == -1
NotFound == [found |-> FALSE, value |-> Empty]
Found(value) == [found |-> TRUE, value |-> value]

FileTxNums(f, k, t) == {n \in ToSet(f.ef[k]) : n >= t}
DbTxNums(s, k, t) == {n \in 0..MaxTxNum : n >= t /\ <<k, n>> \in s.index}

\* The first of the files fs that has a txNum of k at or after t.
FindInFiles(fs, k, t) ==
    LET hits == SelectSeq(Walk(fs), LAMBDA f : FileTxNums(f, k, t) # {})
    IN  IF hits = <<>> THEN NotFound
        ELSE Found(ValueAt(hits[1], k, Min(FileTxNums(hits[1], k, t))))

FindInDb(s, k, t) ==
    IF DbTxNums(s, k, t) = {} THEN NotFound ELSE Found(DbValue(s, k, Min(DbTxNums(s, k, t))))

GetNoState(k, t) == FindInFiles(files, k, t)

GetNoStateWithRecent(s, k, t) ==
    IF GetNoState(k, t).found THEN GetNoState(k, t) ELSE FindInDb(s, k, t)

\* The iterators return the keys in order, so that a function from keys to
\* values says what they return.
Answers(found) == [k \in {j \in DOMAIN found : found[j].found} |-> found[k].value]

\* A file is left at the first key that is not below "to", but its first key
\* is not compared.
Visited(f, to) == {k \in KeysOf(f) : to = NoKey \/ k < to \/ k = Min(KeysOf(f))}

\* Mutant: of equal keys the one in the database is returned.
WalkAsOfRecentFirst(s, t, from, to) ==
    LET keys    == {k \in Keys : from = NoKey \/ k >= from}
        inFiles == [k \in keys |->
                      FindInFiles({f \in files : EndTxNum(f) > t /\ k \in Visited(f, to)}, k, t)]
        inDb    == [k \in keys |-> IF to = NoKey \/ k < to THEN FindInDb(s, k, t) ELSE NotFound]
    IN  Answers(inDb) @@ Answers(inFiles)

WalkAsOf(s, t, from, to) ==
    LET keys    == {k \in Keys : from = NoKey \/ k >= from}
        inFiles == [k \in keys |->
                      FindInFiles({f \in files : EndTxNum(f) > t /\ k \in Visited(f, to)}, k, t)]
        inDb    == [k \in keys |-> IF to = NoKey \/ k < to THEN FindInDb(s, k, t) ELSE NotFound]
    IN  Answers(inFiles) @@ Answers(inDb)

\* Mutant: a file that ends where the range starts is not passed over, one
\* that holds its start is.
OverlapsLate(f, start, end) == StartTxNum(f) >= start /\ StartTxNum(f) < end

Overlaps(f, start, end) == EndTxNum(f) > start /\ StartTxNum(f) < end

ChangedInFiles(k, start, end) ==
    FindInFiles({f \in files : /\ Overlaps(f, start, end)
                               /\ \E n \in FileTxNums(f, k, start) : n < end}, k, start)

ChangedInDb(s, k, start, end) ==
    IF \E n \in DbTxNums(s, k, start) : n < end THEN FindInDb(s, k, start) ELSE NotFound

IterateChanged(s, start, end) ==
    LET inFiles == Answers([k \in Keys |-> ChangedInFiles(k, start, end)])
        inDb    == Answers([k \in Keys |-> ChangedInDb(s, k, start, end)])
    IN  IF \E f \in files : EndTxNum(f) >= end THEN inFiles ELSE inFiles @@ inDb

\* Mutant: the last txNum of a key has to be after the start.
IterateChangedKeysAfter(s, start, end) ==
    LET inFiles == {k \in Keys : \E f \in files :
                      /\ Overlaps(f, start, end)
                      /\ f.ef[k] # <<>> /\ f.ef[k][1] < end /\ Last(f.ef[k]) > start}
        inDb    == {k \in Keys : DbTxNums(s, k, start) # {} /\ Min(DbTxNums(s, k, start)) < end}
    IN  IF \E f \in files : Overlaps(f, start, end) /\ EndTxNum(f) >= end THEN inFiles
        ELSE inFiles \cup inDb

\* Of a file only the first and the last txNum of a key are looked at.
IterateChangedKeys(s, start, end) ==
    LET inFiles == {k \in Keys : \E f \in files :
                      /\ Overlaps(f, start, end)
                      /\ f.ef[k] # <<>> /\ f.ef[k][1] < end /\ Last(f.ef[k]) >= start}
        inDb    == {k \in Keys : DbTxNums(s, k, start) # {} /\ Min(DbTxNums(s, k, start)) < end}
    IN  IF \E f \in files : Overlaps(f, start, end) /\ EndTxNum(f) >= end THEN inFiles
        ELSE inFiles \cup inDb

\* IterateRecentlyChanged reads only the database; the first txNum at or after
\* start is not compared with end.
IterateRecentlyChanged(s, start, end) ==
    LET first   == Min({e[1] : e \in {x \in s.keys : x[1] >= start}})
        entries == {e \in s.keys : e[1] >= start /\ (e[1] < end \/ e[1] = first)}
    IN  [k \in {e[2] : e \in entries} |->
            DbValue(s, k, Min({e[1] : e \in {x \in entries : x[2] = k}}))]

Descending(S) == Reverse(Ordered(S))

\* Mutant: a range that ends a step after the files is read from files only.
IterateRangeAscStep(s, k, start, end) ==
    LET stack  == {f \in files : (end < 0 \/ StartTxNum(f) < end) /\ (start < 0 \/ EndTxNum(f) > start)}
        within(S) == {n \in S : n >= start /\ (end < 0 \/ n < end)}
        inDb   == stack = {} \/ end < 0 \/ EndTxNum(Last(Walk(stack))) + AggregationStep < end
    IN  Ordered(within(UNION {ToSet(f.ef[k]) : f \in stack}))
          \o (IF inDb THEN Ordered(within(DbTxNums(s, k, 0))) ELSE <<>>)

\* IterateRange.  -1 for start or end is no bound.  Ascending, [start, end);
\* descending, from start down to end + 1.
IterateRangeAsc(s, k, start, end) ==
    LET stack  == {f \in files : (end < 0 \/ StartTxNum(f) < end) /\ (start < 0 \/ EndTxNum(f) > start)}
        within(S) == {n \in S : n >= start /\ (end < 0 \/ n < end)}
        inDb   == stack = {} \/ end < 0 \/ EndTxNum(Last(Walk(stack))) < end
    IN  Ordered(within(UNION {ToSet(f.ef[k]) : f \in stack}))
          \o (IF inDb THEN Ordered(within(DbTxNums(s, k, 0))) ELSE <<>>)

IterateRangeDesc(s, k, start, end) ==
    LET stack  == {f \in files : (end < 0 \/ EndTxNum(f) > end) /\ (start < 0 \/ StartTxNum(f) <= start)}
        within(S) == {n \in S : n > end /\ start >= 0 /\ n <= start}
        inDb   == stack = {} \/ start < 0 \/ EndTxNum(Last(Walk(stack))) < start
    IN  (IF inDb THEN Descending(within(DbTxNums(s, k, 0))) ELSE <<>>)
          \o Descending(within(UNION {ToSet(f.ef[k]) : f \in stack}))
-----------------------------------------------------------------------------
Init ==
    /\ SizesArePositive
    /\ mem = [ wal |-> NoWrites @@ [count |-> 0], state |-> Genesis, past |-> <<Genesis>> ]
    /\ db = NoTables
    /\ disk = NoTables
    /\ files = {}
    /\ left \in Budgets

Next == Execute \/ Flush \/ Commit \/ Crash \/ Prune \/ Unwind \/ Build \/ Merge

Spec == Init /\ [][Next]_vars
-----------------------------------------------------------------------------

(* Properties.                                                              *)

TxNums == 0..TxNum(disk)
InHistory(k, start, end) == \E n \in ChangesOf(disk, k) : start <= n /\ n < end

(* What GetNoStateWithRecent answers for a committed transaction is the     *)
(* value of the key before txNum, and nothing is found exactly for a key    *)
(* that has not changed since (its value is then the one in PlainState) -   *)
(* whatever part of the history is in the database, in files or in both.    *)
ReadsAsOf ==
    \A k \in Keys, t \in TxNums :
        GetNoStateWithRecent(disk, k, t) =
            IF InHistory(k, t, TxNum(disk)) THEN Found(disk.past[t + 1][k]) ELSE NotFound

(* WalkAsOf from a key on returns the keys that have changed since txNum,   *)
(* each once, with the value from before txNum.                             *)
WalksAsOf ==
    \A t \in TxNums, from \in Keys :
        WalkAsOf(disk, t, from, NoKey) =
            [k \in {j \in Keys : j >= from /\ InHistory(j, t, TxNum(disk))} |-> disk.past[t + 1][k]]

(* IterateChanged returns the keys that changed in [start, end) with their  *)
(* values from before start, also where the range is partly in files.       *)
ChangedValues ==
    \A start, end \in TxNums : start <= end =>
        IterateChanged(disk, start, end) =
            [k \in {j \in Keys : InHistory(j, start, end)} |-> disk.past[start + 1][k]]

(* IterateChangedKeys and, as long as the changes are in the database,      *)
(* IterateRecentlyChanged miss no key that changed in [start, end), and the *)
(* latter has the value from before start.                                  *)
NoChangeMissed ==
    \A start, end \in TxNums, k \in Keys :
        start <= end /\ InHistory(k, start, end) =>
            /\ k \in IterateChangedKeys(disk, start, end)
            /\ ChangesOf(disk, k) \subseteq DbTxNums(disk, k, 0) =>
                 LET recent == IterateRecentlyChanged(disk, start, end)
                 IN  k \in DOMAIN recent /\ recent[k] = disk.past[start + 1][k]

Pruned == \A e \in disk.keys : e[1] >= FilesEnd
RangeAsc(k, start, end) == Ordered({n \in ChangesOf(disk, k) : n >= start /\ (end < 0 \/ n < end)})
RangeDesc(k, start, end) == Descending({n \in ChangesOf(disk, k) : (start < 0 \/ n <= start) /\ n > end})
RangeEnds == TxNums \cup {-1}

(* Once the database is pruned up to the end of the files, IterateRange     *)
(* returns the txNums of a key in [start, end) in order, each once, and     *)
(* descending those from start down, unless start is where the files end.   *)
RangesWhenPruned ==
    Pruned => \A k \in Keys, a, b \in RangeEnds :
        /\ a <= b \/ b = -1 => IterateRangeAsc(disk, k, a, b) = RangeAsc(k, a, b)
        /\ a >= b /\ a \notin {-1, FilesEnd} => IterateRangeDesc(disk, k, a, b) = RangeDesc(k, a, b)

(* What changed in a range is found, by every one of these readers.         *)
ChangesFound == ChangedValues /\ NoChangeMissed /\ RangesWhenPruned

(* Unwind gives every key the value that it had before the txNum unwound    *)
(* to: the values kept in the history are enough to undo what was executed. *)
UnwindRestores == mem.state = Last(mem.past) /\ db.state = Last(db.past)
=============================================================================
