------------------------------ MODULE Collector ------------------------------
(***************************************************************************)
(* Extract, transform, load (etl): a Collector takes records in any order, *)
(* sorts them a buffer at a time, spills full buffers to temporary files   *)
(* and merges everything into a table inside one write transaction.        *)
(*                                                                         *)
(* A record is a pair <<key, value>>; keys are numbers standing for one    *)
(* byte, values sequences of bytes, and the empty value asks for deletion. *)
(* A temporary file is its bytes: lengths and contents one after another.  *)
(* The table is the set of its pairs, so that tables with several values a *)
(* key are covered.  What job says is fixed for a behaviour: the buffer,   *)
(* who cleans up, the load function, the table found, and the source of a  *)
(* Transform (<<>> when the caller collects the records itself).           *)
(***************************************************************************)
EXTENDS Integers, Sequences, FiniteSets

CONSTANTS
  Keys, Vals,      \* what may be collected; Vals contains <<>>
  Jobs,            \* the possible values of job
  OptimalSize,     \* the size at which a buffer is flushed
  MaxRecords       \* bound: records collected

VARIABLES
  job,
  buf,         \* Collector.buf: the records in the order they were put
  providers,   \* Collector.dataProviders
  flushed,     \* Collector.allFlushed
  heap,        \* provider -> the record read ahead of it (absent: at its end)
  appending,   \* canUseAppend of the load under way: "unknown" before the first record
  prevK,       \* prevK of the load under way: <<key>>, or <<>>
  table,       \* the table inside the write transaction
  collected,   \* every record handed to the collector, in order
  cursor,      \* the position of extractBucketIntoFiles in the source
  phase        \* "collect", "load", "done", "failed", "restarted", "redone"

vars == <<job, buf, providers, flushed, heap, appending, prevK, table, collected,
          cursor, phase>>

NoHeap == [i \in {} |-> <<>>]

\* The order of byte strings.
Less(a, b) ==
  \/ Len(a) < Len(b) /\ SubSeq(b, 1, Len(a)) = a
  \/ \E i \in 1..Len(a) : i <= Len(b) /\ a[i] < b[i] /\ SubSeq(a, 1, i - 1) = SubSeq(b, 1, i - 1)

RECURSIVE SumSizes(_, _)
SumSizes(recs, cost) ==
  IF recs = <<>> THEN 0
  ELSE 1 + cost + Len(Head(recs)[2]) + SumSizes(Tail(recs), cost)

\* A stable sort by key, as ranks: every record goes after the smaller keys and
\* after the equal ones before it.
RankIn(recs, i) ==
  Cardinality({j \in DOMAIN recs : \/ recs[j][1] < recs[i][1]
                                   \/ recs[j][1] = recs[i][1] /\ j <= i})
SortStable(recs) ==
  [r \in DOMAIN recs |-> recs[CHOOSE i \in DOMAIN recs : RankIn(recs, i) = r]]

-----------------------------------------------------------------------------
(* The three buffers.                                                      *)

AppendPut(b, k, v) ==
  IF \E i \in DOMAIN b : b[i][1] = k
  THEN [i \in DOMAIN b |-> IF b[i][1] = k THEN <<k, b[i][2] \o v>> ELSE b[i]]
  ELSE Append(b, <<k, v>>)

OldestPut(b, k, v) ==
  IF \E i \in DOMAIN b : b[i][1] = k THEN b ELSE Append(b, <<k, v>>)

BufferPut(tp, b, k, v) ==
  CASE tp = "slice" -> Append(b, <<k, v>>)
    [] tp = "append" -> AppendPut(b, k, v)
    [] tp = "oldest" -> OldestPut(b, k, v)

\* CheckFlushSize: a slice buffer counts the bytes and its index, an append
\* buffer every key once, an oldest buffer every key twice.
SliceFull(b) == SumSizes(b, 1) >= OptimalSize
AppendFull(b) == SumSizes(b, 0) >= OptimalSize
OldestFull(b) == SumSizes(b, 1) >= OptimalSize
BufferFull(tp, b) ==
  CASE tp = "slice" -> SliceFull(b)
    [] tp = "append" -> AppendFull(b)
    [] tp = "oldest" -> OldestFull(b)

\* Write: every record as its key's length, key, value's length and value.
RECURSIVE Written(_)
Written(recs) ==
  IF recs = <<>> THEN <<>>
  ELSE <<1, Head(recs)[1], Len(Head(recs)[2])>> \o Head(recs)[2] \o Written(Tail(recs))

\* readElementFromDisk at a position of the file, with the position after it.
readElementFromDisk(bytes, pos) ==
  [rec |-> <<bytes[pos + 1], SubSeq(bytes, pos + 3, pos + 2 + bytes[pos + 2])>>,
   pos |-> pos + 3 + bytes[pos + 2]]

KeepInRAM(recs) == [ram |-> TRUE, recs |-> recs, bytes |-> <<>>, pos |-> 1]
FlushToDisk(recs) == [ram |-> FALSE, recs |-> <<>>, bytes |-> Written(recs), pos |-> 1]

\* dataProvider.Next: io.EOF when nothing is left.
AtEnd(p) == IF p.ram THEN p.pos > Len(p.recs) ELSE p.pos > Len(p.bytes)
NextOf(p) ==
  IF p.ram THEN [rec |-> p.recs[p.pos], pos |-> p.pos + 1]
  ELSE readElementFromDisk(p.bytes, p.pos)
MovedOn(p) == [p EXCEPT !.pos = NextOf(p).pos]

\* flushBuffer: the providers, the buffer and allFlushed after it.
flushBuffer(canStoreInRam, b, ps, done) ==
  CASE b = <<>> -> [providers |-> ps, buf |-> b, flushed |-> done]
    [] b # <<>> /\ canStoreInRam /\ ps = <<>> ->
         [providers |-> <<KeepInRAM(SortStable(b))>>, buf |-> b, flushed |-> TRUE]
    [] OTHER -> [providers |-> Append(ps, FlushToDisk(SortStable(b))), buf |-> <<>>,
                 flushed |-> done]

Flushed(r) == providers' = r.providers /\ buf' = r.buf /\ flushed' = r.flushed

\* extractNextFunc: put, and flush to disk when the buffer is full.
extractNextFunc(k, v) ==
  LET b == BufferPut(job.bufType, buf, k, v) IN
  /\ IF BufferFull(job.bufType, b)
     THEN Flushed(flushBuffer(FALSE, b, providers, flushed))
     ELSE buf' = b /\ UNCHANGED <<providers, flushed>>
  /\ collected' = Append(collected, <<k, v>>)

-----------------------------------------------------------------------------
Init ==
  /\ job \in Jobs
  /\ buf = <<>> /\ providers = <<>> /\ flushed = FALSE
  /\ heap = NoHeap /\ appending = "unknown" /\ prevK = <<>>
  /\ table = job.table
  /\ collected = <<>> /\ cursor = 1 /\ phase = "collect"

Collect(k, v) ==
  /\ phase = "collect" /\ job.source = <<>> /\ Len(collected) < MaxRecords
  /\ extractNextFunc(k, v)
  /\ UNCHANGED <<job, heap, appending, prevK, table, cursor, phase>>

\* Load up to the first records of mergeSortFiles: what is still in the buffer
\* becomes the last provider, and the heap gets one record of each.
StartLoad(ps) ==
  /\ heap' = [i \in DOMAIN ps |-> NextOf(ps[i]).rec]
  /\ providers' = [i \in DOMAIN ps |-> MovedOn(ps[i])]
  /\ appending' = "unknown" /\ prevK' = <<>> /\ phase' = "load"

Load ==
  /\ phase = "collect" /\ job.source = <<>>
  /\ LET r == IF flushed THEN [providers |-> providers, buf |-> buf, flushed |-> flushed]
              ELSE flushBuffer(TRUE, buf, providers, flushed) IN
     buf' = r.buf /\ flushed' = r.flushed /\ StartLoad(r.providers)
  /\ UNCHANGED <<job, table, collected, cursor>>

\* extractBucketIntoFiles, a record of the source at a time: up to endkey.
Extracting == phase = "collect" /\ job.source # <<>>
PastEnd == cursor <= Len(job.source) => job.source[cursor][1] >= job.endkey

Extract ==
  /\ Extracting /\ ~PastEnd
  /\ IF job.source[cursor][1] < job.startkey
     THEN UNCHANGED <<buf, providers, flushed, collected>>
     ELSE extractNextFunc(job.extract[job.source[cursor][1]], job.source[cursor][2])
  /\ cursor' = cursor + 1
  /\ UNCHANGED <<job, heap, appending, prevK, table, phase>>

\* The end of the source flushes, meeting endkey leaves that to Load; then
\* Transform loads.
ExtractEnds ==
  /\ Extracting /\ PastEnd
  /\ LET r == IF cursor > Len(job.source) THEN flushBuffer(TRUE, buf, providers, flushed)
              ELSE [providers |-> providers, buf |-> buf, flushed |-> flushed]
         s == IF r.flushed THEN r ELSE flushBuffer(TRUE, r.buf, r.providers, r.flushed) IN
     buf' = s.buf /\ flushed' = s.flushed /\ StartLoad(s.providers)
  /\ UNCHANGED <<job, table, collected, cursor>>

-----------------------------------------------------------------------------
(* What the cursor of the table does.                                      *)

KeysIn(t) == {p[1] : p \in t}
DeleteKey(t, k) == {p \in t : p[1] # k}
PutPair(t, k, v) == (IF job.dupSort THEN t ELSE DeleteKey(t, k)) \union {<<k, v>>}

\* Append and AppendDup refuse what is not past everything in the table.
AppendAllowed(t, k, v) ==
  IF job.dupSort
  THEN \A p \in t : p[1] < k \/ (p[1] = k /\ Less(p[2], v))
  ELSE \A p \in t : p[1] < k

isIdentityLoadFunc == job.loadFunc = "identity"

\* loadFunc: the identity, or the function callers give to merge with what the
\* table holds.
ToLoad(k, v) ==
  IF isIdentityLoadFunc \/ k \notin KeysIn(table) THEN v
  ELSE (CHOOSE p \in table : p[1] = k)[2] \o v

CanUseAppend(k) ==
  CASE appending = "unknown" ->
         IF isIdentityLoadFunc /\ \A x \in KeysIn(job.table) : x < k THEN "yes" ELSE "no"
    [] OTHER -> appending

\* loadNextFunc without the skipping of repeated keys.
loadNextAll(k, v) ==
  LET app == CanUseAppend(k) IN
  /\ appending' = app /\ prevK' = prevK
  /\ \/ v = <<>> /\ table' = (IF app = "yes" THEN table ELSE DeleteKey(table, k))
     \/ v # <<>> /\ (app = "yes" => AppendAllowed(table, k, v)) /\ table' = PutPair(table, k, v)

\* loadNextFunc, when it succeeds.
loadNextFunc(k, v) ==
  LET app == CanUseAppend(k)
      repeated == job.bufType = "oldest" /\ phase = "load" /\ prevK = <<k>>
      IN
  /\ appending' = app
  /\ prevK' = IF job.bufType = "oldest" /\ phase = "load" THEN <<k>> ELSE prevK
  /\ \/ repeated /\ table' = table
     \/ ~repeated /\ v = <<>> /\ table' = (IF app = "yes" THEN table ELSE DeleteKey(table, k))
     \/ /\ ~repeated /\ v # <<>>
        /\ app = "yes" => AppendAllowed(table, k, v)
        /\ table' = PutPair(table, k, v)

\* Heap.Less: the smallest key, of equal keys the earliest provider.
Top == CHOOSE i \in DOMAIN heap :
         \A j \in DOMAIN heap \ {i} : \/ heap[i][1] < heap[j][1]
                                      \/ heap[i][1] = heap[j][1] /\ i < j
Loading == phase \in {"load", "restarted"}

\* One turn of mergeSortFiles.
MergeNext ==
  /\ Loading /\ heap # NoHeap
  /\ LET i == Top
         p == providers[i] IN
     /\ loadNextFunc(heap[i][1], ToLoad(heap[i][1], heap[i][2]))
     /\ IF AtEnd(p)
        THEN heap' = [j \in DOMAIN heap \ {i} |-> heap[j]] /\ UNCHANGED providers
        ELSE /\ heap' = [heap EXCEPT ![i] = NextOf(p).rec]
             /\ providers' = [providers EXCEPT ![i] = MovedOn(p)]
  /\ UNCHANGED <<job, buf, flushed, collected, cursor, phase>>

\* Close: the files go and the buffer is reset.
Cleaned == ~job.critical \/ job.source # <<>>
Close == IF Cleaned THEN providers' = <<>> /\ buf' = <<>> /\ flushed' = FALSE
         ELSE UNCHANGED <<providers, buf, flushed>>

LoadDone ==
  /\ phase = "load" /\ heap = NoHeap
  /\ Close /\ phase' = "done"
  /\ UNCHANGED <<job, heap, appending, prevK, table, collected, cursor>>

RestartedDone ==
  /\ phase = "restarted" /\ heap = NoHeap
  /\ phase' = "redone"
  /\ UNCHANGED <<job, buf, providers, flushed, heap, appending, prevK, table, collected, cursor>>

\* Load returns an error, because it was told to quit (it asks before every record)
\* or the table refused the record; the caller rolls the transaction back.
LoadFails ==
  /\ phase = "load" /\ heap # NoHeap
  /\ Close /\ phase' = "failed" /\ table' = job.table /\ heap' = NoHeap
  /\ UNCHANGED <<job, appending, prevK, collected, cursor>>

\* The caller is told to quit while it collects.
ExtractFails ==
  /\ Extracting
  /\ Close /\ phase' = "failed"
  /\ UNCHANGED <<job, heap, appending, prevK, table, collected, cursor>>

\* NewCollectorFromFiles: the files a critical collector left, in the order of
\* their random names, without a buffer; then Load.
OnDisk == {i \in DOMAIN providers : ~providers[i].ram}
Orders(S) == {o \in [1..Cardinality(S) -> S] : \A a, b \in DOMAIN o : a # b => o[a] # o[b]}

NewCollectorFromFiles ==
  /\ phase = "failed" /\ job.critical /\ OnDisk # {}
  /\ \E o \in Orders(OnDisk) :
       LET ps == [i \in DOMAIN o |-> [providers[o[i]] EXCEPT !.pos = 1]] IN
       /\ heap' = [i \in DOMAIN ps |-> NextOf(ps[i]).rec]
       /\ providers' = [i \in DOMAIN ps |-> MovedOn(ps[i])]
  /\ buf' = <<>> /\ flushed' = TRUE /\ appending' = "unknown" /\ prevK' = <<>>
  /\ phase' = "restarted"
  /\ UNCHANGED <<job, table, collected, cursor>>

Next ==
  \/ \E k \in Keys, v \in Vals : Collect(k, v)
  \/ Load
  \/ Extract
  \/ ExtractEnds
  \/ MergeNext
  \/ LoadDone
  \/ RestartedDone
  \/ LoadFails
  \/ ExtractFails
  \/ NewCollectorFromFiles

Spec == Init /\ [][Next]_vars

-----------------------------------------------------------------------------
(* The record that decides what a key becomes, by the buffer's rule.       *)

ValuesOf(recs, k) == SelectSeq(recs, LAMBDA r : r[1] = k)
RECURSIVE Joined(_)
Joined(recs) == IF recs = <<>> THEN <<>> ELSE Head(recs)[2] \o Joined(Tail(recs))

\* The pairs of key k after its records rs were applied one by one to old.
RECURSIVE Replayed(_, _)
Replayed(rs, old) ==
  IF rs = <<>> THEN old
  ELSE Replayed(Tail(rs),
         IF Head(rs)[2] = <<>> THEN {}
         ELSE (IF job.dupSort THEN old ELSE {}) \union {Head(rs)})

PairsOf(t, k) == {p \in t : p[1] = k}
Merged(k) ==
  LET old == PairsOf(job.table, k)
      v == (IF old = {} THEN <<>> ELSE (CHOOSE p \in old : TRUE)[2])
             \o Joined(ValuesOf(collected, k)) IN
  IF v = <<>> THEN {} ELSE {<<k, v>>}

Expected(k) ==
  LET rs == ValuesOf(collected, k) IN
  CASE rs = <<>> -> PairsOf(job.table, k)
    [] rs # <<>> /\ job.loadFunc = "merge" -> Merged(k)
    [] rs # <<>> /\ job.loadFunc = "identity" /\ job.bufType = "oldest" ->
         Replayed(<<Head(rs)>>, PairsOf(job.table, k))
    [] OTHER -> Replayed(rs, PairsOf(job.table, k))

\* A key past the end of the table that is collected and then deleted: appending
\* takes the deletion for nothing to do.
DeletedAfterEnd ==
  /\ appending = "yes"
  /\ \E i, j \in DOMAIN collected :
       i < j /\ collected[i][1] = collected[j][1] /\ collected[j][2] = <<>>

\* The keys of a file.
RECURSIVE KeysFrom(_, _)
KeysFrom(bytes, pos) ==
  IF pos > Len(bytes) THEN {}
  ELSE LET e == readElementFromDisk(bytes, pos) IN {e.rec[1]} \union KeysFrom(bytes, e.pos)
FilesDisjoint ==
  \A i, j \in DOMAIN providers :
    i # j => KeysFrom(providers[i].bytes, 1) \intersect KeysFrom(providers[j].bytes, 1) = {}

\* When Load returns, the table holds what applying the collected records in the
\* order they were collected gives, whether they stayed in memory or were merged
\* from any number of files: the last value of a key for a slice buffer, the first
\* for the oldest one, everything joined to what was there for a merging load.
\* So it does when the load of a critical collector failed and was done again from
\* the files it left, if no two of them hold the same key.  (A key deleted after it
\* was collected is the exception, when the load appends; collector.go.)
LoadReplays ==
  ((phase = "done" \/ (phase = "redone" /\ FilesDisjoint)) /\ ~DeletedAfterEnd) =>
    \A k \in Keys : PairsOf(table, k) = Expected(k)
=============================================================================
