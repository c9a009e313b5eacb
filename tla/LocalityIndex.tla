---------------------------- MODULE LocalityIndex ----------------------------
(***************************************************************************)
(* The locality index of a history (state/locality_index.go): for a key,   *)
(* which of the frozen files, the ones that are never merged again, hold   *)
(* it.  It is built in the background while files are frozen and contexts  *)
(* are made and closed, is kept in two files (.l, the bitmaps, and .li,    *)
(* the perfect hash of the keys), and spares GetNoState the other files.   *)
(* A history file is what it has of each key: the txNums, of the Span of   *)
(* them it is about, that changed the key.  The last of files is the one   *)
(* that is not frozen yet.  An index of the first n files is called n.     *)
(***************************************************************************)
EXTENDS Integers, Sequences, FiniteSets, FiniteSetsExt

CONSTANTS
  Keys,        \* numbers, in the order of the keys
  Contents,    \* what a file may have: for each key a set of 0..Span-1
  Span,        \* txNums of a frozen file: StepsInBiggestFile * aggregationStep
  Readers,
  MaxFrozen,   \* bound: files that are frozen
  Limit,       \* LocalityIndexUint64Limit: files an index may be about
  Budget       \* bounds: how often the process is killed, an index is begun

VARIABLES
  files,      \* InvertedIndex.files; but the last they are frozen
  disk,       \* for each n the index files of n in the folder
  li,         \* LocalityIndex: file and bm
  refs,       \* file.refcount of index n
  canDelete,  \* file.canDelete of index n
  builder,    \* the goroutine of BuildOptionalMissedIndices
  ctx,        \* the contexts of the readers
  left        \* what is left of Budget

vars == <<files, disk, li, refs, canDelete, builder, ctx, left>>

None == 0
Indices == 1..MaxFrozen
NoBm == [of |-> None, width |-> 0]
NoFiles == [l |-> FALSE, li |-> FALSE, bits |-> {}, count |-> 0, saw |-> 0]
Idle == [pc |-> "idle", to |-> None, count |-> 0, width |-> 0, opened |-> 0]
Closed == [pc |-> "closed", n |-> 0, file |-> None, reader |-> None, bm |-> NoBm]

Init ==
  /\ files \in [1..1 -> Contents]
  /\ disk = [n \in Indices |-> NoFiles]
  /\ li = [file |-> None, bm |-> NoBm]
  /\ refs = [n \in Indices |-> 0] /\ canDelete = {}
  /\ builder = Idle
  /\ ctx = [r \in Readers |-> Closed]
  /\ left = Budget

-----------------------------------------------------------------------------
(* History files, numbered from 0.                                         *)

Frozen == Len(files) - 1
Changes(f, k) == {f * Span + o : o \in files[f + 1][k]}
EndTxNum(f) == (f + 1) * Span
FilesOf(k, fs) == {f \in fs : Changes(f, k) # {}}
KeysIn(fs) == {k \in Keys : FilesOf(k, fs) # {}}
Nth(S, i) == CHOOSE k \in S : Cardinality({j \in S : j <= k}) = i

\* A merge, or the build of a step, that ends with a file of the biggest size.
Freeze ==
  /\ Frozen < MaxFrozen
  /\ \E c \in Contents : files' = Append(files, c)
  /\ UNCHANGED <<disk, li, refs, canDelete, builder, ctx, left>>

-----------------------------------------------------------------------------
(* BuildMissedIndices.  Its two contexts are never closed: what they count *)
(* in refcount stays counted.                                              *)

MakeContextAndLeaveIt ==
  refs' = IF li.file = None THEN refs ELSE [refs EXCEPT ![li.file] = @ + 1]

\* iterateKeysLocality up to the txNum where index "to" ends: a frozen file
\* that starts there, as one frozen since does, is not left out.
Iterated(to) == {f \in 0..Frozen - 1 : f <= to}

\* Mutant: the key that advance stands on before the first Next is returned.
LocalityAll(fs) == [i \in 1..Cardinality(KeysIn(fs)) |-> FilesOf(Nth(KeysIn(fs), i), fs)]

\* What LocalityIterator returns: for the keys in order the files that hold
\* them.  Next advances before it returns, so that the first key is not there.
Locality(fs) ==
  [i \in 1..Max({0, Cardinality(KeysIn(fs)) - 1}) |-> FilesOf(Nth(KeysIn(fs), i + 1), fs)]

\* missedIdxFiles: the end of the last file of the biggest size, unless the
\* folder has an index up to there.
MissedIdxFiles ==
  /\ builder.pc = "idle"
  /\ left.builds > 0 /\ left' = [left EXCEPT !.builds = @ - 1]
  /\ Frozen # 0 /\ ~disk[Frozen].li
  /\ builder' = [Idle EXCEPT !.pc = "count", !.to = Frozen]
  /\ UNCHANGED <<files, disk, li, refs, canDelete, ctx>>

\* buildFiles, the first pass: how many keys there are, and how many files.
Count ==
  /\ builder.pc = "count"
  /\ builder' = [builder EXCEPT !.pc = "write", !.count = Len(Locality(Iterated(builder.to))),
                   !.width = Cardinality(Iterated(builder.to))]
  /\ MakeContextAndLeaveIt
  /\ UNCHANGED <<files, disk, li, canDelete, ctx, left>>

\* AddArray fails for an item or a value that is too big; the bounds are one
\* too wide.
AddArrayFails(item, values) ==
  item > builder.count \/ \E v \in values : v > builder.width

\* The second pass: every bitmap is added, and dense.Build renames the file.
Write ==
  /\ builder.pc = "write"
  /\ MakeContextAndLeaveIt
  /\ LET fs == Iterated(builder.to)
         bitmaps == Locality(fs)
         items == DOMAIN bitmaps
     IN  IF \E i \in items : AddArrayFails(i - 1, bitmaps[i])
         THEN builder' = Idle /\ UNCHANGED disk
         ELSE /\ disk' = [disk EXCEPT ![builder.to] =
                   [@ EXCEPT !.l = TRUE, !.count = Len(bitmaps), !.saw = Cardinality(fs),
                      !.bits = UNION {{(i - 1) * builder.width + v : v \in bitmaps[i]} : i \in items}]]
              /\ builder' = [builder EXCEPT !.pc = "index", !.opened = Cardinality(fs)]
  /\ UNCHANGED <<files, li, canDelete, ctx, left>>

\* rs.Build: an error if it did not get the keys it was made for.
Index ==
  /\ builder.pc = "index"
  /\ IF disk[builder.to].count = builder.count
     THEN /\ disk' = [disk EXCEPT ![builder.to].li = TRUE]
          /\ builder' = [builder EXCEPT !.pc = "file"]
     ELSE builder' = Idle /\ UNCHANGED disk
  /\ UNCHANGED <<files, li, refs, canDelete, ctx, left>>

\* rs.Build: a collision.  The bitmaps are written again, but i goes on from
\* where it was, and AddArray refuses the second of them.
Collision ==
  /\ builder.pc = "index" /\ builder.count > 1
  /\ disk[builder.to].count = builder.count
  /\ MakeContextAndLeaveIt
  /\ builder' = Idle
  /\ UNCHANGED <<files, disk, li, canDelete, ctx, left>>

\* integrateFiles, two assignments that nothing keeps together.
IntegrateFile ==
  /\ builder.pc = "file"
  /\ canDelete' = canDelete \cup ({li.file} \ {None})
  /\ li' = [li EXCEPT !.file = builder.to]
  /\ builder' = [builder EXCEPT !.pc = "bm"]
  /\ UNCHANGED <<files, disk, refs, ctx, left>>

IntegrateBm ==
  /\ builder.pc = "bm"
  /\ li' = [li EXCEPT !.bm = [of |-> builder.to, width |-> builder.opened]]
  /\ builder' = Idle
  /\ UNCHANGED <<files, disk, refs, canDelete, ctx, left>>

-----------------------------------------------------------------------------
(* MakeContext and Close of a reader.                                      *)

Advance(r, from, c) == ctx[r].pc = from /\ ctx' = [ctx EXCEPT ![r] = c]

LoadFiles(r) ==
  /\ Advance(r, "closed", [Closed EXCEPT !.pc = "file", !.n = Len(files)])
  /\ UNCHANGED <<files, disk, li, refs, canDelete, builder, left>>

LoadFile(r) ==
  /\ Advance(r, "file", [ctx[r] EXCEPT !.pc = "reader", !.file = li.file])
  /\ UNCHANGED <<files, disk, li, refs, canDelete, builder, left>>

LoadReader(r) ==
  /\ Advance(r, "reader", [ctx[r] EXCEPT !.pc = "bm", !.reader = li.file])
  /\ UNCHANGED <<files, disk, li, refs, canDelete, builder, left>>

LoadBm(r) ==
  /\ Advance(r, "bm", [ctx[r] EXCEPT !.pc = "open", !.bm = li.bm])
  /\ refs' = IF ctx[r].file = None THEN refs ELSE [refs EXCEPT ![ctx[r].file] = @ + 1]
  /\ UNCHANGED <<files, disk, li, canDelete, builder, left>>

\* Mutant: whoever closes a context removes an index that is out of date.
AnyUser(n, users) == n \in canDelete
LastUser(n, users) == users = 0 /\ n \in canDelete

\* Close, and closeFilesAndRemove by the last user.
Close(r) ==
  /\ Advance(r, "open", Closed)
  /\ LET n == ctx[r].file
     IN  IF n = None THEN UNCHANGED <<refs, disk>>
         ELSE /\ refs' = [refs EXCEPT ![n] = @ - 1]
              /\ disk' = IF LastUser(n, refs[n] - 1)
                         THEN [m \in Indices |->
                                 [disk[m] EXCEPT !.li = @ /\ m # n, !.l = @ /\ m # ctx[r].bm.of]]
                         ELSE disk
  /\ UNCHANGED <<files, li, canDelete, builder, left>>

-----------------------------------------------------------------------------
(* The process is killed and starts again: reOpenFolder.                   *)

\* scanStateFiles: the longest index that a word has bits for.
ScanStateFiles == Max({None} \cup {n \in Indices : disk[n].li /\ n <= Limit})

Restart ==
  /\ left.kills > 0 /\ left' = [left EXCEPT !.kills = @ - 1]
  /\ LET n == ScanStateFiles
     IN  li' = IF n = None THEN [file |-> None, bm |-> NoBm]
               ELSE [file |-> n, bm |-> [of |-> n, width |-> n]]
  /\ refs' = [n \in Indices |-> 0] /\ canDelete' = {}
  /\ builder' = Idle /\ ctx' = [r \in Readers |-> Closed]
  /\ UNCHANGED <<files, disk>>

Next ==
  \/ Freeze \/ MissedIdxFiles \/ Count \/ Write \/ Index \/ Collision
  \/ IntegrateFile \/ IntegrateBm \/ Restart
  \/ \E r \in Readers : LoadFiles(r) \/ LoadFile(r) \/ LoadReader(r) \/ LoadBm(r) \/ Close(r)

Spec == Init /\ [][Next]_vars

-----------------------------------------------------------------------------
(* HistoryContext.GetNoState: the first change of a key from a txNum on.   *)

At(bm, item) == {v \in 0..bm.width - 1 : item * bm.width + v \in disk[bm.of].bits}

First2At(bm, item, after) ==
  LET found == {v \in At(bm, item) : v >= after}
      first == IF found = {} THEN {} ELSE {Min(found)}
  IN  first \cup (IF found \ first = {} THEN {} ELSE {Min(found \ first)})

\* The keys are added to the index with offset 0: Lookup returns 0 for all of
\* them.
Lookup(k) == 0

\* Mutant: the file that the txNum is in is passed over.
LookupIdxFilesAfter(c, k, t) ==
  IF c.file = None \/ c.reader = None \/ c.bm.of = None THEN [shards |-> {}, last |-> 0]
  ELSE IF t >= c.file * Span THEN [shards |-> {}, last |-> t]
  ELSE [shards |-> First2At(c.bm, Lookup(k), t \div Span + 1), last |-> c.file * Span]

LookupIdxFiles(c, k, t) ==
  IF c.file = None \/ c.reader = None \/ c.bm.of = None THEN [shards |-> {}, last |-> 0]
  ELSE IF t >= c.file * Span THEN [shards |-> {}, last |-> t]
  ELSE [shards |-> First2At(c.bm, Lookup(k), t \div Span), last |-> c.file * Span]

FindInFile(f, k, t) == {n \in Changes(f, k) : n >= t}

\* The set of the txNum that is found, if any: in up to two exact files that
\* the context has, or else in the files the index is not about.
GetNoState(c, k, t) ==
  LET looked == LookupIdxFiles(c, k, t)
      hits(fs) == {f \in fs : FindInFile(f, k, t) # {}}
      exact == hits(looked.shards \cap 0..c.n - 2)
      rest == hits({f \in 0..c.n - 1 : EndTxNum(f) > looked.last})
      found == IF exact # {} THEN exact ELSE rest
  IN  IF found = {} THEN {} ELSE {Min(FindInFile(Min(found), k, t))}

-----------------------------------------------------------------------------
InAllFiles(c, k, t) ==
  LET all == UNION {FindInFile(f, k, t) : f \in 0..c.n - 1} IN IF all = {} THEN {} ELSE {Min(all)}

TxNums(c) == 0..c.n * Span - 1

\* A context that got the parts of one index, and every file that index is
\* about; Lookup panics on an index of no key.
Whole(c) ==
  /\ c.pc = "open" /\ c.file = c.reader /\ c.file = c.bm.of /\ c.file < c.n
  /\ c.file # None => disk[c.file].count > 0

\* The key whose bitmap every lookup reads, of the files the build saw.
Indexed(n) == Nth(KeysIn(0..disk[n].saw - 1), 2)

\* A context never loses its index to a build or to another context, the
\* folder never has an index without its bitmaps, and GetNoState finds the
\* change that a search of all files finds, for every key that is in the same
\* indexed files as the second of the keys, or in none of them (locality_index.go
\* lookupIdxFiles, buildFiles, integrateFiles; HistoryContext.GetNoState).
LocalityReads ==
  /\ \A n \in Indices : disk[n].li => disk[n].l
  /\ \A r \in Readers : LET c == ctx[r] IN
       Whole(c) =>
         /\ c.file # None => disk[c.file].li
         /\ \A k \in Keys, t \in TxNums(c) :
              (c.file # None =>
                 FilesOf(k, 0..c.file - 1) \in {{}, FilesOf(Indexed(c.file), 0..c.file - 1)})
              => GetNoState(c, k, t) = InAllFiles(c, k, t)

\* "LocalityIndex - has info in which .ef files exists given key"
\* (locality_index.go:40): with it GetNoState finds, for every key, what a
\* search of all files finds.
LocalityIndexHasInfo ==
  \A r \in Readers : Whole(ctx[r]) =>
    \A k \in Keys, t \in TxNums(ctx[r]) : GetNoState(ctx[r], k, t) = InAllFiles(ctx[r], k, t)
=============================================================================
