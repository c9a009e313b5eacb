---------------------------- MODULE HistoryFiles ----------------------------
(* The static files of AggregatorV3 (state/): how they are built from the   *)
(* database and merged in the background while readers use them, and what a *)
(* crash leaves of them.                                                    *)
(*                                                                          *)
(* The aggregator has a history (its index files, "ef", and its value files,*)
(* "v") and an inverted index ("tr"), which stand for its three histories   *)
(* and four inverted indices.  aggregationStep is 1, so a step is a txNum.  *)
(* What a file holds is given by its range.  A data file and its own index  *)
(* (.ef and .efi, .v and .vi) are one file here.                            *)
EXTENDS FileRanges, TLC

CONSTANTS
    Readers,
    Folder,      \* the ranges in the folder when the process first starts
    MaxTxNum,    \* bound on txNum
    PruneLimit,  \* how much one call of Prune deletes
    KeepInDB,    \* steps that BuildFilesInBackground leaves in the database
    Budgets      \* bounds on how often each of Bounded happens: one is chosen at the start

\* The process is killed; writing a file fails; BuildFilesInBackground gets
\* past its first check; a reader opens a context.
Bounded == {"crash", "fail", "call", "read"}

ASSUME FolderIsRanges == Folder \subseteq [from : 0..MaxTxNum, to : 0..MaxTxNum]

ASSUME BoundsAreNat == {MaxTxNum, PruneLimit, KeepInDB} \subseteq Nat /\ Budgets \subseteq [Bounded -> Nat]

VARIABLES
    txNum,      \* the last txNum executed; the database has it
    pruned,     \* the first txNum that the database still has
    maxTxNum,   \* AggregatorV3.maxTxNum: the files have the txNums below it
    disk,       \* list -> the ranges in the folder
    files,      \* list -> files, the btree of filesItem
    ro,         \* list -> roFiles
    item,       \* list -> filesItem -> [refcount, canDelete, data]
    call,       \* BuildFilesInBackground: the step it has read, or NoCall
    builder,    \* the goroutine that builds
    merger,     \* the goroutine that merges
    ctx,        \* AggregatorV3Context of each reader and of the merger
    left        \* how often the bounded events may still happen

db == <<txNum, pruned>>
lists == <<files, ro, item>>
vars == <<txNum, pruned, maxTxNum, disk, files, ro, item, call, builder, merger, ctx, left>>

Lists == {"ef", "v", "tr"}
NoCall == -1
Merger == "merger"
Users == Readers \cup {Merger}
NoFiles == [l \in Lists |-> <<>>]

RangeOf(f) == [from |-> f.from, to |-> f.to]

\* The order in which contexts, integrateFiles and integrateMergedFiles go
\* through the lists.
After(l) == CASE l = "ef" -> "v" [] l = "v" -> "tr" [] l = "tr" -> "end"

NoContext == [pc |-> "none", list |-> "ef", files |-> NoFiles, tx |-> 0, calm |-> TRUE]
NoBuilder == [pc |-> "idle", list |-> "ef", step |-> 0, roFiles |-> <<>>]
NoMerger  == [pc |-> "idle", list |-> "ef", r |-> [l \in Lists |-> NoRange],
              outs |-> NoFiles, roFiles |-> <<>>]

\* Not of the program: the bounds of the instance.
Use(event) == left[event] > 0 /\ left' = [left EXCEPT ![event] = @ - 1]
-----------------------------------------------------------------------------
(* One list of files.                                                       *)

\* gen tells two filesItem of the same range apart.
NewItem(l, r) ==
    [from |-> r.from, to |-> r.to,
     gen |-> Cardinality({g \in DOMAIN item[l] : SameRange(g, r)})]

Opened == [refcount |-> 0, canDelete |-> FALSE, data |-> "open"]

\* btree.Set replaces the item of the same range, btree.Delete deletes it.
SetItem(fs, f) == {g \in fs : ~SameRange(g, f)} \cup {f}
DeleteItems(fs, outs) == {g \in fs : \A f \in outs : ~SameRange(g, f)}

CanDelete(items, outs) ==
    [f \in DOMAIN items |-> [items[f] EXCEPT !.canDelete = @ \/ f \in outs]]

\* reCalcRoFiles, up to its Store.  prevStart is never assigned, so the files
\* that a bigger one contains stay in the list.
ReCalcRoFiles(fs, items) == Walk({f \in fs : ~items[f].canDelete})

Counted(items, fs, d) ==
    [f \in DOMAIN items |->
        IF f \in fs /\ ~Frozen(f) THEN [items[f] EXCEPT !.refcount = @ + d] ELSE items[f]]

\* Contexts that are being made while roFiles changes.
Disturbed(c) ==
    [p \in Users |-> IF c[p].pc = "count" \/ (c[p].pc = "load" /\ c[p].list # "ef")
                       THEN [c[p] EXCEPT !.calm = FALSE] ELSE c[p]]

\* `kill -9` may leave small files: those that the frozen file f makes useless.
Superseded(fs, f) == IF Frozen(f) THEN {g \in fs : ~Frozen(g) /\ g.to <= f.to} ELSE {}

\* An index file counts only if its values are there (integrityFileExtensions).
OnDisk(d, l) == IF l = "ef" THEN d["ef"] \cap d["v"] ELSE d[l]

Found(d, l) == {[from |-> r.from, to |-> r.to, gen |-> 0] : r \in ScanStateFiles(OnDisk(d, l))}

\* Mutant: the list that has most decides.
RecalcMostTxNum(fs) == Max({EndOfHistory(fs["ef"], fs["v"]), EndOf(fs["tr"])})

RecalcMaxTxNum(fs) == Min({EndOfHistory(fs["ef"], fs["v"]), EndOf(fs["tr"])})
-----------------------------------------------------------------------------
\* ReopenFolder: what a start makes of the files fs that it finds.
OpenFiles(fs) == [l \in Lists |-> [f \in fs[l] |-> Opened]]
ReopenRoFiles(fs) == [l \in Lists |-> ReCalcRoFiles(fs[l], OpenFiles(fs)[l])]

\* The database has everything; the folder is what an earlier process built.
Init ==
    /\ pruned = 0
    /\ disk = [l \in Lists |-> Folder]
    /\ files = [l \in Lists |-> Found(disk, l)]
    /\ item = OpenFiles(files)
    /\ ro = ReopenRoFiles(files)
    /\ maxTxNum = RecalcMaxTxNum(files)
    /\ txNum = maxTxNum
    /\ call = NoCall
    /\ builder = NoBuilder
    /\ merger = NoMerger
    /\ ctx = [p \in Users |-> NoContext]
    /\ left \in Budgets

(* The thread that executes blocks.                                         *)

Exec ==
    /\ call = NoCall
    /\ txNum < MaxTxNum
    /\ txNum' = txNum + 1
    /\ UNCHANGED <<pruned, maxTxNum, disk, lists, call, builder, merger, ctx, left>>

\* Mutant: the txNum at which the files end is pruned too.
PruneTooFar ==
    /\ call = NoCall
    /\ pruned < maxTxNum
    /\ pruned' = Min({maxTxNum + 1, pruned + PruneLimit})
    /\ UNCHANGED <<txNum, maxTxNum, disk, lists, call, builder, merger, ctx, left>>

Prune ==
    /\ call = NoCall
    /\ pruned < maxTxNum
    /\ pruned' = Min({maxTxNum, pruned + PruneLimit})
    /\ UNCHANGED <<txNum, maxTxNum, disk, lists, call, builder, merger, ctx, left>>

\* Leave one step worth in the DB.
BuildFilesInBackground ==
    /\ call = NoCall
    /\ txNum + 1 > maxTxNum + 1 + KeepInDB
    /\ Use("call")
    /\ call' = maxTxNum
    /\ UNCHANGED <<db, maxTxNum, disk, lists, builder, merger, ctx>>

\* It returns if the goroutine is working.
StartBuilder ==
    /\ call # NoCall
    /\ builder' = IF builder.pc = "idle" THEN [NoBuilder EXCEPT !.pc = "check", !.step = call]
                  ELSE builder
    /\ call' = NoCall
    /\ UNCHANGED <<db, maxTxNum, disk, lists, merger, ctx, left>>
-----------------------------------------------------------------------------
(* The goroutine of BuildFilesInBackground.                                 *)

HasData == builder.step < txNum

\* The files of a step, in the order in which buildFiles writes them.
Built(step) == [i \in 1..3 |-> [list |-> <<"v", "ef", "tr">>[i], from |-> step, to |-> step + 1]]

Written(d, writes) ==
    [l \in Lists |-> d[l] \cup {RangeOf(writes[i]) : i \in {j \in DOMAIN writes : writes[j].list = l}}]

\* collate and buildFiles.
BuilderWrite ==
    /\ builder.pc \in {"check", "loop"} /\ HasData
    /\ disk' = Written(disk, Built(builder.step))
    /\ builder' = [builder EXCEPT !.pc = "integrate"]
    /\ UNCHANGED <<db, maxTxNum, lists, call, merger, ctx, left>>

\* An error: what has been written stays, and the loop ends.
BuilderFails ==
    /\ builder.pc \in {"check", "loop"} /\ HasData
    /\ Use("fail")
    /\ \E n \in 0..3 : disk' = Written(disk, SubSeq(Built(builder.step), 1, n))
    /\ builder' = [builder EXCEPT !.pc = "done"]
    /\ UNCHANGED <<db, maxTxNum, lists, call, merger, ctx>>

\* integrateFiles of one list, up to the Store of reCalcRoFiles.
BuilderIntegrate ==
    /\ builder.pc = "integrate"
    /\ LET l == builder.list
           f == NewItem(l, [from |-> builder.step, to |-> builder.step + 1])
       IN  /\ files' = [files EXCEPT ![l] = SetItem(@, f)]
           /\ item' = [item EXCEPT ![l] = @ @@ (f :> Opened)]
           /\ builder' = [builder EXCEPT !.pc = "store",
                                         !.roFiles = ReCalcRoFiles(files'[l], item'[l])]
    /\ ctx' = Disturbed(ctx)
    /\ UNCHANGED <<db, maxTxNum, disk, ro, call, merger, left>>

\* After the last list, recalcMaxTxNum.
BuilderStore ==
    /\ builder.pc = "store"
    /\ LET l == builder.list
       IN  /\ ro' = [ro EXCEPT ![l] = builder.roFiles]
           /\ IF After(l) = "end"
                THEN /\ maxTxNum' = RecalcMaxTxNum(files)
                     /\ builder' = [NoBuilder EXCEPT !.pc = "loop", !.step = builder.step + 1]
                ELSE /\ builder' = [builder EXCEPT !.pc = "integrate", !.list = After(l),
                                                   !.roFiles = <<>>]
                     /\ UNCHANGED maxTxNum
    /\ ctx' = Disturbed(ctx)
    /\ UNCHANGED <<db, disk, files, item, call, merger, left>>

\* Start MergeLoop, unless it is working or there was no data to begin with.
BuilderDone ==
    /\ builder.pc \in {"check", "loop", "done"} /\ (builder.pc # "done" => ~HasData)
    /\ builder' = NoBuilder
    /\ merger' = IF builder.pc # "check" /\ merger.pc = "idle"
                   THEN [merger EXCEPT !.pc = "find"] ELSE merger
    /\ UNCHANGED <<db, maxTxNum, disk, lists, call, ctx, left>>
-----------------------------------------------------------------------------
(* MergeLoop: mergeLoopStep until there is nothing to merge.                *)

FindMergeRange ==
    LET h == HistoryMergeRange(files["ef"], files["v"], maxTxNum)
    IN  [ef |-> h.index, v |-> h.history, tr |-> IndexMergeRange(files["tr"], maxTxNum)]

\* The merger makes a context of its own: in one step, because nobody else
\* takes a file that it has found out of the lists.
MergerFind ==
    /\ merger.pc = "find"
    /\ LET r == FindMergeRange
       IN  IF \E l \in Lists : r[l].any
             THEN /\ merger' = [merger EXCEPT !.pc = "select", !.r = r]
                  /\ ctx' = [ctx EXCEPT ![Merger].pc = "ready", ![Merger].files = ro]
                  /\ item' = [l \in Lists |-> Counted(item[l], ToSet(ro[l]), 1)]
             ELSE merger' = NoMerger /\ UNCHANGED <<ctx, item>>
    /\ UNCHANGED <<db, maxTxNum, disk, files, ro, call, builder, left>>

\* The index is merged along with the values, whatever its own range is.
Merges(l) == merger.r[l].any \/ (l = "ef" /\ merger.r["v"].any)

SelectedFiles ==
    LET v == StaticFilesInRange(files["v"], merger.r["v"])
    IN  [ v  |-> IF merger.r["v"].any THEN v ELSE <<>>,
          ef |-> IF merger.r["v"].any THEN IndexFilesOf(files["ef"], v)
                 ELSE IF merger.r["ef"].any THEN StaticFilesInRange(files["ef"], merger.r["ef"])
                 ELSE <<>>,
          tr |-> IF merger.r["tr"].any THEN StaticFilesInRange(files["tr"], merger.r["tr"])
                 ELSE <<>> ]

\* staticFilesInRange.
MergerSelect ==
    /\ merger.pc = "select"
    /\ IF merger.r["v"].any => HasIndexFiles(files["ef"], files["v"], merger.r["v"])
         THEN /\ merger' = [merger EXCEPT !.pc = "write", !.outs = SelectedFiles]
              /\ UNCHANGED ctx
         ELSE /\ merger' = [NoMerger EXCEPT !.pc = "stop"]
              /\ ctx' = [ctx EXCEPT ![Merger].pc = "close", ![Merger].list = "ef"]
    /\ UNCHANGED <<db, maxTxNum, disk, lists, call, builder, left>>

\* The files of a merge, in the order in which mergeFiles writes them.
Merged ==
    [i \in DOMAIN SelectSeq(<<"ef", "v", "tr">>, Merges) |->
        LET l == SelectSeq(<<"ef", "v", "tr">>, Merges)[i]
        IN  [list |-> l, from |-> merger.r[l].from, to |-> merger.r[l].to]]

MergerWrite ==
    /\ merger.pc = "write"
    /\ disk' = Written(disk, Merged)
    /\ merger' = [merger EXCEPT !.pc = "integrate"]
    /\ UNCHANGED <<db, maxTxNum, lists, call, builder, ctx, left>>

\* If a merge fails, outs.Close() closes the files that were to be merged.
MergerFails ==
    /\ merger.pc = "write"
    /\ Use("fail")
    /\ \E n \in DOMAIN Merged : disk' = Written(disk, SubSeq(Merged, 1, n - 1))
    /\ item' = [l \in Lists |-> [f \in DOMAIN item[l] |->
                   IF f \in ToSet(merger.outs[l]) THEN [item[l][f] EXCEPT !.data = "closed"]
                   ELSE item[l][f]]]
    /\ merger' = [NoMerger EXCEPT !.pc = "stop"]
    /\ ctx' = [ctx EXCEPT ![Merger].pc = "close", ![Merger].list = "ef"]
    /\ UNCHANGED <<db, maxTxNum, files, ro, call, builder>>

\* integrateMergedFiles of one list, up to the Store of reCalcRoFiles.
MergerIntegrate ==
    /\ merger.pc = "integrate"
    /\ LET l    == merger.list
           in   == IF Merges(l) THEN {NewItem(l, merger.r[l])} ELSE {}
           fs   == IF Merges(l) THEN SetItem(files[l], NewItem(l, merger.r[l])) ELSE files[l]
           outs == ToSet(merger.outs[l]) \cup UNION {Superseded(fs, f) : f \in in}
       IN  /\ files' = [files EXCEPT ![l] = DeleteItems(fs, outs)]
           /\ item' = [item EXCEPT ![l] = CanDelete(@ @@ [f \in in |-> Opened], outs)]
           /\ merger' = [merger EXCEPT !.pc = "store",
                                       !.roFiles = ReCalcRoFiles(files'[l], item'[l])]
    /\ ctx' = Disturbed(ctx)
    /\ UNCHANGED <<db, maxTxNum, disk, ro, call, builder, left>>

MergerStore ==
    /\ merger.pc = "store"
    /\ LET l == merger.list
       IN  /\ ro' = [ro EXCEPT ![l] = merger.roFiles]
           /\ merger' = IF After(l) = "end" THEN [merger EXCEPT !.pc = "clean", !.roFiles = <<>>]
                        ELSE [merger EXCEPT !.pc = "integrate", !.list = After(l), !.roFiles = <<>>]
    /\ ctx' = Disturbed(ctx)
    /\ UNCHANGED <<db, maxTxNum, disk, files, item, call, builder, left>>

\* Mutant: ac.Close is missing.
MergerCleanOnly ==
    /\ merger.pc = "clean"
    /\ merger' = [NoMerger EXCEPT !.pc = "again"]
    /\ UNCHANGED <<db, maxTxNum, disk, lists, call, builder, ctx, left>>

\* cleanAfterFreeze; roFiles is left as it is.  Then ac.Close.
MergerClean ==
    /\ merger.pc = "clean"
    /\ LET outs(l) == LET in == IF l = "ef" THEN "v" ELSE l
                      IN  IF merger.r[in].any THEN Superseded(files[l], merger.r[in]) ELSE {}
       IN  /\ files' = [l \in Lists |-> DeleteItems(files[l], outs(l))]
           /\ item' = [l \in Lists |-> CanDelete(item[l], outs(l))]
    /\ merger' = [NoMerger EXCEPT !.pc = "again"]
    /\ ctx' = [ctx EXCEPT ![Merger].pc = "close", ![Merger].list = "ef"]
    /\ UNCHANGED <<db, maxTxNum, disk, ro, call, builder, left>>

\* After an error MergeLoop returns.
MergerLoop ==
    /\ merger.pc \in {"again", "stop"}
    /\ ctx[Merger].pc = "none"
    /\ merger' = [NoMerger EXCEPT !.pc = IF merger.pc = "again" THEN "find" ELSE "idle"]
    /\ UNCHANGED <<db, maxTxNum, disk, lists, call, builder, ctx, left>>
-----------------------------------------------------------------------------
(* AggregatorV3Context.  The readers make one of the history: the index, and *)
(* then the values.                                                          *)

\* A reader begins a transaction of the database and then makes a context.
Begin(p) ==
    /\ ctx[p].pc = "none"
    /\ Use("read")
    /\ ctx' = [ctx EXCEPT ![p].pc = "load", ![p].tx = pruned]
    /\ UNCHANGED <<db, maxTxNum, disk, lists, call, builder, merger>>

\* MakeContext of one list: roFiles.Load, and then refcount.Inc of its files.
MakeContextLoad(p) ==
    /\ ctx[p].pc = "load"
    /\ ctx' = [ctx EXCEPT ![p].pc = "count",
                          ![p].files[ctx[p].list] = ro[ctx[p].list],
                          ![p].calm = @ /\ {builder.pc, merger.pc} \cap {"integrate", "store"} = {}]
    /\ UNCHANGED <<db, maxTxNum, disk, lists, call, builder, merger, left>>

MakeContextCount(p) ==
    /\ ctx[p].pc = "count"
    /\ LET l == ctx[p].list
       IN  /\ item' = [item EXCEPT ![l] = Counted(@, ToSet(ctx[p].files[l]), 1)]
           /\ ctx' = [ctx EXCEPT ![p].pc = IF l = "v" THEN "ready" ELSE "load", ![p].list = "v"]
    /\ UNCHANGED <<db, maxTxNum, disk, files, ro, call, builder, merger, left>>

Close(p) ==
    /\ ctx[p].pc = "ready"
    /\ ctx' = [ctx EXCEPT ![p].pc = "close", ![p].list = "ef"]
    /\ UNCHANGED <<db, maxTxNum, disk, lists, call, builder, merger, left>>

\* Mutant: the file is removed under the other readers.
AnyUser(p, i) == i.canDelete

LastUser(p, i) == i.refcount = 0 /\ i.canDelete

\* Close of one list.  The last reader removes a file that can be deleted.
CloseList(p) ==
    /\ ctx[p].pc = "close"
    /\ LET l     == ctx[p].list
           fs    == {f \in ToSet(ctx[p].files[l]) : ~Frozen(f)}
           items == Counted(item[l], fs, -1)
           gone  == {f \in fs : LastUser(p, items[f]) /\ items[f].data # "removed"}
       IN  /\ item' = [item EXCEPT ![l] = [f \in DOMAIN items |->
                          IF f \in gone THEN [items[f] EXCEPT !.data = "removed"] ELSE items[f]]]
           /\ disk' = [disk EXCEPT ![l] = @ \ {RangeOf(f) : f \in gone}]
           /\ ctx' = IF After(l) = "end" \/ (p \in Readers /\ l = "v")
                       THEN [ctx EXCEPT ![p] = NoContext]
                     ELSE [ctx EXCEPT ![p].list = After(l), ![p].files[l] = <<>>]
    /\ UNCHANGED <<db, maxTxNum, files, ro, call, builder, merger, left>>

\* The writes that a crash may cut short.
Writing ==
    {<<>>} \cup (IF builder.pc \in {"check", "loop"} /\ HasData THEN {Built(builder.step)} ELSE {})
           \cup (IF merger.pc = "write" THEN {Merged} ELSE {})

\* kill -9, and ReopenFolder of the next start.
Crash ==
    /\ Use("crash")
    /\ \E w \in Writing : \E n \in 0..Len(w) : disk' = Written(disk, SubSeq(w, 1, n))
    /\ files' = [l \in Lists |-> Found(disk', l)]
    /\ item' = OpenFiles(files')
    /\ ro' = ReopenRoFiles(files')
    /\ maxTxNum' = RecalcMaxTxNum(files')
    /\ call' = NoCall
    /\ builder' = NoBuilder
    /\ merger' = NoMerger
    /\ ctx' = [p \in Users |-> NoContext]
    /\ UNCHANGED db

Builder == BuilderWrite \/ BuilderIntegrate \/ BuilderStore \/ BuilderDone

MergeLoop == MergerFind \/ MergerSelect \/ MergerWrite \/ MergerIntegrate \/ MergerStore
               \/ MergerClean \/ MergerLoop

Context(p) == MakeContextLoad(p) \/ MakeContextCount(p) \/ CloseList(p)

\* What happens while nothing fails, and what else may.
Steps ==
    \/ Exec \/ Prune \/ BuildFilesInBackground \/ StartBuilder
    \/ Builder \/ MergeLoop
    \/ \E p \in Users : Context(p)
    \/ \E p \in Readers : Begin(p) \/ Close(p)

Next == Steps \/ BuilderFails \/ MergerFails \/ Crash

Spec == Init /\ [][Next]_vars

MergeLoopEnabled == merger.pc # "idle" /\ (merger.pc \in {"again", "stop"} => ctx[Merger].pc = "none")

\* Nothing fails, both goroutines run, and readers close their contexts: weak
\* fairness, with what enables each action spelled out.
FairSpec ==
    /\ Init /\ [][Steps]_vars
    /\ []<>(call = NoCall) \/ []<><<StartBuilder>>_vars
    /\ []<>(builder.pc = "idle") \/ []<><<Builder>>_vars
    /\ []<>~MergeLoopEnabled \/ []<><<MergeLoop>>_vars
    /\ \A p \in Users : []<>(ctx[p].pc \in {"none", "ready"}) \/ []<><<Context(p)>>_vars
    /\ \A p \in Readers : []<>(ctx[p].pc # "ready") \/ []<><<Close(p)>>_vars
-----------------------------------------------------------------------------
Files == [from : 0..MaxTxNum, to : 0..MaxTxNum, gen : 0..MaxTxNum]

\* Whatever prune has deleted from the database is in the files that the next
\* start would find, in the index together with its values and in the other
\* index: pruning up to maxTxNum never outruns what is on disk.
NothingLost ==
    \A t \in 0..pruned - 1 : \A l \in {"ef", "tr"} : \E f \in Found(disk, l) : Covers(f, t)

\* What a reader needs of its context: open files, values for every index file
\* (GetNoState: "hist file not found"), and every txNum that its transaction
\* does not have.
Served(p) ==
    /\ \A l \in Lists : \A f \in ToSet(ctx[p].files[l]) : item[l][f].data = "open"
    /\ \A f \in ToSet(ctx[p].files["ef"]) :
         \E g \in ToSet(ctx[p].files["v"]) : SameRange(f, g)
    /\ \A t \in 0..ctx[p].tx - 1 : \E f \in ToSet(ctx[p].files["ef"]) : Covers(f, t)

\* A context that was made while no files were being integrated serves its
\* reader until it is closed, however many merges follow.
CalmContextsServe ==
    \A p \in Readers : ctx[p].pc = "ready" /\ ctx[p].calm => Served(p)

\* What a merge reads has every step of the merged file once.
MergesTile ==
    merger.pc = "write" =>
        \A l \in Lists : merger.r[l].any => Tiles(merger.outs[l], merger.r[l])

Garbage ==
    \E l \in Lists : \E f \in DOMAIN item[l] : item[l][f].canDelete /\ item[l][f].data # "removed"

\* The files that merges have made superfluous are removed in the end, however
\* the readers that hold them are scheduled against the merges.
GarbageGoes == Garbage ~> ~Garbage
=============================================================================
