--------------------------- MODULE ChangeAggregator ---------------------------
(***************************************************************************)
(* Package aggregator: the state aggregator over change files              *)
(* (aggregator.go) and the reader of its history (history.go).             *)
(*                                                                         *)
(* A Writer records every change three times: in the summary tables of the *)
(* database, where a record counts the changes behind it, and in change    *)
(* files, one set per Step blocks.  Aggregate turns the change files of a  *)
(* step into trees, takes their counts out of the tables and hands the     *)
(* rest to a background goroutine that writes history, bitmap and state    *)
(* files; two more goroutines merge state files and history files.  Keys   *)
(* are sequences of numbers: <<a>> an address, <<a, l>> a location; 0 is   *)
(* the empty value.  Commitment values are branches whose cells hold plain *)
(* keys or, in merged files, references into the account and storage       *)
(* files.  The database transaction is committed with Close.               *)
(***************************************************************************)
EXTENDS Integers, FiniteSets, SequencesExt, TLC

CONSTANTS Step,          \* aggregationStep
          UnwindLimit,
          MaxBlock,      \* bound on the blocks executed
          Span,          \* 500_000: the span of a final history file
          Scripts,       \* what may be executed: block -> sequence of calls
          AggCap,        \* capacity of aggChannel
          ArchSize,      \* slots of an arch
          MaxRestarts    \* bound on restarts

\* A step of one block would never register block 0.
ChangeFilesClosed == Step > 1 /\ UnwindLimit > 0

VARIABLES
  script,     \* the calls of every block
  block,      \* the block executed last, or being executed
  executed,   \* its changes are written and Aggregate is still to come
  tables,     \* type -> key -> [n, v]
  chg,        \* <<type, first block>> -> changes, in order
  chgFileNum, \* Writer.changeFileNum
  chgTree,    \* changesBtree: the steps whose files are complete
  files,      \* type -> set of items
  arch,       \* type -> slot -> end block
  tasks,      \* aggChannel and the task in work: a sequence
  done,       \* how many files of the first task are made
  mergeSig, histSig,  \* a signal waits in mergeChannel, historyChannel
  merge, hist,        \* a merge in work, in a sequence of at most one
  failed,     \* errors met
  restarts,
  past        \* block -> the state before it (what the callers meant)

db == <<tables, chg, chgFileNum, chgTree>>
background == <<tasks, done, mergeSig, histSig, merge, hist>>
vars == <<script, block, executed, db, files, arch, background, failed, restarts, past>>

StateTypes == <<"account", "storage", "code", "commitment">>
HistoryTypes == <<"ahistory", "abitmap", "shistory", "sbitmap", "chistory", "cbitmap">>
FileTypes == ToSet(StateTypes) \cup ToSet(HistoryTypes)
Bitmaps == {"abitmap", "sbitmap", "cbitmap"}

\* The state type a history or bitmap file is about.
Base(t) == CASE t \in {"ahistory", "abitmap"} -> "account"
             [] t \in {"shistory", "sbitmap"} -> "storage"
             [] t \in {"chistory", "cbitmap"} -> "code"
             [] OTHER -> t

Apply(Op(_), x) == Op(x)

KeyLess(a, b) ==
  \E i \in 0 .. Len(a) : /\ i < Len(b)
                         /\ \A j \in 1 .. i : a[j] = b[j]
                         /\ i = Len(a) \/ a[i + 1] < b[i + 1]

Sorted(S, Less(_, _)) ==
  [i \in 1 .. Cardinality(S) |-> CHOOSE x \in S : Cardinality({y \in S : Less(y, x)}) = i - 1]

\* byEndBlockItem.Less: larger intervals come last.
Before(i, j) == i.to < j.to \/ (i.to = j.to /\ i.from > j.from)

InOrder(fs) == Sorted(fs, Before)

SetKey(f, k, v) == [x \in DOMAIN f \cup {k} |-> IF x = k THEN v ELSE f[x]]
Without(f, S) == [x \in DOMAIN f \ S |-> f[x]]

\* A key's offset in a data file, and the key at an offset.
OffsetOf(data, k) == Cardinality({x \in DOMAIN data : KeyLess(x, k)})
KeyAt(data, n) == CHOOSE k \in DOMAIN data : OffsetOf(data, k) = n

-----------------------------------------------------------------------------
(* Branches of the commitment: cells for the keys in touch and after.      *)

NoBranch == [touch |-> {}, after |-> {}, cells |-> <<>>]

MergeHexBranches(b1, b2) ==
  [touch |-> b1.touch \cup b2.touch, after |-> b2.after,
   cells |-> [k \in (b1.touch \cup b2.touch) \cap b2.after |->
               IF k \in b2.touch THEN b2.cells[k] ELSE b1.cells[k]]]

IsComplete(b) == b.after \subseteq b.touch

Plain(k) == [plain |-> k, file |-> 0, offset |-> 0]
Reference(i, n) == [plain |-> <<>>, file |-> i, offset |-> n]
CellType(k) == IF Len(k) = 1 THEN "account" ELSE "storage"

\* The plain key of a cell, its reference looked up in a list of files.
PlainKey(cell, list) ==
  IF cell.plain # <<>> THEN cell.plain ELSE KeyAt(list[cell.file].data, cell.offset)

-----------------------------------------------------------------------------
(* Reading. *)

ArchSlot(k) == FoldLeft(+, 0, k) % ArchSize

FirstOf(S) == CHOOSE i \in S : \A j \in S \ {i} : Before(i, j)
LastOf(S) == CHOOSE i \in S : \A j \in S \ {i} : Before(j, i)

\* The newest item no later than the block the arch names that has the key.
ReadFromFiles(t, k, b) ==
  LET v == arch[t][ArchSlot(k)]
      covering == {i \in files[t] : i.to >= v}
      limit == IF covering # {} /\ FirstOf(covering).to < b THEN FirstOf(covering).to ELSE b
      having == {i \in files[t] : i.to <= limit /\ k \in DOMAIN i.data}
  IN IF v = 0 \/ having = {} THEN <<>> ELSE <<LastOf(having)>>

\* References of a commitment value are resolved against the files now.
Resolved(br) ==
  [br EXCEPT !.cells = [k \in DOMAIN br.cells |->
                         Plain(PlainKey(br.cells[k], InOrder(files[CellType(k)])))]]

ValueIn(items, t, k) ==
  IF items = <<>> THEN IF t = "commitment" THEN NoBranch ELSE 0
  ELSE IF t = "commitment" THEN Resolved(items[1].data[k]) ELSE items[1].data[k]

\* The table first, then the files.
ReadLatest(tb, t, k, b) ==
  IF k \in DOMAIN tb[t] THEN tb[t][k].v ELSE ValueIn(ReadFromFiles(t, k, b), t, k)

CountOf(tb, t, k) == IF k \in DOMAIN tb[t] THEN tb[t][k].n ELSE 0

\* branchFn: older files until the branch is complete.
RECURSIVE Completed(_, _, _)
Completed(br, k, b) ==
  Apply(LAMBDA items :
          IF IsComplete(br) \/ items = <<>> THEN br
          ELSE Completed(MergeHexBranches(ValueIn(items, "commitment", k), br), k,
                         items[1].from - 1),
        ReadFromFiles("commitment", k, b))

Root == <<>>

branchFn(tb, b) == Completed(ReadLatest(tb, "commitment", Root, b), Root, b)

-----------------------------------------------------------------------------
(* Writing: w is [tables, words], words the changes pending for the tx.    *)

\* Put the new value with one more count, and record the change.
Changed(w, t, k, before, v) ==
  [tables |-> [w.tables EXCEPT ![t] = SetKey(@, k, [n |-> CountOf(w.tables, t, k) + 1, v |-> v])],
   words |-> [w.words EXCEPT ![t] = Append(@, [k |-> k, before |-> before, after |-> v])]]

UpdateAccountData(w, a, v, b) ==
  Apply(LAMBDA original : IF v = original THEN w ELSE Changed(w, "account", <<a>>, original, v),
        ReadLatest(w.tables, "account", <<a>>, b))

UpdateAccountCode(w, a, v, b) ==
  Changed(w, "code", <<a>>, ReadLatest(w.tables, "code", <<a>>, b), v)

WriteAccountStorage(w, k, v, b) ==
  Apply(LAMBDA original : IF v = original THEN w ELSE Changed(w, "storage", k, original, v),
        ReadLatest(w.tables, "storage", k, b))

\* The location keys a cursor over one item meets: a file is entered through
\* the marker with the account's address.
Reached(i, a) ==
  {k \in DOMAIN i.data : Len(k) > 1 /\ k[1] = a /\ (i.tree \/ <<a>> \in DOMAIN i.data)}

\* The value recorded as "before": from the newest file, or the database
\* record as it stands, its count included.
WithCount(r) == 100 * r.n + r.v
LastVal(tb, k, items) ==
  IF k \in DOMAIN tb["storage"] THEN WithCount(tb["storage"][k]) ELSE LastOf(items).data[k]

deleteAccount(w, a, b) ==
  Changed(w, "account", <<a>>, ReadLatest(w.tables, "account", <<a>>, b), 0)

deleteCode(w, a, b) ==
  IF <<a>> \notin DOMAIN w.tables["code"] /\ ReadLatest(w.tables, "code", <<a>>, b) = 0 THEN w
  ELSE Changed(w, "code", <<a>>, ReadLatest(w.tables, "code", <<a>>, b), 0)

\* Called for an account that exists.
DeleteAccount(w, a, b) ==
  LET locs == {k \in DOMAIN w.tables["storage"] : k[1] = a}
              \cup UNION {Reached(i, a) : i \in files["storage"]}
  IN FoldLeft(LAMBDA x, k : Changed(x, "storage", k,
                              LastVal(w.tables, k, {i \in files["storage"] : k \in Reached(i, a)}), 0),
              deleteCode(deleteAccount(w, a, b), a, b), Sorted(locs, KeyLess))

Call(w, c, b) ==
  CASE c.op = "account" -> UpdateAccountData(w, c.k[1], c.v, b)
    [] c.op = "code" -> UpdateAccountCode(w, c.k[1], c.v, b)
    [] c.op = "storage" -> WriteAccountStorage(w, c.k, c.v, b)
    [] c.op = "delete" -> IF ReadLatest(w.tables, "account", c.k, b) = 0 THEN w
                          ELSE DeleteAccount(w, c.k[1], b)

\* captureCommitmentData: code first, then accounts, then storage; an item
\* keeps the flags another type left on it.
Captured(tree, t, ch) ==
  LET old == IF ch.k \in DOMAIN tree THEN tree[ch.k] ELSE {}
      flags == CASE t = "code" -> IF old = {"delete"} /\ ch.after = 0 THEN {"delete"}
                                  ELSE {"code"} \cup (old \cap {"account"})
                 [] t = "account" -> IF ch.after = 0 THEN {"delete"}
                                     ELSE {"account"} \cup (old \cap {"code"})
                 [] t = "storage" -> IF ch.after = 0 THEN {"delete"} ELSE {"storage"}
  IN SetKey(tree, ch.k, flags)

captureCommitmentData(words) ==
  FoldLeft(LAMBDA tree, t : FoldLeft(LAMBDA x, ch : Captured(x, t, ch), tree, words[t]),
           <<>>, <<"code", "account", "storage">>)

\* The trie is external here: one branch with a cell for every key, the
\* touched ones in the update.
ProcessUpdates(comm, br) ==
  LET gone == {k \in DOMAIN comm : comm[k] = {"delete"}}
      after == (br.after \cup DOMAIN comm) \ gone
  IN [touch |-> DOMAIN comm, after |-> after,
      cells |-> [k \in DOMAIN comm \cap after |-> Plain(k)]]

\* The update is merged with what the table or the newest file holds.
computeCommitment(w, comm, b) ==
  IF comm = <<>> THEN w
  ELSE Apply(LAMBDA original :
               Changed(w, "commitment", Root, original,
                       MergeHexBranches(original, ProcessUpdates(comm, branchFn(w.tables, b)))),
             ReadLatest(w.tables, "commitment", Root, b))

-----------------------------------------------------------------------------
(* Aggregation of the change files of a step. *)

NoWords == [t \in ToSet(StateTypes) |-> <<>>]
FirstBlock(b) == (b \div Step) * Step

\* finish: the words of a transaction go to the files of the step.
finish(files0, words, b) ==
  [f \in DOMAIN files0 |->
    IF f[2] = FirstBlock(b)
    THEN files0[f] \o [i \in DOMAIN words[f[1]] |->
                        [tx |-> b, k |-> words[f[1]][i].k,
                         before |-> words[f[1]][i].before, after |-> words[f[1]][i].after]]
    ELSE files0[f]]

\* Every key once, with its latest value and the number of its changes; a
\* marker with the address before the locations of an account.
AggregateToBtree(t, changes) ==
  LET keys == {changes[i].k : i \in DOMAIN changes}
      marks == IF t = "storage" THEN {<<k[1]>> : k \in keys} ELSE {}
      of(k) == SelectSeq(changes, LAMBDA c : c.k = k)
      Value(k) == IF t = "commitment"
                  THEN FoldLeft(LAMBDA br, c : MergeHexBranches(br, c.after), NoBranch, of(k))
                  ELSE of(k)[Len(of(k))].after
  IN [k \in keys \cup marks |-> IF k \in keys THEN [n |-> Len(of(k)), v |-> Value(k)]
                                ELSE [n |-> 0, v |-> 0]]

\* aggregate: the counts of the changes are taken out of the table.
CountsSuffice(table, tree) ==
  \A k \in DOMAIN tree : tree[k].n = 0 \/ (k \in DOMAIN table /\ table[k].n >= tree[k].n)

\* Faulty variant: a record that stays keeps its count.
AggregatedUncounted(table, tree) ==
  [k \in {x \in DOMAIN table : x \notin DOMAIN tree \/ table[x].n > tree[x].n} |-> table[k]]

Aggregated(table, tree) ==
  [k \in {x \in DOMAIN table : x \notin DOMAIN tree \/ table[x].n > tree[x].n} |->
    IF k \in DOMAIN tree THEN [table[k] EXCEPT !.n = @ - tree[k].n] ELSE table[k]]

updateArch(slots, tree, to) ==
  [s \in DOMAIN slots |->
    IF slots[s] < to /\ \E k \in DOMAIN tree : tree[k].n > 0 /\ ArchSlot(k) = s
    THEN to ELSE slots[s]]

Item(from, to, tree, data) == [from |-> from, to |-> to, tree |-> tree, data |-> data]

\* addLocked: an item takes the place of the one with the same blocks.
AddLocked(fs, item) == {i \in fs : i.from # item.from \/ i.to # item.to} \cup {item}

\* History by transaction and key, and for every key its transactions.
produceChangeSets(t, changes) ==
  IF t \in Bitmaps
  THEN [k \in {changes[i].k : i \in DOMAIN changes} |->
         {changes[i].tx : i \in {j \in DOMAIN changes : changes[j].k = k}}]
  ELSE [k \in {<<changes[i].tx>> \o changes[i].k : i \in DOMAIN changes} |->
         changes[CHOOSE i \in DOMAIN changes : <<changes[i].tx>> \o changes[i].k = k].before]

-----------------------------------------------------------------------------
(* Merging. *)

\* The doubled end of an item that the files reach; 0 for an item past them.
RECURSIVE DoubleEnd(_, _, _, _, _)
DoubleEnd(from, next, reached, maxEnd, maxSpan) ==
  IF next > maxEnd \/ next - from >= maxSpan THEN reached
  ELSE DoubleEnd(from, 2 * next - from + 1, next, maxEnd, maxSpan)

NoMerge(list) == [from |-> 0, to |-> 0, remove |-> <<>>, pre |-> list, post |-> list]

MergeAt(list, i, to) ==
  LET last == CHOOSE j \in i .. Len(list) :
                /\ list[j].to >= to \/ j = Len(list)
                /\ \A m \in i .. j - 1 : list[m].to < to
  IN [from |-> list[i].from, to |-> to, remove |-> SubSeq(list, i, last),
      pre |-> SubSeq(list, 1, last), post |-> SubSeq(list, 1, i - 1)]

FindIn(list, maxEnd, maxSpan) ==
  LET Ends(i) == DoubleEnd(list[i].from, list[i].to, 0, maxEnd, maxSpan)
      mergeable == {i \in DOMAIN list : Ends(i) # list[i].to}
  IN IF mergeable = {} THEN NoMerge(list)
     ELSE Apply(LAMBDA i : MergeAt(list, i, Ends(i)),
                CHOOSE i \in mergeable : \A j \in mergeable : i <= j)

findLargestMerge(t, maxTo, maxSpan) ==
  LET onDisk == {i \in files[t] : ~i.tree}
      within == {i \in onDisk : i.to <= maxTo}
  IN IF within = {} THEN NoMerge(<<>>)
     ELSE FindIn(InOrder(onDisk), LastOf(within).to, maxSpan)

\* Values of one key from the oldest file to the newest.
MergeFunc(t, vs) ==
  CASE t = "commitment" -> FoldLeft(MergeHexBranches, Head(vs), Tail(vs))
    [] t \in Bitmaps -> UNION ToSet(vs)
    [] OTHER -> vs[Len(vs)]

MergedValue(t, items, k) ==
  MergeFunc(t, Apply(LAMBDA having : [i \in DOMAIN having |-> having[i].data[k]],
                     SelectSeq(items, LAMBDA i : k \in DOMAIN i.data)))

\* What a merge that starts at block 0 may drop.
Droppable(t, k, v) ==
  CASE t = "storage" -> v = 0 /\ Len(k) > 1
    [] t = "commitment" -> v.after = {}
    [] t \in {"account", "code"} -> v = 0
    [] OTHER -> FALSE

\* Faulty variant: a marker is dropped even before a location of its account.
MarkerStaysLast(k, kept) == Len(k) > 1 \/ \A x \in kept : ~KeyLess(k, x)

\* A marker is written if a location of its account follows, or it is last.
MarkerStays(k, kept) ==
  \/ Len(k) > 1
  \/ \A x \in kept : ~KeyLess(k, x)
  \/ \E x \in kept : x[1] = k[1] /\ Len(x) > 1

\* commitmentValTransform: references into the files after the merge.
commitmentValTransform(br, pre, post) ==
  LET Old(k) == PlainKey(br.cells[k], pre[CellType(k)])
      In(k) == {j \in DOMAIN post[CellType(k)] : Old(k) \in DOMAIN post[CellType(k)][j].data}
  IN [br EXCEPT !.cells = [k \in DOMAIN br.cells |->
       IF In(k) = {} THEN br.cells[k]
       ELSE Apply(LAMBDA j : Reference(j, OffsetOf(post[CellType(k)][j].data, Old(k))),
                  CHOOSE j \in In(k) : \A m \in In(k) : m <= j)]]

mergeIntoStateFile(t, items, from, pre, post) ==
  LET keys == UNION {DOMAIN items[i].data : i \in DOMAIN items}
      kept == {k \in keys : ~(from = 0 /\ Droppable(t, k, MergedValue(t, items, k)))}
  IN [k \in {x \in kept : t = "storage" => MarkerStays(x, kept)} |->
       IF t = "commitment" THEN commitmentValTransform(MergedValue(t, items, k), pre, post)
       ELSE MergedValue(t, items, k)]

\* The new file of type t for a merge found by findLargestMerge.
computeAggregation(t, m, pre, post) ==
  IF Len(m.remove) < 2 THEN <<>>
  ELSE <<Item(m.from, m.to, FALSE, mergeIntoStateFile(t, m.remove, m.from, pre, post))>>

RemoveLocked(fs, m, new) ==
  IF Len(m.remove) < 2 THEN fs ELSE AddLocked(fs \ ToSet(m.remove), new[1])

-----------------------------------------------------------------------------
(* The goroutine that executes blocks. *)

EmptyState == [account |-> <<>>, code |-> <<>>, storage |-> <<>>]

\* What a call means for the state.
Meant(st, c) ==
  CASE c.op = "account" -> [st EXCEPT !.account = SetKey(@, c.k, c.v)]
    [] c.op = "code" -> [st EXCEPT !.code = SetKey(@, c.k, c.v)]
    [] c.op = "storage" -> [st EXCEPT !.storage = IF c.v = 0 THEN Without(@, {c.k})
                                                  ELSE SetKey(@, c.k, c.v)]
    [] c.op = "delete" -> IF c.k \notin DOMAIN st.account THEN st
                          ELSE [account |-> Without(st.account, {c.k}),
                                code |-> Without(st.code, {c.k}),
                                storage |-> Without(st.storage,
                                              {k \in DOMAIN st.storage : k[1] = c.k[1]})]

Init ==
  /\ ChangeFilesClosed /\ script \in Scripts
  /\ block = -1 /\ executed = FALSE
  /\ tables = [t \in ToSet(StateTypes) |-> <<>>]
  /\ chg = <<>> /\ chgFileNum = 0 /\ chgTree = {}
  /\ files = [t \in FileTypes |-> {}]
  /\ arch = [t \in ToSet(StateTypes) |-> [s \in 0 .. ArchSize - 1 |-> 0]]
  /\ tasks = <<>> /\ done = 0 /\ mergeSig = FALSE /\ histSig = FALSE
  /\ merge = <<>> /\ hist = <<>> /\ failed = {} /\ restarts = 0
  /\ past = <<EmptyState>>

\* Reset: a new step closes the change files, registers them and opens others.
Opens(b) == chgFileNum = 0 \/ b > chgFileNum

Reset(b) ==
  /\ chgFileNum' = IF Opens(b) THEN FirstBlock(b) + Step - 1 ELSE chgFileNum
  /\ chgTree' = IF b > chgFileNum /\ chgFileNum # 0 THEN chgTree \cup {chgFileNum + 1 - Step}
                ELSE chgTree

OpenFiles(b) ==
  [f \in DOMAIN chg \cup (IF Opens(b) THEN ToSet(StateTypes) \X {FirstBlock(b)} ELSE {}) |->
    IF f \in DOMAIN chg THEN chg[f] ELSE <<>>]

Written(w, b) ==
  /\ tables' = w.tables
  /\ chg' = finish(OpenFiles(b), w.words, b)

\* One block: Reset, the calls of its transaction, FinishTx, ComputeCommitment.
Execute ==
  LET b == block + 1
      calls == IF b \in DOMAIN script THEN script[b] ELSE <<>>
  IN /\ ~executed /\ block < MaxBlock /\ failed = {}
     /\ Reset(b)
     /\ Apply(LAMBDA w : Written(computeCommitment(w, captureCommitmentData(w.words), b), b),
              FoldLeft(LAMBDA w, c : Call(w, c, b),
                       [tables |-> tables, words |-> NoWords], calls))
     /\ block' = b /\ executed' = TRUE
     /\ past' = Append(past, FoldLeft(Meant, past[Len(past)], calls))
     /\ UNCHANGED <<script, files, arch, background, failed, restarts>>

Due == block >= UnwindLimit + Step - 1 /\ (block - UnwindLimit + 1) % Step = 0

\* aggregateUpto: an earlier error of a goroutine is returned here; the send
\* of the task waits for room in aggChannel.
aggregateUpto(from, to) ==
  Apply(LAMBDA bt :
    IF from \notin chgTree \/ \E t \in ToSet(StateTypes) : ~CountsSuffice(tables[t], bt[t])
    THEN /\ failed' = failed \cup {"aggregate"}
         /\ UNCHANGED <<tables, chgTree, files, arch, tasks>>
    ELSE /\ chgTree' = chgTree \ {from}
         /\ tables' = [t \in ToSet(StateTypes) |-> Aggregated(tables[t], bt[t])]
         /\ arch' = [t \in ToSet(StateTypes) |-> updateArch(arch[t], bt[t], to)]
         /\ files' = [t \in FileTypes |->
              IF t \in ToSet(StateTypes)
              THEN AddLocked(files[t], Item(from, to, TRUE, [k \in DOMAIN bt[t] |-> bt[t][k].v]))
              ELSE files[t]]
         /\ tasks' = Append(tasks, [from |-> from, to |-> to])
         /\ UNCHANGED failed,
    [t \in ToSet(StateTypes) |-> AggregateToBtree(t, chg[<<t, from>>])])

Aggregate ==
  /\ executed /\ failed = {}
  /\ executed' = FALSE
  /\ IF Due THEN Len(tasks) <= AggCap /\ aggregateUpto(block - UnwindLimit + 1 - Step,
                                                      block - UnwindLimit)
     ELSE UNCHANGED <<tables, chgTree, files, arch, tasks, failed>>
  /\ UNCHANGED <<script, block, chg, chgFileNum, done, mergeSig, histSig, merge, hist,
                 restarts, past>>

-----------------------------------------------------------------------------
(* The background goroutines. *)

Order == HistoryTypes \o StateTypes

\* backgroundAggregation: the files of a task one by one, histories first;
\* then the change files of the type are deleted, and after the last file the
\* goroutines that merge are told.
AggStep ==
  LET t == Order[done + 1]
      task == Head(tasks)
      old == CHOOSE i \in files[t] : i.from = task.from /\ i.to = task.to
      item == Item(task.from, task.to, FALSE,
                   IF t \in ToSet(StateTypes) THEN old.data
                   ELSE produceChangeSets(t, chg[<<Base(t), task.from>>]))
      last == done + 1 = Len(Order)
  IN /\ tasks # <<>>
     /\ files' = [files EXCEPT ![t] = AddLocked(@, item)]
     /\ chg' = IF t \in ToSet(StateTypes) THEN Without(chg, {<<t, task.from>>}) ELSE chg
     /\ done' = IF last THEN 0 ELSE done + 1
     /\ tasks' = IF last THEN Tail(tasks) ELSE tasks
     /\ mergeSig' = (mergeSig \/ last) /\ histSig' = (histSig \/ last)
     /\ UNCHANGED <<script, block, executed, tables, chgFileNum, chgTree, arch, merge, hist,
                    failed, restarts, past>>

Far == MaxBlock + 1

\* The type whose files come last decides on the merge.
Pick(m) == IF m.to = 0 THEN <<>> ELSE <<[pick |-> m, found |-> <<>>, new |-> <<>>]>>

\* The other types must agree; then the new files are computed.
Find(g, types, lead, maxSpan) ==
  [t \in types |-> IF t = lead THEN g.pick ELSE findLargestMerge(t, g.pick.to, maxSpan)]

Agree(found, g) == \A t \in DOMAIN found : found[t].from = g.pick.from /\ found[t].to = g.pick.to

NewData(found) ==
  LET plain == [t \in {"account", "storage"} |-> computeAggregation(t, found[t], <<>>, <<>>)]
      pre == [t \in {"account", "storage"} |-> found[t].pre]
      post == [t \in {"account", "storage"} |-> found[t].post \o plain[t]]
  IN [t \in DOMAIN found |-> IF t \in DOMAIN plain THEN plain[t]
                             ELSE computeAggregation(t, found[t], pre, post)]

MergePick ==
  /\ mergeSig /\ merge = <<>> /\ "merge" \notin failed
  /\ mergeSig' = FALSE
  /\ merge' = Pick(findLargestMerge("commitment", Far, Far))
  /\ UNCHANGED <<script, block, executed, db, files, arch, tasks, done, histSig, hist, failed,
                 restarts, past>>

Computed(g, found) ==
  IF Agree(found, g)
  THEN /\ merge' = <<[g EXCEPT !.found = found, !.new = NewData(found)]>>
       /\ UNCHANGED failed
  ELSE merge' = <<>> /\ failed' = failed \cup {"merge"}

MergeCompute ==
  /\ merge # <<>> /\ merge[1].found = <<>>
  /\ Computed(merge[1], Find(merge[1], ToSet(StateTypes), "commitment", Far))
  /\ UNCHANGED <<script, block, executed, db, files, arch, tasks, done, mergeSig, histSig, hist,
                 restarts, past>>

\* removeLockedState: all state types change files under all locks.
MergeSwitch ==
  /\ merge # <<>> /\ merge[1].found # <<>>
  /\ files' = [t \in FileTypes |->
                IF t \in ToSet(StateTypes)
                THEN RemoveLocked(files[t], merge[1].found[t], merge[1].new[t]) ELSE files[t]]
  /\ merge' = <<>>
  /\ UNCHANGED <<script, block, executed, db, arch, tasks, done, mergeSig, histSig, hist, failed,
                 restarts, past>>

HistoryPick ==
  /\ histSig /\ hist = <<>> /\ "history" \notin failed
  /\ histSig' = FALSE
  /\ hist' = Pick(findLargestMerge("cbitmap", Far, Span))
  /\ UNCHANGED <<script, block, executed, db, files, arch, tasks, done, mergeSig, merge, failed,
                 restarts, past>>

HistoryComputed(g, found) ==
  IF Agree(found, g)
  THEN /\ hist' = <<[g EXCEPT !.found = found,
                     !.new = [t \in DOMAIN found |-> computeAggregation(t, found[t], <<>>, <<>>)]]>>
       /\ UNCHANGED failed
  ELSE hist' = <<>> /\ failed' = failed \cup {"history"}

HistoryCompute ==
  /\ hist # <<>> /\ hist[1].found = <<>>
  /\ HistoryComputed(hist[1], Find(hist[1], ToSet(HistoryTypes), "cbitmap", Span))
  /\ UNCHANGED <<script, block, executed, db, files, arch, tasks, done, mergeSig, histSig, merge,
                 restarts, past>>

\* A final file is reduced before the switch; removeLocked takes the types one
\* by one, which no reader of the aggregator can tell.
HistorySwitch ==
  /\ hist # <<>> /\ hist[1].found # <<>>
  /\ files' = [t \in FileTypes |->
                IF t \in ToSet(HistoryTypes)
                THEN RemoveLocked(files[t], hist[1].found[t], hist[1].new[t]) ELSE files[t]]
  /\ hist' = <<>>
  /\ UNCHANGED <<script, block, executed, db, arch, tasks, done, mergeSig, histSig, merge, failed,
                 restarts, past>>

-----------------------------------------------------------------------------
(* Close and NewAggregator. *)

\* checkOverlaps and the hole check of change files: from the last interval
\* down, every interval that reaches lower must touch the one above it.
RECURSIVE Tiles(_, _)
Tiles(list, minStart) ==
  IF list = <<>> THEN TRUE
  ELSE Apply(LAMBDA i : IF i.from >= minStart THEN Tiles(Front(list), minStart)
                        ELSE /\ minStart = Far \/ i.to + 1 = minStart
                             /\ Tiles(Front(list), i.from),
             list[Len(list)])

Steps == {f[2] : f \in DOMAIN chg}
ChangeItems == {Item(s, s + Step - 1, FALSE, <<>>) : s \in Steps}
MinStart == IF Steps = {} THEN Far ELSE CHOOSE s \in Steps : \A r \in Steps : s <= r

checkOverlapWithMinStart(fs) ==
  fs = {} \/ MinStart = Far \/ LastOf(fs).to + 1 = MinStart

AllChanges(t) == FoldLeft(LAMBDA cs, s : cs \o chg[<<t, s>>], <<>>, Sorted(Steps, <))

\* The tables must say what the change files say.
rebuildRecentState ==
  \A t \in ToSet(StateTypes) :
    Apply(LAMBDA tree : \A k \in DOMAIN tree :
            \/ t # "commitment" /\ tree[k].v = 0
            \/ k \in DOMAIN tables[t] /\ tables[t][k] = tree[k],
          AggregateToBtree(t, AllChanges(t)))

RestartAccepted ==
  /\ \A t \in FileTypes : Tiles(InOrder(files[t]), Far)
  /\ Tiles(InOrder(ChangeItems), Far)
  /\ \A t \in ToSet(StateTypes) : checkOverlapWithMinStart(files[t])
  /\ rebuildRecentState

\* openFiles: the end block of the newest file with a key in the slot.
RebuiltArch(fs) ==
  [s \in 0 .. ArchSize - 1 |->
    LET having == {i \in fs : \E k \in DOMAIN i.data : ArchSlot(k) = s}
    IN IF having = {} THEN 0 ELSE LastOf(having).to]

\* Close waits for the goroutines and drops signals that wait.
Restart ==
  /\ ~executed /\ restarts < MaxRestarts /\ failed = {}
  /\ tasks = <<>> /\ merge = <<>> /\ hist = <<>>
  /\ restarts' = restarts + 1
  /\ mergeSig' = FALSE /\ histSig' = FALSE
  /\ failed' = IF RestartAccepted THEN {} ELSE {"restart"}
  /\ chgFileNum' = 0 /\ chgTree' = Steps
  /\ arch' = [t \in ToSet(StateTypes) |-> RebuiltArch(files[t])]
  /\ UNCHANGED <<script, block, executed, tables, chg, files, tasks, done, merge, hist, past>>

Background == \/ AggStep \/ MergePick \/ MergeCompute \/ MergeSwitch
              \/ HistoryPick \/ HistoryCompute \/ HistorySwitch

Next == Execute \/ Aggregate \/ Background \/ Restart

Spec == Init /\ [][Next]_vars

-----------------------------------------------------------------------------
(* HistoryReader, over the files with blocks up to blockTo. *)

HistoryFiles(t, blockTo) == {i \in files[t] : ~i.tree /\ i.to <= blockTo}

\* Faulty variant: a change by the transaction itself is passed over.
searchInHistoryAfter(bitmap, history, k, b, tx, blockTo) ==
  LET pivot == [from |-> b - (b % Span), to |-> b]
      hits == {i \in HistoryFiles(bitmap, blockTo) :
                ~Before(i, pivot) /\ k \in DOMAIN i.data /\ \E n \in i.data[k] : n > tx}
      at == CHOOSE n \in FirstOf(hits).data[k] :
              n > tx /\ \A m \in FirstOf(hits).data[k] : m > tx => n <= m
      item == CHOOSE i \in HistoryFiles(history, blockTo) :
                i.to = FirstOf(hits).to /\ i.from = i.to - (Span - 1)
  IN IF hits = {} THEN <<>> ELSE <<item.data[<<at>> \o k]>>

\* The first bitmap at or after the block with a change at or after tx.
searchInHistory(bitmap, history, k, b, tx, blockTo) ==
  LET pivot == [from |-> b - (b % Span), to |-> b]
      hits == {i \in HistoryFiles(bitmap, blockTo) :
                ~Before(i, pivot) /\ k \in DOMAIN i.data /\ \E n \in i.data[k] : n >= tx}
      at == CHOOSE n \in FirstOf(hits).data[k] :
              n >= tx /\ \A m \in FirstOf(hits).data[k] : m >= tx => n <= m
      item == CHOOSE i \in HistoryFiles(history, blockTo) :
                i.to = FirstOf(hits).to /\ i.from = i.to - (Span - 1)
  IN IF hits = {} THEN <<>> ELSE <<item.data[<<at>> \o k]>>

HistoryRead(bitmap, history, t, k, b, tx, blockTo) ==
  Apply(LAMBDA h :
          IF h # <<>> THEN h[1]
          ELSE Apply(LAMBDA having : IF having = {} THEN 0 ELSE LastOf(having).data[k],
                     {i \in HistoryFiles(t, blockTo) : k \in DOMAIN i.data}),
        searchInHistory(bitmap, history, k, b, tx, blockTo))

-----------------------------------------------------------------------------
(* What the package promises. *)

Now == past[Len(past)]
ValueOf(f, k) == IF k \in DOMAIN f THEN f[k] ELSE 0
AllKeys == UNION {{c.k : c \in ToSet(script[b])} : b \in DOMAIN script}
KeysOf(t) == {k \in AllKeys : IF t = "storage" THEN Len(k) > 1 ELSE Len(k) = 1}

\* A Reader returns what was last written, whatever the goroutines have moved
\* from the tables to trees, files and merged files by then, and the commitment
\* branch has a cell for every account and location that exists, whose
\* reference still names its key ("not necessarily the block number where the
\* item last changed, but it is guaranteed to find correct element").
ReadsLatest ==
  /\ \A t \in {"account", "code", "storage"} : \A k \in KeysOf(t) :
       ReadLatest(tables, t, k, block + 1) = ValueOf(Now[t], k)
  /\ branchFn(tables, block + 1).after = DOMAIN Now.account \cup DOMAIN Now.storage
  /\ \A k \in DOMAIN branchFn(tables, block + 1).cells :
       branchFn(tables, block + 1).cells[k] = Plain(k)

\* The aggregator never runs into its own errors: the counts in the tables
\* suffice for the change files of a step ("record count too low"), all types
\* merge the same blocks ("From %d != blockFrom %d"), and the checks of
\* NewAggregator accept what Close left.
NothingFails == failed = {}

\* Histories reach blockTo in final files only, and so does the state.
HistoryReady(blockTo) ==
  /\ \A t \in FileTypes : \E i \in files[t] : ~i.tree /\ i.to = blockTo
  /\ \A t \in ToSet(HistoryTypes) : \A i \in HistoryFiles(t, blockTo) : i.to - i.from = Span - 1

\* Reads of key k as of every transaction: before it, and after the last.
ReadAsOf(bitmap, history, t, k, blockTo) ==
  \A b \in 0 .. blockTo :
    /\ HistoryRead(bitmap, history, t, k, b, b, blockTo) = ValueOf(past[b + 1][t], k)
    /\ HistoryRead(bitmap, history, t, k, b + 1, b + 1, blockTo) = ValueOf(past[b + 2][t], k)

Deleted == {c.k[1] : c \in {x \in UNION {ToSet(script[b]) : b \in DOMAIN script} : x.op = "delete"}}

\* History "allows reading history of state": the value of an account, a code
\* or a location before and after every transaction, from bitmap, history and
\* state files as the background merges left them.  Locations of accounts
\* that are deleted are left out: the README says what they read.
HistoryAsOf ==
  \A blockTo \in {n \in 0 .. block : HistoryReady(n)} :
    /\ \A k \in KeysOf("account") : ReadAsOf("abitmap", "ahistory", "account", k, blockTo)
    /\ \A k \in KeysOf("code") : ReadAsOf("cbitmap", "chistory", "code", k, blockTo)
    /\ \A k \in {x \in KeysOf("storage") : x[1] \notin Deleted} :
         ReadAsOf("sbitmap", "shistory", "storage", k, blockTo)

=============================================================================
