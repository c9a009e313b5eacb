------------------------------ MODULE Domains ------------------------------
(* The state domains of the legacy Aggregator (state/domain.go,             *)
(* domain_committed.go, aggregator.go and their part of merge.go): the      *)
(* latest value of each key is kept in the database under the step that     *)
(* wrote it; when a step ends, the step before it is collated into a file,  *)
(* pruned, and files are merged.  A commitment over the touched keys is     *)
(* computed and the place where it was computed is what a restart resumes   *)
(* from.                                                                    *)
(*                                                                          *)
(* A key is a sequence: an account <<a>>, a storage item <<a, l>>.  A value *)
(* is a set and {} is the empty value, which is how a deletion is stored.   *)
(* What the commitment trie holds is the value of its one branch, Root: the *)
(* plain keys with what they commit to.  A file stands for the values, the  *)
(* history and the index of its steps, which are built and merged together. *)
EXTENDS FileRanges, Functions, TLC

CONSTANTS
    Accounts, Locations,  \* what keys are made of
    Contents,             \* the values written
    AggregationStep,
    MaxTxNum,             \* bound on txNum
    Budgets               \* bounds on how often each of Bounded happens: one is chosen at the start

Bounded == {"tx", "write", "crash"}

SmallSizes == AggregationStep \in 2..16 /\ MaxTxNum \in Nat /\ Budgets \subseteq [Bounded -> Nat]

VARIABLES
    db,        \* domain -> its tables, as the read-write transaction has them
    wal,       \* domain -> key -> the history that is not flushed
    disk,      \* the tables as committed
    files,     \* domain -> its files
    base,      \* domain -> the files of defaultDc, which is made when the process starts
    building,  \* domain -> the collation that is being built
    phase,     \* "run", or what FinishTx has yet to do: "build", "merge"
    txNum,     \* the next txNum
    seekTxNum,
    touched,   \* commTree: the plain keys to be committed
    past,      \* not in the code: past[t + 1] is the state before txNum t
    missed,    \* not in the code: the keys that a collation has left out
    left       \* how often the bounded events may still happen

tables == <<db, wal, disk>>
progress == <<phase, txNum, seekTxNum, touched, past>>
vars == <<tables, files, base, building, progress, missed, left>>

Domains == {"accounts", "storage", "code", "commitment"}
PrefixLen(d) == IF d = "storage" THEN 1 ELSE 0

Empty == {}
Steps == 0..MaxTxNum \div AggregationStep
Step(t) == t \div AggregationStep
Root == <<0>>
StateKey(s) == <<9, s>>
StorageKeys == {<<a, l>> : a \in Accounts, l \in Locations}
AccountKeys == {<<a>> : a \in Accounts}

KeysOf(d) == CASE d = "storage" -> StorageKeys
               [] d = "commitment" -> {Root} \cup {StateKey(s) : s \in Steps}
               [] OTHER -> AccountKeys

NoHistory(d) == [k \in KeysOf(d) |-> <<>>]
NoTables == [d \in Domains |-> [vals |-> [k \in KeysOf(d) |-> <<>>], hist |-> NoHistory(d)]]
NoState == [d \in Domains |-> [k \in KeysOf(d) |-> Empty]]

StartTxNum(f) == f.from * AggregationStep
EndTxNum(f) == f.to * AggregationStep
-----------------------------------------------------------------------------
(* Reading.  vals[k] is keysTable and valsTable of k: its values by step.   *)

Newest(fs) == CHOOSE f \in fs : \A g \in fs : g.to <= f.to
NotFound == [found |-> FALSE, val |-> Empty]
Found(v) == [found |-> TRUE, val |-> v]

ReadFromFiles(fs, k, t) ==
    LET having == {f \in fs : EndTxNum(f) >= t /\ k \in DOMAIN f.kv}
    IN  IF having = {} THEN NotFound ELSE Found(Newest(having).kv[k])

Get(table, fs, k, t) ==
    LET steps == {s \in DOMAIN table.vals[k] : s <= Step(t)}
    IN  IF steps = {} THEN ReadFromFiles(fs, k, t) ELSE Found(table.vals[k][Max(steps)])

\* The value kept with the first change of k at or after t.
FirstChange(hist, t) ==
    LET later == {n \in DOMAIN hist : n >= t}
    IN  IF later = {} THEN NotFound ELSE Found(hist[Min(later)])

\* Whether the search of the index stops at f: it has k, and either a change
\* at or after t or none although it reaches past t.
Decides(f, k, t) ==
    k \in DOMAIN f.hist /\ (FirstChange(f.hist[k], t).found \/ EndTxNum(f) > t)

HistoryBeforeTxNum(table, fs, k, t) ==
    LET looked == {f \in fs : EndTxNum(f) >= t}
        top == CHOOSE f \in looked : \A g \in looked : f.to <= g.to
        deciding == {f \in looked : Decides(f, k, t)}
        first == CHOOSE f \in deciding : \A g \in deciding : f.to <= g.to
        older == {f \in fs : f.from <= top.from /\ k \in DOMAIN f.kv}
    IN  CASE looked = {} -> FirstChange(table.hist[k], t)
          [] looked # {} /\ deciding # {} /\ FirstChange(first.hist[k], t).found ->
               FirstChange(first.hist[k], t)
          [] OTHER -> Found(IF older = {} THEN Empty ELSE Newest(older).kv[k])

GetBeforeTxNum(table, fs, k, t) ==
    LET h == HistoryBeforeTxNum(table, fs, k, t)
    IN  IF h.found THEN h.val ELSE Get(table, fs, k, t - 1).val
-----------------------------------------------------------------------------
(* Writing.  A write is a pair of the tables and the unflushed history of   *)
(* one domain.                                                              *)

AddPrevValue(w, k, t, original) == [w EXCEPT ![k] = (t :> original) @@ @]

Update(w, k, t, original, v) ==
    [ db  |-> [w.db EXCEPT !.vals[k] = (Step(t) :> v) @@ @],
      wal |-> AddPrevValue(w.wal, k, t, original) ]

Put(w, fs, k, t, v) ==
    LET original == Get(w.db, fs, k, t).val
    IN  IF original = v THEN w ELSE Update(w, k, t, original, v)

Delete(w, fs, k, t) ==
    LET original == Get(w.db, fs, k, t)
    IN  IF ~original.found THEN w ELSE Update(w, k, t, original.val, Empty)

\* IteratePrefix.  One cursor on the database, whose txNum stays that of its
\* first key, and one on each file that has the prefix; of equal keys the one
\* with the greatest txNum is taken, and which one if they are equal is left
\* open.  Only keys with a value are visited.
HasPrefix(k, p) == IsPrefix(p, k)

Cursors(w, fs, p) ==
    LET inDb == {k \in StorageKeys : HasPrefix(k, p) /\ DOMAIN w.db.vals[k] # {}}
        firstKey == CHOOSE k \in inDb : \A j \in inDb : k[2] <= j[2]
        dbCursor == [end |-> AggregationStep * Max(DOMAIN w.db.vals[firstKey]),
                     kv |-> [k \in inDb |-> w.db.vals[k][Max(DOMAIN w.db.vals[k])]]]
    IN  (IF inDb = {} THEN {} ELSE {dbCursor})
          \cup {[end |-> EndTxNum(f), kv |-> Restrict(f.kv, {k \in DOMAIN f.kv \ {p} : HasPrefix(k, p)})]
                  : f \in {g \in fs : p \in DOMAIN g.kv}}

\* Mutant: the cursor of the database is not moved.
IteratePrefixOnce(w, fs, p) ==
    LET found == {k \in UNION {DOMAIN c.kv : c \in Cursors(w, fs, p)} : TRUE}
    IN  {k \in found : \A j \in found : k[2] <= j[2]}

IteratePrefix(w, fs, p) ==
    {k \in StorageKeys :
        \E c \in Cursors(w, fs, p) :
            /\ k \in DOMAIN c.kv /\ c.kv[k] # Empty
            /\ \A o \in Cursors(w, fs, p) : k \in DOMAIN o.kv => o.end <= c.end}
-----------------------------------------------------------------------------
(* Collation, pruning and merging of one domain.                            *)

\* The keys whose oldest step in the database is this one.
CollatedKeys(table, s) ==
    {k \in DOMAIN table.vals : DOMAIN table.vals[k] # {} /\ Min(DOMAIN table.vals[k]) = s}

InStep(h, s) == Restrict(h, {t \in DOMAIN h : Step(t) = s})

\* Keys of a domain with prefixes are preceded by their prefix.
PrefixEntries(d, ks) == IF PrefixLen(d) = 0 THEN {} ELSE {SubSeq(k, 1, PrefixLen(d)) : k \in ks}

Collate(d, table, s) ==
    LET ks == CollatedKeys(table, s)
    IN  [ from |-> s, to |-> s + 1,
          kv |-> [k \in ks |-> table.vals[k][s]] @@ [p \in PrefixEntries(d, ks) |-> Empty],
          hist |-> [k \in {j \in KeysOf(d) : DOMAIN InStep(table.hist[j], s) # {}} |->
                        InStep(table.hist[k], s)] ]

Pruned(table, s) ==
    [ vals |-> [k \in DOMAIN table.vals |->
                  Restrict(table.vals[k],
                           {n \in DOMAIN table.vals[k] : n # s \/ n = Max(DOMAIN table.vals[k])})],
      hist |-> [k \in DOMAIN table.hist |->
                  Restrict(table.hist[k], {t \in DOMAIN table.hist[k] : Step(t) # s})] ]

KeyLess(j, k) == j # k /\ (HasPrefix(k, j) \/ (~HasPrefix(j, k) /\ \E i \in DOMAIN j \cap DOMAIN k :
                    j[i] < k[i] /\ \A n \in 1..i - 1 : j[n] = k[n]))

\* Mutant: deletions go from every merged file.
MergedValuesPresent(d, outs, from) ==
    LET ks == UNION {DOMAIN f.kv : f \in outs}
        all == [k \in ks |-> Newest({f \in outs : k \in DOMAIN f.kv}).kv[k]]
    IN  Restrict(all, {k \in ks : all[k] # Empty \/ Len(k) = PrefixLen(d)})

\* mergeFiles: of each key the newest value; deletions go from a file that
\* starts at 0, and prefixes that no key follows.
MergedValues(d, outs, from) ==
    LET ks == UNION {DOMAIN f.kv : f \in outs}
        all == [k \in ks |-> Newest({f \in outs : k \in DOMAIN f.kv}).kv[k]]
        kept == {k \in ks : ~(from = 0 /\ all[k] = Empty /\ (PrefixLen(d) = 0 \/ Len(k) # PrefixLen(d)))}
        written == {k \in kept : \/ PrefixLen(d) = 0 \/ Len(k) # PrefixLen(d)
                                 \/ \E j \in kept : j # k /\ HasPrefix(j, k)
                                 \/ \A j \in kept : ~KeyLess(k, j)}
    IN  Restrict(all, written)

MergedHistory(outs) ==
    [k \in UNION {DOMAIN f.hist : f \in outs} |->
        FoldSet(LAMBDA f, h : IF k \in DOMAIN f.hist THEN f.hist[k] @@ h ELSE h, <<>>, outs)]

MergeDomain(d, fs, maxEnd) ==
    LET r == IndexMergeRange(fs, maxEnd)
        outs == ToSet(StaticFilesInRange(fs, r))
    IN  IF ~r.any THEN fs
        ELSE (fs \ outs) \cup {[from |-> r.from, to |-> r.to,
                                kv |-> MergedValues(d, outs, r.from), hist |-> MergedHistory(outs)]}
-----------------------------------------------------------------------------
(* The commitment.                                                          *)

\* accountFn and storageFn: what a touched key commits to.
CellOf(d, k, t) ==
    IF Len(k) = 1 THEN <<Get(d["accounts"], base["accounts"], k, t).val, Get(d["code"], base["code"], k, t).val>>
    ELSE <<Get(d["storage"], base["storage"], k, t).val>>

IsDelete(cell) == \A i \in DOMAIN cell : cell[i] = Empty

\* ReviewKeys, applied to the branch as branchFn reads it.
Reviewed(d, ks, t) ==
    LET old == Get(d["commitment"], base["commitment"], Root, t).val
    IN  {e \in old : e[1] \notin ks}
          \cup {e \in {<<k, CellOf(d, k, t)>> : k \in ks} : ~IsDelete(e[2])}

\* ComputeCommitment, of the tables w (a function of writes), with the state
\* stored under the step.
ComputeCommitment(w, ks, t) ==
    LET tabs == [d \in Domains |-> w[d].db]
        c1 == IF ks = {} THEN w["commitment"]
              ELSE Put(w["commitment"], base["commitment"], Root, t, Reviewed(tabs, ks, t))
        c2 == IF seekTxNum > t THEN c1
              ELSE Put(c1, base["commitment"], StateKey(Step(t)), t, {t})
    IN  [w EXCEPT !["commitment"] = c2]

MinimaxOf(fs) == Min({EndOf(fs[d]) : d \in Domains}) * AggregationStep
EndTxNumMinimax == MinimaxOf(files)

\* SeekCommitment, from the end of the files on: the last state stored that
\* the ones before lead to.  With no files there is none.
SeekCommitment(table, fs, since) ==
    LET At(s) == Get(table, fs, StateKey(s), s * AggregationStep + AggregationStep - 1).val
        Reached(s) == \A n \in Step(since) - 1..s : At(n) # Empty
        reached == {s \in Steps : s >= Step(since) - 1 /\ Reached(s)}
    IN  IF since = 0 \/ reached = {} THEN 0 ELSE (CHOOSE t \in At(Max(reached)) : TRUE) + 1
-----------------------------------------------------------------------------
(* One txNum: what it changes, then FinishTx.                               *)

Writes == [d \in Domains |-> [db |-> db[d], wal |-> wal[d]]]

NoOp == [op |-> "none", key |-> <<>>, val |-> Empty]
Ops == {NoOp}
       \cup [op : {"account"}, key : AccountKeys, val : Contents]
       \cup [op : {"code"}, key : AccountKeys, val : Contents \cup {Empty}]
       \cup [op : {"storage"}, key : StorageKeys, val : Contents \cup {Empty}]
       \cup [op : {"delete"}, key : AccountKeys, val : {Empty}]

\* The storage keys that DeleteAccount visits.
Visited(o) == IF o.op = "delete" THEN IteratePrefix(Writes["storage"], base["storage"], o.key) ELSE {}

PutOrDelete(w, d, k, v) ==
    [w EXCEPT ![d] = IF v = Empty THEN Delete(@, base[d], k, txNum) ELSE Put(@, base[d], k, txNum, v)]

\* UpdateAccountData, UpdateAccountCode, WriteAccountStorage, DeleteAccount.
Applied(o) ==
    CASE o.op = "none" -> Writes
      [] o.op = "account" -> PutOrDelete(Writes, "accounts", o.key, o.val)
      [] o.op = "code" -> PutOrDelete(Writes, "code", o.key, o.val)
      [] o.op = "storage" -> PutOrDelete(Writes, "storage", o.key, o.val)
      [] o.op = "delete" ->
           FoldSet(LAMBDA k, w : PutOrDelete(w, "storage", k, Empty),
                   PutOrDelete(PutOrDelete(Writes, "accounts", o.key, Empty), "code", o.key, Empty),
                   Visited(o))

\* What the operation means, whatever the tables hold.
Meant(o) ==
    LET s == past[Len(past)]
    IN  CASE o.op = "none" -> s
          [] o.op = "account" -> [s EXCEPT !["accounts"][o.key] = o.val]
          [] o.op = "code" -> [s EXCEPT !["code"][o.key] = o.val]
          [] o.op = "storage" -> [s EXCEPT !["storage"][o.key] = o.val]
          [] o.op = "delete" ->
               [s EXCEPT !["accounts"][o.key] = Empty, !["code"][o.key] = Empty,
                         !["storage"] = [k \in StorageKeys |-> IF HasPrefix(k, o.key) THEN Empty ELSE @[k]]]

ReadyToFinishTx == (txNum + 1) % AggregationStep = 0 /\ seekTxNum < txNum

\* Mutant: only the account is touched when it is deleted.
TouchesKey(o) == touched \cup (IF o.op = "none" THEN {} ELSE {o.key})

Touches(o) == touched \cup (IF o.op = "none" THEN {} ELSE {o.key}) \cup Visited(o)

Flushed(w) ==
    [d \in Domains |-> [w[d].db EXCEPT !.hist = [k \in KeysOf(d) |-> w[d].wal[k] @@ @[k]]]]

Use(events) ==
    /\ \A e \in events : left[e] > 0
    /\ left' = [e \in Bounded |-> IF e \in events THEN left[e] - 1 ELSE left[e]]

Executed(o, w, ks) ==
    /\ phase = "run" /\ txNum < MaxTxNum
    /\ Use(IF o = NoOp THEN {"tx"} ELSE {"tx", "write"})
    /\ touched' = ks
    /\ txNum' = txNum + 1
    /\ past' = Append(past, Meant(o))
    /\ UNCHANGED <<files, base, seekTxNum>>

\* A txNum in the middle of a step.
Tx(o) ==
    /\ ~ReadyToFinishTx
    /\ Executed(o, Applied(o), Touches(o))
    /\ db' = [d \in Domains |-> Applied(o)[d].db]
    /\ wal' = [d \in Domains |-> Applied(o)[d].wal]
    /\ UNCHANGED <<disk, building, phase, missed>>

\* The last txNum of step 0: committed at once, and the history not flushed.
FirstStepTx(o) ==
    /\ ReadyToFinishTx /\ Step(txNum) = 0
    /\ Executed(o, Applied(o), {})
    /\ LET w == ComputeCommitment(Applied(o), Touches(o), txNum)
       IN  /\ db' = [d \in Domains |-> w[d].db] /\ disk' = db'
           /\ wal' = [d \in Domains |-> w[d].wal]
    /\ UNCHANGED <<building, phase, missed>>

\* aggregate: the step before is collated and pruned, domain by domain, in the
\* transaction; the files are built meanwhile.
Aggregated(tabs, s) ==
    /\ db' = [d \in Domains |-> Pruned(tabs[d], s)]
    /\ building' = [d \in Domains |-> {Collate(d, tabs[d], s)}]
    /\ missed' = missed \cup UNION {{<<d, k>> : k \in {j \in KeysOf(d) : s \in DOMAIN tabs[d].vals[j]}
                                                    \ CollatedKeys(tabs[d], s)} : d \in Domains}

\* The last txNum of a later step.
LastTx(o) ==
    /\ ReadyToFinishTx /\ Step(txNum) > 0
    /\ Executed(o, Applied(o), {})
    /\ Aggregated(Flushed(ComputeCommitment(Applied(o), Touches(o), txNum)), Step(txNum) - 1)
    /\ wal' = [d \in Domains |-> NoHistory(d)]
    /\ phase' = "build"
    /\ UNCHANGED disk

\* buildFiles and integrateFiles of the domains in S.  A file built again
\* replaces the one that a killed process has left.
WithBuilt(S) ==
    [d \in Domains |->
        IF d \notin S THEN files[d]
        ELSE {f \in files[d] : \A c \in building[d] : ~SameRange(f, c)} \cup building[d]]

\* All goroutines have built and integrated.
Build ==
    /\ phase = "build" /\ phase' = "merge"
    /\ files' = WithBuilt(Domains)
    /\ building' = [d \in Domains |-> {}]
    /\ UNCHANGED <<tables, base, txNum, seekTxNum, touched, past, missed, left>>

AnyMerge == \E d \in Domains : IndexMergeRange(files[d], Step(EndTxNumMinimax)).any

\* mergeLoopStep.
MergeLoopStep ==
    /\ phase = "merge" /\ AnyMerge
    /\ files' = [d \in Domains |-> MergeDomain(d, files[d], Step(EndTxNumMinimax))]
    /\ UNCHANGED <<tables, base, building, progress, missed, left>>

\* commitFn, when nothing is left to merge.
CommitFn ==
    /\ phase = "merge" /\ ~AnyMerge
    /\ disk' = db
    /\ phase' = "run"
    /\ UNCHANGED <<db, wal, files, base, building, txNum, seekTxNum, touched, past, missed, left>>

\* The process is killed and started again, and goes on from SeekCommitment.
\* Two times are left out.  Before the end of step 1 is committed: with no
\* files SeekCommitment answers 0 whatever was committed, and FinishTx commits
\* step 0 without its history.  And between a merge and the commit: the step
\* is then built again beside the merged file, findMergeRange wants the values
\* merged again but not the history, and integrateMergedFiles dereferences the
\* history that there is not.  While files are built, any of them may be done.
Restart(S) ==
    /\ Use({"crash"})
    /\ phase # "merge"
    /\ DOMAIN disk["commitment"].vals[StateKey(1)] # {}
    /\ LET at == SeekCommitment(disk["commitment"], WithBuilt(S)["commitment"], MinimaxOf(WithBuilt(S)))
       IN  /\ seekTxNum' = at /\ txNum' = at
           /\ past' = SubSeq(past, 1, Min({at + 1, Len(past)}))
    /\ db' = disk
    /\ wal' = [d \in Domains |-> NoHistory(d)]
    /\ files' = WithBuilt(S) /\ base' = files'
    /\ building' = [d \in Domains |-> {}]
    /\ phase' = "run"
    /\ touched' = {}
    /\ UNCHANGED <<disk, missed>>

Init ==
    /\ SmallSizes
    /\ db = NoTables /\ disk = NoTables
    /\ wal = [d \in Domains |-> NoHistory(d)]
    /\ files = [d \in Domains |-> {}] /\ base = files
    /\ building = [d \in Domains |-> {}]
    /\ phase = "run" /\ txNum = 0 /\ seekTxNum = 0
    /\ touched = {} /\ missed = {}
    /\ past = <<NoState>>
    /\ left \in Budgets

Next ==
    \/ \E o \in Ops : Tx(o) \/ FirstStepTx(o) \/ LastTx(o)
    \/ Build
    \/ MergeLoopStep
    \/ CommitFn
    \/ \E S \in SUBSET Domains : Restart(S)

Spec == Init /\ [][Next]_vars
-----------------------------------------------------------------------------
(* Properties.                                                              *)

StateDomains == {"accounts", "storage", "code"}
Now == past[Len(past)]

\* DomainContext.Get: whatever was collated, pruned and merged, and after a
\* restart that may repeat what was not committed, the execution reads the
\* value that was written last; DeleteAccount has visited every storage item.
LatestReads ==
    phase = "run" =>
        \A d \in StateDomains : \A k \in KeysOf(d) :
            Get(db[d], base[d], k, txNum).val = Now[d][k]

\* GetBeforeTxNum, with a committed transaction and the files made since it
\* began: the value before each txNum, for the keys that no collation has left
\* out.  Nothing of the history is committed before the first files.
ReadsBefore ==
    EndTxNumMinimax > 0 =>
        \A d \in StateDomains : \A k \in {j \in KeysOf(d) : <<d, j>> \notin missed} :
            \A t \in 1..(IF phase = "run" THEN AggregationStep * Step(txNum) ELSE 0) :
                GetBeforeTxNum(disk[d], files[d], k, t) = past[t + 1][d][k]

\* ComputeCommitment: at the end of a step the commitment covers just the
\* state, also when keys were touched by a process that was killed since.
CommitmentCoversState ==
    txNum > 0 /\ txNum % AggregationStep = 0 =>
        Get(db["commitment"], base["commitment"], Root, txNum).val =
            {e \in {<<k, <<Now["accounts"][k], Now["code"][k]>> >> : k \in AccountKeys}
                     \cup {<<k, <<Now["storage"][k]>> >> : k \in StorageKeys} : ~IsDelete(e[2])}

=============================================================================
