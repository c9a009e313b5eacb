---------------------------- MODULE MCStateHistory ----------------------------
(***************************************************************************)
(* The history of the state, the life of its files, and the locality       *)
(* index; a behaviour is about one of them.  History: two keys and steps   *)
(* of two txNums; five txNums, built and pruned, or fewer with an unwind   *)
(* or a crash.  Files: three steps, one of them built before, with up to   *)
(* two kills and a write that fails. Locality index: three keys, two       *)
(* frozen files of four kinds, two builds, a reader and a kill.            *)
(***************************************************************************)
EXTENDS Integers, Sequences, FiniteSets, TLC

CONSTANTS r1

VARIABLES
  active,  \* the component this behaviour is about
  mem, db, disk, files, left, txNum, pruned, maxTxNum, ro, item, call,
  builder, merger, ctx, li, refs, canDelete

-----------------------------------------------------------------------------
PutAll(keys) == [k \in keys |-> "put"]

\* A txNum changes nothing, the first key or both, or deletes the first.
AllBatches == {PutAll({}), PutAll({1}), PutAll({1, 2}), 1 :> "del"}

Life(execute, unwind, crash, prune) ==
  [execute |-> execute, unwind |-> unwind, crash |-> crash, prune |-> prune]
Lives == {Life(5, 0, 0, 2), Life(4, 1, 0, 1), Life(4, 0, 1, 1)}

H == INSTANCE StateHistory WITH
  Keys <- {1, 2}, AggregationStep <- 2, MaxTxNum <- 5, Batches <- AllBatches,
  PruneLimits <- {0, 1}, Budgets <- Lives, StepsInBiggestFile <- 4

OneStep == {[from |-> 0, to |-> 1]}

Faults(crash, fail, calls) == [crash |-> crash, fail |-> fail, call |-> calls, read |-> 0]
Rough == {Faults(1, 0, 2), Faults(0, 1, 2), Faults(2, 1, 1)}

F == INSTANCE HistoryFiles WITH
  StepsInBiggestFile <- 2, Readers <- {r1}, Folder <- OneStep, MaxTxNum <- 3, PruneLimit <- 9,
  KeepInDB <- 0, Budgets <- Rough

\* Two of the keys, or all three, change in a file, at its first or second txNum.
Kinds == {<<{0}, {1}, {}>>, <<{}, {0}, {1}>>, <<{0}, {0}, {1}>>, <<{0}, {}, {1}>>}

L == INSTANCE LocalityIndex WITH
  Keys <- {1, 2, 3}, Contents <- Kinds, Span <- 2, Readers <- {r1}, MaxFrozen <- 2, Limit <- 1,
  Budget <- [kills |-> 1, builds |-> 2]

-----------------------------------------------------------------------------
(* The variables of the other components stay what they are.               *)

besideH == <<txNum, pruned, maxTxNum, ro, item, call, builder, merger, ctx,
             li, refs, canDelete>>

besideF == <<mem, db, li, refs, canDelete>>

besideL == <<mem, db, txNum, pruned, maxTxNum, ro, item, call, merger>>

InitH ==
  /\ active = "history" /\ H!Init
  /\ txNum = <<>> /\ pruned = <<>> /\ maxTxNum = <<>> /\ ro = <<>>
  /\ item = <<>> /\ call = <<>> /\ builder = <<>> /\ merger = <<>>
  /\ ctx = <<>> /\ li = <<>> /\ refs = <<>> /\ canDelete = <<>>

InitF ==
  /\ active = "files" /\ F!Init
  /\ mem = <<>> /\ db = <<>> /\ li = <<>> /\ refs = <<>> /\ canDelete = <<>>

InitL ==
  /\ active = "locality" /\ L!Init
  /\ mem = <<>> /\ db = <<>> /\ txNum = <<>> /\ pruned = <<>>
  /\ maxTxNum = <<>> /\ ro = <<>> /\ item = <<>> /\ call = <<>>
  /\ merger = <<>>

Init == InitH \/ InitF \/ InitL

Next ==
  \/ active = "history" /\ H!Next /\ UNCHANGED <<active, besideH>>
  \/ active = "files" /\ F!Next /\ UNCHANGED <<active, besideF>>
  \/ active = "locality" /\ L!Next /\ UNCHANGED <<active, besideL>>

vars == <<active, mem, db, disk, files, left, txNum, pruned, maxTxNum, ro,
          item, call, builder, merger, ctx, li, refs, canDelete>>

Spec == Init /\ [][Next]_vars

\* The behaviours about the locality index in which nothing is killed.
LocalitySpec == InitL /\ [][Next /\ left'.kills = left.kills]_vars

-----------------------------------------------------------------------------
\* Every reader of the history returns the value of a key as of a txNum,
\* whether it is found in the files, in the tables or, unchanged since, in the
\* state (HistoryContext.GetNoStateWithRecent). With the locality index the
\* same change is found for every key that is in the same frozen files as the
\* second of the keys, or in none, and a context keeps its index
\* (LocalityIndex.lookupIdxFiles, HistoryContext.GetNoState).
ReadsAsOf ==
  /\ active = "history" => H!ReadsAsOf
  /\ active = "locality" => L!LocalityReads

\* A walk of the state as of a txNum has every key that had a value then, once
\* and in order (HistoryContext.WalkAsOf).
WalksAsOf == active = "history" => H!WalksAsOf

\* What changed between two txNums, and at which txNums a key changed, is found
\* by every one of the iterators, also when the oldest part was pruned
\* (HistoryContext.IterateChanged, InvertedIndexContext.IterateRange).
ChangesFound == active = "history" => H!ChangesFound

\* Unwind gives every key the value it had before the txNum it goes back to
\* (AggregatorV3.Unwind).
UnwindRestores == active = "history" => H!UnwindRestores

\* What was pruned from the database is in the files that are open, and in
\* those that a start after a kill finds in the folder (AggregatorV3.Prune,
\* recalcMaxTxNum).
NothingLost == active = "files" => F!NothingLost

\* The comment on LocalityIndex: the index knows for every key the files it is in
\* (LocalityIndex.lookupIdxFiles, HistoryContext.GetNoState).
LocalityIndexHasInfo == active = "locality" => L!LocalityIndexHasInfo

===============================================================================
