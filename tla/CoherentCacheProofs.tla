------------------------- MODULE CoherentCacheProofs -------------------------
(***************************************************************************)
(* Proofs about CoherentCache: type correctness, the coherence of every    *)
(* root with the database of its version, the isolation of readers, and    *)
(* that the cache implements SnapshotReads.                                *)
(***************************************************************************)
EXTENDS CoherentCache, TLAPS, SequenceTheorems, FiniteSetTheorems

----------------------------------------------------------------------------
(* Facts about the list operators.                                         *)

\* Unlinking an element leaves a list of the same elements.
LEMMA UnlinkedType ==
  ASSUME NEW S, NEW s \in Seq(S), NEW e
  PROVE  Unlinked(s, e) \in Seq(S)
<1>1. CASE \E i \in 1..Len(s) : s[i] = e
  <2>. DEFINE m == CHOOSE j \in 1..Len(s) : s[j] = e
  <2>1. m \in 1..Len(s)
    BY <1>1, Zenon
  <2>2. Unlinked(s, e) = SubSeq(s, 1, m-1) \o SubSeq(s, m+1, Len(s))
    BY <1>1, Zenon DEF Unlinked
  <2>. HIDE DEF m
  <2>3. SubSeq(s, 1, m-1) \in Seq(S) /\ SubSeq(s, m+1, Len(s)) \in Seq(S)
    BY <2>1
  <2>. QED
    BY <2>2, <2>3
<1>2. CASE ~ \E i \in 1..Len(s) : s[i] = e
  BY <1>2 DEF Unlinked
<1>. QED
  BY <1>1, <1>2

\* The Walk of a finite tree lists its elements.
LEMMA WalkedType ==
  ASSUME NEW S, IsFiniteSet(S)
  PROVE  Walked(S) \in Seq(S)
<1>1. Cardinality(S) \in Nat
  BY FS_CardinalityType
<1>2. PICK n \in Nat : ExistsBijection(1..n, S)
  BY FS_NatBijection
<1>3. n = Cardinality(S)
  BY <1>2, FS_CountingElements
<1>4. \E f \in [1..Cardinality(S) -> S] :
        \A i, j \in 1..Cardinality(S) : f[i] = f[j] => i = j
  BY <1>2, <1>3 DEF ExistsBijection, Bijection, Injection, IsInjective
<1>5. Walked(S) \in [1..Cardinality(S) -> S]
  BY <1>4, Zenon DEF Walked
<1>. QED
  BY <1>1, <1>5

----------------------------------------------------------------------------
(* Type correctness.                                                       *)

\* The reader records the actions build.
LEMMA AtType ==
  ASSUME NEW pc \in {"idle", "begun", "open", "selected"}, NEW t \in Versions \cup {NoTx}
  PROVE  At(pc, t) \in Reader /\ At(pc, t).pc = pc /\ At(pc, t).tx = t
         /\ At(pc, t).ptr = "live" /\ At(pc, t).root = 0 /\ At(pc, t).key = ZeroHash
<1>1. 0 \in Versions /\ ZeroHash \in CacheKeys
  BY ConstantsAssumption DEF Versions, CacheKeys
<1>. QED
  BY <1>1 DEF At, Reader, Holding

\* The list an add leaves behind.
LEMMA ListType ==
  ASSUME NEW S, NEW list \in Seq(S), NEW e \in S, NEW c, NEW n \in Nat
  PROVE  Trimmed(ListAfterAdd(c, list, e), n) \in Seq(S)
<1>1. ListAfterAdd(c, list, e) \in Seq(S)
  <2>1. Unlinked(list, e) \in Seq(S)
    BY UnlinkedType
  <2>. QED
    BY <2>1 DEF ListAfterAdd
<1>. DEFINE l == ListAfterAdd(c, list, e)
<1>2. l \in Seq(S)
  BY <1>1
<1>. HIDE DEF l
<1>3. Kept(l, n) \in 0..Len(l)
  BY <1>2 DEF Kept
<1>4. SubSeq(l, 1, Kept(l, n)) \in Seq(S)
  BY <1>2, <1>3
<1>. QED
  BY <1>4 DEF l, Trimmed

\* add and addCode keep trees and lists well formed.
LEMMA AddType ==
  ASSUME TypeOK, NEW v \in Versions, NEW k \in CacheKeys, NEW val \in DbValues, Add(v, k, val)
  PROVE  /\ cache' \in [Versions -> [CacheKeys -> DbValues \cup {NotCached}]]
         /\ stateEvict' \in Seq(StateKeys) /\ codeEvict' \in Seq(CacheKeys \ StateKeys)
<1>. USE DEF TypeOK
<1>2. \A list, n : TreeAfterAdd(cache[v], list, n, k, val) \in [CacheKeys -> DbValues \cup {NotCached}]
  BY DEF TreeAfterAdd
<1>3. CASE latest # v
  <2>1. cache' = [cache EXCEPT ![v] = [@ EXCEPT ![k] = val]] /\ UNCHANGED evictVars
    BY <1>3 DEF Add
  <2>. QED
    BY <2>1 DEF evictVars
<1>4. CASE latest = v /\ k \in StateKeys
  <2>1. Trimmed(ListAfterAdd(cache[v], stateEvict, k), CacheSize) \in Seq(StateKeys)
    BY <1>4, ListType, ConstantsAssumption
  <2>. QED
    BY <1>2, <1>4, <2>1 DEF Add
<1>5. CASE latest = v /\ k \notin StateKeys
  <2>1. k \in CacheKeys \ StateKeys
    BY <1>5
  <2>2. Trimmed(ListAfterAdd(cache[v], codeEvict, k), CodeCacheSize) \in Seq(CacheKeys \ StateKeys)
    BY ZenonT(60), <2>1, ListType, ConstantsAssumption
  <2>. QED
    BY <1>2, <1>5, <2>2 DEF Add
<1>. QED
  BY <1>3, <1>4, <1>5

\* advanceRoot keeps the roots, the lists and the readers well formed.
LEMMA AdvanceRootType ==
  ASSUME TypeOK, NEW id \in Versions, AdvanceRoot(id)
  PROVE  /\ roots' \subseteq Versions /\ canonical' \subseteq Versions /\ ready' \subseteq Versions
         /\ cache' \in [Versions -> [CacheKeys -> DbValues \cup {NotCached}]]
         /\ latest' \in Versions
         /\ stateEvict' \in Seq(StateKeys) /\ codeEvict' \in Seq(CacheKeys \ StateKeys)
         /\ rd' \in [Procs -> Reader]
         /\ \A r \in Procs : rd'[r].tx = rd[r].tx /\ rd'[r].pc = rd[r].pc /\ rd'[r].key = rd[r].key
<1>. USE DEF TypeOK
<1>1. CASE latest = id /\ id \in roots
  BY <1>1 DEF AdvanceRoot, rootVars, evictVars
<1>2. CASE ~(latest = id /\ id \in roots)
  <2>. DEFINE gone == EvictedRoots(roots \cup {id})
              tree == AdvancedTree(id)
  <2>1. /\ roots' = (roots \cup {id}) \ gone
        /\ cache' = [v \in Versions |-> IF v \in gone THEN Empty
                                         ELSE IF v = id THEN tree ELSE cache[v]]
        /\ canonical' = Canonised(id) \ gone
        /\ ready' = ready \ gone
        /\ latest' = id
        /\ rd' = Detached(gone)
        /\ IF CanClone(id) THEN UNCHANGED evictVars
           ELSE /\ stateEvict' = Walked(Cached(tree) \cap StateKeys)
                /\ codeEvict' = Walked(Cached(tree) \ StateKeys)
    BY Zenon, <1>2 DEF AdvanceRoot
  <2>2. tree \in [CacheKeys -> DbValues \cup {NotCached}]
    BY DEF AdvancedTree, CanClone
  <2>3. Empty \in [CacheKeys -> DbValues \cup {NotCached}]
    BY DEF Empty
  <2>. HIDE DEF tree, gone
  <2>4. cache' \in [Versions -> [CacheKeys -> DbValues \cup {NotCached}]]
    BY <2>1, <2>2, <2>3
  <2>5. stateEvict' \in Seq(StateKeys) /\ codeEvict' \in Seq(CacheKeys \ StateKeys)
    <3>. DEFINE A == Cached(tree) \cap StateKeys
                B == Cached(tree) \ StateKeys
    <3>1. A \subseteq CacheKeys /\ B \subseteq CacheKeys
      BY DEF Cached
    <3>2. IsFiniteSet(A) /\ IsFiniteSet(B)
      BY <3>1, FS_Subset, ConstantsAssumption
    <3>3. Walked(A) \in Seq(A) /\ Walked(B) \in Seq(B)
      BY <3>2, WalkedType
    <3>4. Walked(A) \in Seq(StateKeys) /\ Walked(B) \in Seq(CacheKeys \ StateKeys)
      <4>1. A \subseteq StateKeys /\ B \subseteq CacheKeys \ StateKeys
        BY <3>1
      <4>. QED
        BY <3>3, <4>1, SeqMonotonic
    <3>. QED
      BY <2>1, <3>4 DEF evictVars
  <2>6. \A r \in Procs : /\ Detached(gone)[r] \in Reader
                         /\ Detached(gone)[r].tx = rd[r].tx /\ Detached(gone)[r].pc = rd[r].pc
                         /\ Detached(gone)[r].key = rd[r].key
    BY ZenonT(60) DEF Detached, Reader
  <2>7. rd' \in [Procs -> Reader]
    BY <2>1, <2>6 DEF Detached
  <2>. QED
    BY <2>1, <2>4, <2>5, <2>6, <2>7 DEF Canonised
<1>. QED
  BY <1>1, <1>2

LEMMA TypeInit == Init => TypeOK
<1>. SUFFICES ASSUME Init PROVE TypeOK
  OBVIOUS
<1>. USE DEF Init
<1>1. Idle \in Reader /\ Idle.tx = NoTx /\ Idle.pc = "idle"
  BY AtType DEF Idle
<1>2. Empty \in [CacheKeys -> DbValues \cup {NotCached}]
  BY DEF Empty
<1>3. db \in [Versions -> State] /\ version \in Versions /\ latest \in Versions
  BY ConstantsAssumption DEF Versions
<1>4. stream \in Seq([id: Versions, changes: Seq(Change)])
      /\ stateEvict \in Seq(StateKeys) /\ codeEvict \in Seq(CacheKeys \ StateKeys)
  OBVIOUS
<1>. QED
  BY <1>1, <1>2, <1>3, <1>4 DEF TypeOK

\* Every action keeps every variable in its range.
LEMMA TypeStep == TypeOK /\ [Next]_vars => TypeOK'
<1>. SUFFICES ASSUME TypeOK, [Next]_vars PROVE TypeOK'
  OBVIOUS
<1>. USE DEF TypeOK
<1>u. USE DEF vars, dbVars, cacheVars, rootVars, evictVars
<1>1. CASE Commit
  <2>1. version + 1 \in Versions
    BY <1>1, ConstantsAssumption DEF Commit, Versions
  <2>2. PICK ch \in Batches, s \in State :
          /\ db' = [db EXCEPT ![version + 1] = s]
          /\ stream' = Append(stream, [id |-> version + 1, changes |-> ch])
    BY ZenonT(60), <1>1 DEF Commit
  <2>3. ch \in Seq(Change)
    BY ConstantsAssumption
  <2>4. stream' \in Seq([id: Versions, changes: Seq(Change)])
    BY <2>1, <2>2, <2>3
  <2>. QED
    BY <1>1, <2>1, <2>2, <2>4 DEF Commit
<1>2. CASE LoseBatch
  BY <1>2 DEF LoseBatch
<1>3. ASSUME NEW again \in BOOLEAN, OnNewBlock(again) PROVE TypeOK'
  <2>. DEFINE B == [id: Versions, changes: Seq(Change)]
  <2>a. stream \in Seq(B) /\ stream # <<>> /\ (stream' = stream \/ stream' = Tail(stream))
    BY <1>3 DEF OnNewBlock
  <2>. HIDE DEF B
  <2>b. Head(stream) \in B /\ Tail(stream) \in Seq(B)
    BY ONLY <2>a, HeadTailProperties
  <2>1. Head(stream) \in [id: Versions, changes: Seq(Change)]
        /\ stream' \in Seq([id: Versions, changes: Seq(Change)])
    BY ONLY Zenon, <2>a, <2>b DEF B
  <2>2. Head(stream).id \in Versions /\ AdvanceRoot(Head(stream).id)
    BY <1>3, <2>1 DEF OnNewBlock
  <2>3. job' \in [id: Versions, changes: Seq(Change), pos: Nat]
    BY <1>3, <2>1 DEF OnNewBlock
  <2>. QED
    BY Zenon, <1>3, <2>1, <2>2, <2>3, AdvanceRootType DEF OnNewBlock
<1>4. CASE OnNewBlockChange
  <2>. DEFINE ch == job.changes[job.pos + 1]
  <2>1. job \in [id: Versions, changes: Seq(Change), pos: Nat]
    BY <1>4 DEF OnNewBlockChange
  <2>2. ch \in Change
    BY <1>4, <2>1 DEF OnNewBlockChange
  <2>3. FileUnder(ch) \in CacheKeys /\ ch.val \in DbValues
    BY <2>2 DEF FileUnder, Change, CacheKeys
  <2>a. job' = [job EXCEPT !.pos = job.pos + 1]
    BY <1>4 DEF OnNewBlockChange
  <2>4. job' \in [id: Versions, changes: Seq(Change), pos: Nat]
    BY ONLY <2>1, <2>a
  <2>5. CASE ch.key \in StorageKeys /\ ~WithStorage
    BY <1>4, <2>4, <2>5 DEF OnNewBlockChange
  <2>6. CASE Add(job.id, FileUnder(ch), ch.val)
    BY <1>4, <2>1, <2>3, <2>4, <2>6, AddType DEF OnNewBlockChange
  <2>. QED
    BY <1>4, <2>5, <2>6 DEF OnNewBlockChange
<1>5. CASE OnNewBlockReady
  BY <1>5 DEF OnNewBlockReady
<1>6. ASSUME NEW r \in Procs, Begin(r) PROVE TypeOK'
  BY <1>6, AtType, ConstantsAssumption DEF Begin
<1>7. ASSUME NEW r \in Procs, Rollback(r) PROVE TypeOK'
  BY <1>7, AtType DEF Rollback, Idle
<1>8. ASSUME NEW r \in Procs, View(r) PROVE TypeOK'
  <2>1. rd[r].tx \in Versions
    BY <1>8 DEF View, Reader
  <2>2. [At("selected", rd[r].tx) EXCEPT !.root = rd[r].tx] \in Reader
    BY Zenon, <2>1, AtType DEF At, Reader
  <2>. QED
    BY <1>8, <2>1, <2>2 DEF View, At
<1>9. ASSUME NEW r \in Procs, ViewDecide(r) PROVE TypeOK'
  <2>1. rd[r].tx \in Versions
    BY <1>9 DEF ViewDecide, Reader
  <2>2. [rd[r] EXCEPT !.pc = "waiting"] \in Reader
    BY ZenonT(60) DEF Reader, Holding
  <2>. QED
    BY <1>9, <2>1, <2>2, AtType DEF ViewDecide
<1>10. ASSUME NEW r \in Procs, ViewWoken(r) \/ ViewTimeout(r) \/ ViewCancelled(r) PROVE TypeOK'
  <2>1. rd[r].tx \in Versions
    BY <1>10 DEF ViewWoken, ViewTimeout, ViewCancelled, Reader
  <2>2. PICK pc \in {"open", "begun"} : rd' = [rd EXCEPT ![r] = At(pc, rd[r].tx)]
    BY <1>10 DEF ViewWoken, ViewTimeout, ViewCancelled
  <2>3. /\ rd' \in [Procs -> Reader]
        /\ \A q \in Procs : /\ rd'[q].tx = NoTx <=> rd'[q].pc = "idle"
                            /\ rd'[q].pc = "reading" => rd'[q].key \in DbKeys
    BY <2>1, <2>2, AtType, ConstantsAssumption
  <2>4. waits' \in Nat /\ UNCHANGED <<dbVars, stream, rootVars, evictVars, job, out>>
    BY <1>10 DEF ViewWoken, ViewTimeout, ViewCancelled
  <2>. QED
    BY <2>3, <2>4
<1>11. ASSUME NEW r \in Procs, NEW k \in DbKeys, Get(r, k) PROVE TypeOK'
  <2>1. rd[r].tx \in Versions /\ rd[r].pc = "open"
    BY <1>11 DEF Get, Reader
  <2>2. k \in CacheKeys
    BY DEF CacheKeys
  <2>3. UNCHANGED <<dbVars, stream, rootVars, codeEvict, waits, job>>
    BY <1>11 DEF Get
  <2>4. CASE out' = [out EXCEPT ![r] = NoOut] /\ UNCHANGED <<stateEvict, rd>>
    BY <2>3, <2>4
  <2>5. CASE /\ cache[rd[r].tx][k] # NotCached
             /\ out' = [out EXCEPT ![r] = [key |-> k, val |-> cache[rd[r].tx][k]]]
             /\ stateEvict' = IF latest = rd[r].tx THEN MoveToFront(stateEvict, k) ELSE stateEvict
             /\ UNCHANGED rd
    <3>1. cache[rd[r].tx][k] \in DbValues
      BY <2>1, <2>2, <2>5
    <3>2. [key |-> k, val |-> cache[rd[r].tx][k]] \in Change
      BY <3>1 DEF Change
    <3>3. MoveToFront(stateEvict, k) \in Seq(StateKeys)
      <4>1. CASE \E i \in 1..Len(stateEvict) : stateEvict[i] = k
        <5>1. k \in StateKeys
          BY <4>1
        <5>2. Unlinked(stateEvict, k) \in Seq(StateKeys)
          BY UnlinkedType
        <5>. QED
          BY <4>1, <5>1, <5>2 DEF MoveToFront
      <4>. QED
        BY <4>1 DEF MoveToFront
    <3>. QED
      BY <2>3, <2>5, <3>2, <3>3
  <2>6. CASE /\ rd' = [rd EXCEPT ![r] = [rd[r] EXCEPT !.pc = "reading", !.root = rd[r].tx, !.key = k]]
             /\ UNCHANGED <<out, stateEvict>>
    <3>1. /\ [rd[r] EXCEPT !.pc = "reading", !.root = rd[r].tx, !.key = k] \in Reader
          /\ [rd[r] EXCEPT !.pc = "reading", !.root = rd[r].tx, !.key = k].tx = rd[r].tx
          /\ [rd[r] EXCEPT !.pc = "reading", !.root = rd[r].tx, !.key = k].pc = "reading"
          /\ [rd[r] EXCEPT !.pc = "reading", !.root = rd[r].tx, !.key = k].key = k
      BY ZenonT(60), <2>1, <2>2 DEF Reader, Holding
    <3>2. rd' \in [Procs -> Reader]
      BY <2>6, <3>1
    <3>3. \A q \in Procs : /\ rd'[q].tx = NoTx <=> rd'[q].pc = "idle"
                           /\ rd'[q].pc = "reading" => rd'[q].key \in DbKeys
      BY <2>1, <2>6, <3>1, ConstantsAssumption
    <3>. QED
      BY <2>3, <2>6, <3>2, <3>3
  <2>. QED
    BY <1>11, <2>4, <2>5, <2>6 DEF Get
<1>12. ASSUME NEW r \in Procs, GetAdd(r) PROVE TypeOK'
  <2>. DEFINE v == rd[r].tx
              k == rd[r].key
  <2>1. v \in Versions /\ k \in DbKeys /\ k \in CacheKeys
    BY <1>12 DEF GetAdd, Reader, CacheKeys
  <2>2. db[v][k] \in DbValues /\ [key |-> k, val |-> db[v][k]] \in Change
    BY <2>1 DEF State, Change
  <2>3. /\ IF rd[r].ptr = "live" THEN Add(v, k, db[v][k]) ELSE UNCHANGED <<cache, evictVars>>
        /\ out' = [out EXCEPT ![r] = [key |-> k, val |-> db[v][k]]]
        /\ rd' = [rd EXCEPT ![r] = At("open", v)]
        /\ UNCHANGED <<dbVars, stream, roots, canonical, ready, latest, waits, job>>
    BY <1>12 DEF GetAdd, AddsTo
  <2>4. /\ cache' \in [Versions -> [CacheKeys -> DbValues \cup {NotCached}]]
        /\ stateEvict' \in Seq(StateKeys) /\ codeEvict' \in Seq(CacheKeys \ StateKeys)
    BY <2>1, <2>2, <2>3, AddType
  <2>. HIDE DEF v, k
  <2>5. At("open", v) \in Reader /\ At("open", v).tx = v /\ At("open", v).pc = "open"
    BY <2>1, AtType
  <2>. QED
    BY <2>1, <2>2, <2>3, <2>4, <2>5, ConstantsAssumption
<1>13. ASSUME NEW r \in Procs, GetFails(r) PROVE TypeOK'
  <2>1. rd[r].tx \in Versions
    BY <1>13 DEF GetFails, Reader
  <2>. QED
    BY <1>13, <2>1, AtType, ConstantsAssumption DEF GetFails
<1>14. ASSUME NEW r \in Procs, ValidateCurrentRoot(r) PROVE TypeOK'
  <2>1. [rd[r] EXCEPT !.pc = "validate"] \in Reader
    BY ZenonT(60) DEF Reader, Holding
  <2>. QED
    BY <1>14, <2>1 DEF ValidateCurrentRoot
<1>15. ASSUME NEW r \in Procs, ValidateSelect(r) PROVE TypeOK'
  <2>1. [rd[r] EXCEPT !.pc = "validateRoot", !.root = latest] \in Reader
    BY ZenonT(60) DEF Reader, Holding
  <2>. QED
    BY <1>15, <2>1 DEF ValidateSelect
<1>16. ASSUME NEW r \in Procs, ValidateCompare(r) PROVE TypeOK'
  <2>1. rd[r].tx \in Versions
    BY <1>16 DEF ValidateCompare, Reader
  <2>2. [rd[r] EXCEPT !.pc = "validateClear"] \in Reader
    BY ZenonT(60) DEF Reader, Holding
  <2>3. \/ rd' = [rd EXCEPT ![r].pc = "validateClear"]
        \/ rd' = [rd EXCEPT ![r] = At("begun", rd[r].tx)]
    BY <1>16 DEF ValidateCompare
  <2>4. UNCHANGED <<dbVars, stream, cacheVars, out>> /\ rd[r].pc = "validateRoot"
    BY <1>16 DEF ValidateCompare
  <2>5. PICK x \in Reader : /\ rd' = [rd EXCEPT ![r] = x]
                            /\ x.tx = rd[r].tx /\ x.pc \in {"validateClear", "begun"}
    <3>1. /\ At("begun", rd[r].tx) \in Reader /\ At("begun", rd[r].tx).tx = rd[r].tx
          /\ At("begun", rd[r].tx).pc = "begun"
      BY <2>1, AtType
    <3>2. /\ [rd[r] EXCEPT !.pc = "validateClear"].tx = rd[r].tx
          /\ [rd[r] EXCEPT !.pc = "validateClear"].pc = "validateClear"
      BY DEF Reader
    <3>. QED
      BY ZenonT(60), <2>2, <2>3, <3>1, <3>2
  <2>. QED
    BY <2>1, <2>4, <2>5, ConstantsAssumption
<1>17. ASSUME NEW r \in Procs, ValidateClear(r) PROVE TypeOK'
  <2>1. rd[r].tx \in Versions /\ rd[r].root \in Versions
    BY <1>17 DEF ValidateClear, Reader
  <2>2. Empty \in [CacheKeys -> DbValues \cup {NotCached}]
    BY DEF Empty
  <2>3. cache' \in [Versions -> [CacheKeys -> DbValues \cup {NotCached}]]
    BY <1>17, <2>1, <2>2 DEF ValidateClear
  <2>. QED
    BY <1>17, <2>1, <2>3, AtType, ConstantsAssumption DEF ValidateClear
<1>18. CASE UNCHANGED vars
  BY <1>18
<1>. QED
  <2>1. ReadKeys \subseteq DbKeys /\ Readers \subseteq Procs /\ Validators \subseteq Procs
    BY ConstantsAssumption DEF Procs
  <2>. QED
    BY ZenonT(60), <2>1, <1>1, <1>2, <1>3, <1>4, <1>5, <1>6, <1>7, <1>8, <1>9, <1>10, <1>11, <1>12,
       <1>13, <1>14, <1>15, <1>16, <1>17, <1>18
       DEF Next, NodeNext, BlockNext, ViewNext, GetNext, ValidateNext

\* The variables of the cache, its readers and the node stay in their ranges
\* in every behaviour.
THEOREM TypeCorrect == Spec => []TypeOK
  BY TypeInit, TypeStep, PTL DEF Spec

----------------------------------------------------------------------------
(* The order of versions: what evictRoots may forget.                      *)

\* Facts about versions that arithmetic needs.
LEMMA VersionsAreNats ==
  /\ Versions \subseteq Nat /\ KeepViews \in Nat /\ KeepViews > 0 /\ NoTx \notin Versions
  BY ConstantsAssumption DEF Versions

LEMMA OrderInit == Init => OrderInv
<1>. SUFFICES ASSUME Init PROVE OrderInv
  OBVIOUS
<1>1. Idle.pc = "idle" /\ Idle.ptr = "live"
  BY DEF Idle, At
<1>2. \A r \in Procs : rd[r].pc = "idle" /\ rd[r].ptr = "live"
  BY <1>1 DEF Init
<1>3. latest = 0 /\ latest <= version /\ stream = <<>> /\ job = NoJob /\ canonical = {}
  BY ConstantsAssumption DEF Init
<1>. QED
  BY <1>2, <1>3 DEF OrderInv, LatestCanonical, RecentViewsServed, Holding

\* advanceRoot to a version no older than latest makes it the latest canonical
\* root and forgets only roots more than KeepViews behind it.
LEMMA AdvanceRootOrder ==
  ASSUME TypeOK, OrderInv, NEW id \in Versions, latest <= id, AdvanceRoot(id)
  PROVE  /\ latest' = id
         /\ canonical' \subseteq roots'
         /\ id > 0 => id \in roots' /\ id \in canonical'
         /\ \A v \in roots : v + KeepViews >= id => v \in roots'
         /\ \A r \in Procs :
              /\ rd'[r].pc = rd[r].pc /\ rd'[r].tx = rd[r].tx /\ rd'[r].root = rd[r].root
              /\ rd[r].pc \in Holding =>
                   IF rd'[r].ptr = "live" THEN rd'[r].root \in roots'
                   ELSE rd'[r].root + KeepViews < latest'
              /\ rd[r].pc \notin Holding => rd'[r].ptr = rd[r].ptr
<1>. USE VersionsAreNats
<1>0. /\ latest \in Nat /\ id \in Nat /\ roots \subseteq Nat /\ canonical \subseteq roots
      /\ \A r \in Procs : rd[r].root \in Nat
  BY Zenon DEF TypeOK, OrderInv, Reader
<1>1. CASE latest = id /\ id \in roots
  BY <1>1 DEF AdvanceRoot, rootVars, evictVars, OrderInv, LatestCanonical
<1>2. CASE ~(latest = id /\ id \in roots)
  <2>. DEFINE gone == EvictedRoots(roots \cup {id})
  <2>1. /\ roots' = (roots \cup {id}) \ gone
        /\ canonical' = (canonical \cup {id}) \ gone
        /\ latest' = id
        /\ rd' = Detached(gone)
    BY <1>2 DEF AdvanceRoot, Canonised
  <2>2. \A v \in gone : v \in roots \cup {id} /\ v + KeepViews <= latest
    BY <1>0 DEF EvictedRoots
  <2>. HIDE DEF gone
  <2>3. id \notin gone
    BY <1>0, <2>2
  <2>4. \A v \in gone : v + KeepViews < id
    <3>. SUFFICES ASSUME NEW v \in gone PROVE v + KeepViews < id
      OBVIOUS
    <3>1. v \in Nat /\ v + KeepViews <= latest
      BY ZenonT(60), <1>0, <2>2
    <3>2. CASE latest < id
      BY <1>0, <3>1, <3>2
    <3>3. CASE latest = id
      \* then latest is not a root, so it is 0 and nothing is old enough
      <4>1. latest = 0
        BY <1>0, <1>2, <3>3 DEF OrderInv, LatestCanonical
      <4>. QED
        BY <3>1, <4>1
    <3>. QED
      BY <1>0, <3>2, <3>3
  <2>5. ASSUME NEW r \in Procs
        PROVE  /\ rd'[r].pc = rd[r].pc /\ rd'[r].tx = rd[r].tx /\ rd'[r].root = rd[r].root
               /\ rd[r].pc \in Holding =>
                   IF rd'[r].ptr = "live" THEN rd'[r].root \in roots'
                   ELSE rd'[r].root + KeepViews < latest'
               /\ rd[r].pc \notin Holding => rd'[r].ptr = rd[r].ptr
    <3>1. rd[r] \in Reader /\ rd[r].root \in Nat
      BY <1>0 DEF TypeOK
    <3>2. CASE rd[r].pc \in Holding /\ rd[r].root \in gone /\ rd[r].ptr = "live"
      <4>1. PICK x \in {"gone", "goneReady"} : rd'[r] = [rd[r] EXCEPT !.ptr = x]
        BY <2>1, <3>2 DEF Detached
      <4>2. /\ rd'[r].pc = rd[r].pc /\ rd'[r].tx = rd[r].tx /\ rd'[r].root = rd[r].root
            /\ rd'[r].ptr = x
        BY <3>1, <4>1 DEF Reader
      <4>. QED
        BY <2>1, <2>4, <3>2, <4>2
    <3>3. CASE ~(rd[r].pc \in Holding /\ rd[r].root \in gone /\ rd[r].ptr = "live")
      <4>1. rd'[r] = rd[r]
        BY <2>1, <3>3 DEF Detached
      <4>2. rd[r].pc \in Holding =>
              IF rd[r].ptr = "live" THEN rd[r].root \in roots
              ELSE rd[r].root + KeepViews < latest
        BY DEF OrderInv
      <4>. QED
        BY <1>0, <2>1, <3>1, <3>3, <4>1, <4>2
    <3>. QED
      BY <3>2, <3>3
  <2>6. ASSUME NEW v \in roots, v + KeepViews >= id PROVE v \in roots'
    <3>1. ~(v + KeepViews < id)
      BY <1>0, <2>6
    <3>2. v \notin gone
      BY <2>4, <3>1
    <3>. QED
      BY <2>1, <3>2
  <2>. QED
    BY Zenon, <1>0, <2>1, <2>3, <2>5, <2>6
<1>. QED
  BY <1>1, <1>2

\* A step that moves one reader and no root keeps the order when the reader
\* keeps its pointer or drops it.
LEMMA ReaderOrder ==
  ASSUME TypeOK, OrderInv, NEW r \in Procs, NEW x \in Reader,
         rd' = [rd EXCEPT ![r] = x],
         UNCHANGED <<version, stream, roots, canonical, latest, job>>,
         \/ x.pc \in {"idle", "begun", "validate"} /\ x.ptr = "live"
         \/ /\ x.pc \in {"waiting", "validateClear"} /\ rd[r].pc \in Holding
            /\ x.tx = rd[r].tx /\ x.root = rd[r].root /\ x.ptr = rd[r].ptr
            /\ x.pc = "waiting" => rd[r].pc = "selected"
         \/ /\ x.pc \in {"reading", "validateRoot"}
            /\ x.root \in roots /\ x.ptr = "live"
            /\ x.pc = "reading" => x.root = x.tx
         \/ /\ x.pc = "open" /\ x.tx = rd[r].tx /\ x.ptr = "live"
            /\ rd[r].pc \in {"selected", "waiting", "reading"}
  PROVE  OrderInv'
<1>. USE VersionsAreNats
<1>1. \A q \in Procs : q # r => rd'[q] = rd[q]
  BY DEF TypeOK
<1>2. rd'[r] = x /\ rd[r] \in Reader
  BY DEF TypeOK
<1>3. RecentViewsServed'
  <2>. SUFFICES ASSUME x.pc = "open", x.tx + KeepViews >= latest PROVE x.tx \in roots
    BY <1>1, <1>2 DEF OrderInv, RecentViewsServed
  <2>1. x.tx = rd[r].tx /\ rd[r].pc \in {"selected", "waiting", "reading"} /\ rd[r].root = x.tx
    BY DEF OrderInv
  <2>2. rd[r].pc \in Holding
    BY <2>1 DEF Holding
  <2>3. x.tx \in Nat /\ latest \in Nat
    BY ZenonT(60), <1>2, <2>1 DEF TypeOK, Reader
  <2>. QED
    BY <2>1, <2>2, <2>3 DEF OrderInv
<1>0. version' = version /\ stream' = stream /\ roots' = roots /\ canonical' = canonical
      /\ latest' = latest /\ job' = job
  OBVIOUS
<1>4. ASSUME NEW q \in Procs, rd'[q].pc \in Holding
      PROVE  IF rd'[q].ptr = "live" THEN rd'[q].root \in roots' ELSE rd'[q].root + KeepViews < latest'
  <2>1. x.pc \in Holding =>
          IF x.ptr = "live" THEN x.root \in roots ELSE x.root + KeepViews < latest
    BY DEF OrderInv, Holding
  <2>2. CASE q = r
    BY <1>0, <1>2, <1>4, <2>1, <2>2
  <2>3. CASE q # r
    <3>1. rd'[q] = rd[q]
      BY <1>1, <2>3
    <3>. QED
      BY <1>0, <1>4, <3>1 DEF OrderInv
  <2>. QED
    BY <2>2, <2>3
<1>5. \A q \in Procs : rd'[q].pc \in {"selected", "waiting", "reading"} => rd'[q].root = rd'[q].tx
  BY <1>1, <1>2 DEF OrderInv
<1>6. /\ (canonical \subseteq roots)' /\ (latest <= version)' /\ LatestCanonical'
      /\ (job # NoJob => job.id = latest)'
      /\ (\A i \in 1..Len(stream) : latest <= stream[i].id /\ stream[i].id <= version)'
      /\ (\A i, j \in 1..Len(stream) : i < j => stream[i].id < stream[j].id)'
  BY <1>0 DEF OrderInv, LatestCanonical
<1>7. \A q \in Procs : rd'[q].pc \notin Holding => rd'[q].ptr = "live"
  BY <1>1, <1>2 DEF OrderInv, Holding
<1>. QED
  BY <1>3, <1>4, <1>5, <1>6, <1>7 DEF OrderInv

LEMMA ElementType ==
  ASSUME NEW S, NEW s \in Seq(S), NEW i \in 1..Len(s)
  PROVE  s[i] \in S
  OBVIOUS

LEMMA AppendFacts ==
  ASSUME NEW S, NEW s \in Seq(S), NEW e \in S
  PROVE  /\ Len(Append(s, e)) = Len(s) + 1 /\ Append(s, e)[Len(s) + 1] = e
         /\ \A i \in 1..Len(s) : Append(s, e)[i] = s[i]
  OBVIOUS

LEMMA TailFacts ==
  ASSUME NEW S, NEW s \in Seq(S), s # <<>>
  PROVE  /\ Len(s) \in Nat /\ 1 \in 1..Len(s) /\ Head(s) = s[1] /\ Len(Tail(s)) = Len(s) - 1
         /\ \A i \in 1..Len(Tail(s)) : Tail(s)[i] = s[i + 1] /\ i + 1 \in 1..Len(s)
  OBVIOUS

LEMMA OrderStep == TypeOK /\ TypeOK' /\ OrderInv /\ [Next]_vars => OrderInv'
<1>. SUFFICES ASSUME TypeOK, TypeOK', OrderInv, [Next]_vars PROVE OrderInv'
  OBVIOUS
<1>. USE VersionsAreNats
<1>u. USE DEF vars, dbVars, cacheVars, rootVars, evictVars
<1>0. /\ version \in Nat /\ latest \in Nat /\ roots \subseteq Nat /\ stream \in Seq([id: Versions, changes: Seq(Change)])
      /\ \A r \in Procs : rd[r] \in Reader
      /\ Len(stream) \in Nat
  BY DEF TypeOK
<1>e. ASSUME NEW i \in 1..Len(stream) PROVE stream[i].id \in Nat
  <2>1. stream[i] \in [id: Versions, changes: Seq(Change)]
    BY ZenonT(60), <1>0, ElementType
  <2>. QED
    BY Zenon, <2>1
<1>1. CASE Commit
  <2>1. PICK ch \in Batches : stream' = Append(stream, [id |-> version + 1, changes |-> ch])
    BY <1>1 DEF Commit
  <2>2. version' = version + 1 /\ version + 1 \in Versions /\ UNCHANGED <<cacheVars, rd>>
    BY <1>1 DEF Commit, TypeOK
  <2>3. [id |-> version + 1, changes |-> ch] \in [id: Versions, changes: Seq(Change)]
    BY <2>2, ConstantsAssumption
  <2>4. Len(stream') = Len(stream) + 1 /\ stream'[Len(stream) + 1].id = version + 1
        /\ \A i \in 1..Len(stream) : stream'[i] = stream[i]
    BY <1>0, <2>1, <2>3, AppendFacts
  <2>5. \A i \in 1..Len(stream') : latest' <= stream'[i].id /\ stream'[i].id <= version'
    <3>. SUFFICES ASSUME NEW i \in 1..Len(stream')
                  PROVE  latest <= stream'[i].id /\ stream'[i].id <= version + 1
      BY <2>2
    <3>1. CASE i = Len(stream) + 1
      BY <1>0, <2>4, <3>1 DEF OrderInv
    <3>2. CASE i # Len(stream) + 1
      <4>1. i \in 1..Len(stream)
        BY <1>0, <2>4, <3>2
      <4>2. stream'[i] = stream[i] /\ stream[i].id \in Nat
        BY <1>e, <2>4, <4>1
      <4>3. latest <= stream[i].id /\ stream[i].id <= version
        BY <4>1 DEF OrderInv
      <4>. QED
        BY <1>0, <4>2, <4>3
    <3>. QED
      BY <3>1, <3>2
  <2>6. \A i, j \in 1..Len(stream') : i < j => stream'[i].id < stream'[j].id
    <3>. SUFFICES ASSUME NEW i \in 1..Len(stream'), NEW j \in 1..Len(stream'), i < j
                  PROVE  stream'[i].id < stream'[j].id
      OBVIOUS
    <3>1. i \in 1..Len(stream) /\ stream'[i] = stream[i]
      BY <1>0, <2>4
    <3>2. CASE j = Len(stream) + 1
      BY <1>0, <1>e, <2>4, <3>1, <3>2 DEF OrderInv
    <3>3. CASE j # Len(stream) + 1
      <4>0. j \in 1..Len(stream)
        <5>1. Len(stream) \in Nat /\ Len(stream') = Len(stream) + 1
          BY <1>0, <2>4
        <5>. QED
          BY ONLY <5>1, <3>3, j \in 1..Len(stream')
      <4>1. j \in 1..Len(stream) /\ stream'[j] = stream[j]
        BY <2>4, <4>0
      <4>. QED
        BY <3>1, <4>1 DEF OrderInv
    <3>. QED
      BY <3>2, <3>3
  <2>. QED
    BY <1>0, <2>2, <2>5, <2>6 DEF OrderInv, LatestCanonical, RecentViewsServed
<1>2. CASE LoseBatch
  <2>1. stream' = Tail(stream) /\ stream # <<>> /\ UNCHANGED <<dbVars, cacheVars, rd>>
    BY <1>2 DEF LoseBatch
  <2>2. /\ Len(stream') = Len(stream) - 1
        /\ \A i \in 1..Len(stream') : stream'[i] = stream[i + 1] /\ i + 1 \in 1..Len(stream)
    BY <1>0, <2>1, TailFacts
  <2>3. \A i \in 1..Len(stream') : latest' <= stream'[i].id /\ stream'[i].id <= version'
    BY ZenonT(60), <2>1, <2>2 DEF OrderInv
  <2>4. \A i, j \in 1..Len(stream') : i < j => stream'[i].id < stream'[j].id
    BY <2>2 DEF OrderInv
  <2>. QED
    BY <2>1, <2>3, <2>4 DEF OrderInv, LatestCanonical, RecentViewsServed
<1>3. ASSUME NEW again \in BOOLEAN, OnNewBlock(again) PROVE OrderInv'
  <2>. DEFINE id == Head(stream).id
  <2>1. /\ stream # <<>> /\ (stream' = stream \/ stream' = Tail(stream)) /\ version' = version
        /\ AdvanceRoot(id) /\ job' = [id |-> id, changes |-> Head(stream).changes, pos |-> 0]
    BY <1>3 DEF OnNewBlock
  <2>2. 1 \in 1..Len(stream) /\ Head(stream) = stream[1]
    BY <1>0, <2>1, TailFacts
  <2>3. id \in Versions /\ latest <= id /\ id <= version
        /\ \A i \in 1..Len(stream) : id <= stream[i].id /\ stream[i].id <= version
    <3>1. stream[1] \in [id: Versions, changes: Seq(Change)]
      BY ZenonT(60), <1>0, <2>2, ElementType
    <3>2. id = stream[1].id /\ id \in Versions
      BY <2>2, <3>1
    <3>3. ASSUME NEW i \in 1..Len(stream) PROVE id <= stream[i].id /\ stream[i].id <= version
      <4>1. CASE i = 1
        BY <1>0, <1>e, <2>2, <3>2, <4>1 DEF OrderInv
      <4>2. CASE i # 1
        <5>1. 1 < i
          BY <1>0, <4>2
        <5>. QED
          BY <1>0, <1>e, <2>2, <3>2, <5>1 DEF OrderInv
      <4>. QED
        BY <4>1, <4>2
    <3>. QED
      BY <2>2, <3>2, <3>3 DEF OrderInv
  <2>. HIDE DEF id
  <2>4. /\ \A i \in 1..Len(stream') : id <= stream'[i].id /\ stream'[i].id <= version
        /\ \A i, j \in 1..Len(stream') : i < j => stream'[i].id < stream'[j].id
    <3>1. CASE stream' = stream
      BY <2>3, <3>1 DEF OrderInv
    <3>2. CASE stream' = Tail(stream)
      <4>1. /\ Len(stream') = Len(stream) - 1
            /\ \A i \in 1..Len(stream') : stream'[i] = stream[i + 1] /\ i + 1 \in 1..Len(stream)
        BY <1>0, <2>1, <3>2, TailFacts
      <4>2. ASSUME NEW i \in 1..Len(stream')
            PROVE  id <= stream'[i].id /\ stream'[i].id <= version
        BY <2>3, <4>1
      <4>3. ASSUME NEW i \in 1..Len(stream'), NEW j \in 1..Len(stream'), i < j
            PROVE  stream'[i].id < stream'[j].id
        <5>1. stream'[i] = stream[i + 1] /\ i + 1 \in 1..Len(stream)
          BY <4>1
        <5>2. stream'[j] = stream[j + 1] /\ j + 1 \in 1..Len(stream)
          BY <4>1
        <5>3. i + 1 < j + 1
          BY <1>0, <4>3
        <5>. QED
          BY <5>1, <5>2, <5>3 DEF OrderInv
      <4>. QED
        BY <4>2, <4>3
    <3>. QED
      BY <2>1, <3>1, <3>2
  <2>5. /\ latest' = id /\ canonical' \subseteq roots'
        /\ id > 0 => id \in roots' /\ id \in canonical'
        /\ \A v \in roots : v + KeepViews >= id => v \in roots'
        /\ \A r \in Procs :
              /\ rd'[r].pc = rd[r].pc /\ rd'[r].tx = rd[r].tx /\ rd'[r].root = rd[r].root
              /\ rd[r].pc \in Holding =>
                   IF rd'[r].ptr = "live" THEN rd'[r].root \in roots'
                   ELSE rd'[r].root + KeepViews < latest'
              /\ rd[r].pc \notin Holding => rd'[r].ptr = rd[r].ptr
    BY <2>1, <2>3, AdvanceRootOrder
  <2>6. RecentViewsServed'
    <3>. SUFFICES ASSUME NEW r \in Procs, rd[r].pc = "open", rd[r].tx + KeepViews >= id
                  PROVE  rd[r].tx \in roots'
      BY <2>5 DEF RecentViewsServed
    <3>1. rd[r].tx \in Nat /\ id \in Nat
      BY Zenon, <1>0, <2>3 DEF TypeOK, Reader
    <3>2. rd[r].tx + KeepViews >= latest
      BY <1>0, <2>3, <3>1
    <3>3. rd[r].tx \in roots
      BY <3>2 DEF OrderInv, RecentViewsServed
    <3>. QED
      BY <2>5, <3>3
  <2>7. LatestCanonical' /\ (latest <= version)' /\ (job # NoJob => job.id = latest)'
    BY <2>1, <2>3, <2>5 DEF LatestCanonical
  <2>8. \A r \in Procs : /\ rd'[r].pc \in {"selected", "waiting", "reading"} => rd'[r].root = rd'[r].tx
                         /\ rd'[r].pc \notin Holding => rd'[r].ptr = "live"
    BY <2>5 DEF OrderInv
  <2>9. \A i \in 1..Len(stream') : latest' <= stream'[i].id /\ stream'[i].id <= version'
    BY <2>1, <2>4, <2>5
  <2>. QED
    BY <2>4, <2>5, <2>6, <2>7, <2>8, <2>9 DEF OrderInv
<1>4. CASE OnNewBlockChange \/ OnNewBlockReady
  <2>1. /\ version' = version /\ stream' = stream /\ roots' = roots /\ canonical' = canonical
        /\ latest' = latest /\ rd' = rd
    BY <1>4 DEF OnNewBlockChange, OnNewBlockReady
  <2>2. job' # NoJob => job'.id = latest'
    <3>1. CASE OnNewBlockReady
      BY <3>1 DEF OnNewBlockReady
    <3>2. CASE OnNewBlockChange
      <4>1. job # NoJob /\ job' = [job EXCEPT !.pos = @ + 1]
        BY <3>2 DEF OnNewBlockChange
      <4>2. job \in [id: Versions, changes: Seq(Change), pos: Nat]
        BY <4>1 DEF TypeOK
      <4>3. job'.id = job.id
        BY <4>1, <4>2
      <4>. QED
        BY <2>1, <4>1, <4>3 DEF OrderInv
    <3>. QED
      BY <1>4, <3>1, <3>2
  <2>. QED
    BY <2>1, <2>2 DEF OrderInv, LatestCanonical, RecentViewsServed
<1>5. ASSUME NEW r \in Procs, NEW x \in Reader, rd' = [rd EXCEPT ![r] = x],
             x.root \in roots', x.ptr = "live", x.pc \in {"selected", "validateRoot"},
             x.pc = "selected" => x.root = x.tx,
             roots \subseteq roots', UNCHANGED <<version, stream, canonical, latest, job>>
      PROVE  OrderInv'
  <2>1. /\ \A q \in Procs : q # r => rd'[q] = rd[q]
        /\ rd'[r] = x
    BY ZenonT(60), <1>5 DEF TypeOK
  <2>2. version' = version /\ stream' = stream /\ canonical' = canonical
        /\ latest' = latest /\ job' = job
    BY <1>5
  <2>3. RecentViewsServed'
    BY <1>5, <2>1, <2>2 DEF OrderInv, RecentViewsServed
  <2>4. ASSUME NEW q \in Procs, rd'[q].pc \in Holding
        PROVE  IF rd'[q].ptr = "live" THEN rd'[q].root \in roots'
               ELSE rd'[q].root + KeepViews < latest'
    <3>1. CASE q = r
      BY <1>5, <2>1, <3>1
    <3>2. CASE q # r
      <4>1. rd'[q] = rd[q]
        BY <2>1, <3>2
      <4>. QED
        BY <1>5, <2>2, <2>4, <4>1 DEF OrderInv
    <3>. QED
      BY <3>1, <3>2
  <2>5. \A q \in Procs : /\ rd'[q].pc \in {"selected", "waiting", "reading"} => rd'[q].root = rd'[q].tx
                         /\ rd'[q].pc \notin Holding => rd'[q].ptr = "live"
    BY <1>5, <2>1 DEF OrderInv, Holding
  <2>6. LatestCanonical'
    BY <1>5, <2>2 DEF OrderInv, LatestCanonical
  <2>. QED
    BY ZenonT(60), <1>5, <2>2, <2>3, <2>4, <2>5, <2>6 DEF OrderInv
<1>6. ASSUME NEW r \in Procs, ViewNext(r) \/ Begin(r) \/ Rollback(r) PROVE OrderInv'
  <2>0. rd[r] \in Reader
    BY <1>0
  <2>1. CASE View(r)
    <3>. DEFINE x == [At("selected", rd[r].tx) EXCEPT !.root = rd[r].tx]
    <3>1. rd[r].tx \in Versions
      BY <2>0, <2>1 DEF View, TypeOK, Reader
    <3>2. x \in Reader /\ x.root = rd[r].tx /\ x.tx = rd[r].tx /\ x.pc = "selected" /\ x.ptr = "live"
      BY <3>1, AtType DEF At, Reader, Holding
    <3>3. rd' = [rd EXCEPT ![r] = x] /\ roots' = roots \cup {rd[r].tx}
          /\ UNCHANGED <<version, stream, canonical, latest, job>>
      BY <2>1 DEF View
    <3>. HIDE DEF x
    <3>. QED
      BY Zenon, <1>5, <3>2, <3>3
  <2>2. CASE Begin(r) \/ Rollback(r)
    <3>1. Idle \in Reader /\ Idle.pc = "idle" /\ Idle.ptr = "live"
      <4>1. NoTx \in Versions \cup {NoTx}
        OBVIOUS
      <4>. QED
        BY ZenonT(60), <4>1, AtType DEF Idle
    <3>2. /\ At("begun", version) \in Reader /\ At("begun", version).pc = "begun"
          /\ At("begun", version).ptr = "live"
      BY Zenon, AtType DEF TypeOK
    <3>3. PICK x \in Reader : rd' = [rd EXCEPT ![r] = x] /\ x.pc \in {"idle", "begun"} /\ x.ptr = "live"
      BY <2>2, <3>1, <3>2 DEF Begin, Rollback
    <3>4. UNCHANGED <<version, stream, roots, canonical, latest, job>>
      BY <2>2 DEF Begin, Rollback
    <3>. QED
      BY Zenon, <3>3, <3>4, ReaderOrder
  <2>3. CASE ViewDecide(r) \/ ViewWoken(r) \/ ViewTimeout(r) \/ ViewCancelled(r)
    <3>1. /\ rd[r].tx \in Versions /\ rd[r].pc \in {"selected", "waiting"}
          /\ UNCHANGED <<version, stream, roots, canonical, latest, job>>
      BY <2>0, <2>3 DEF ViewDecide, ViewWoken, ViewTimeout, ViewCancelled, TypeOK, Reader
    <3>2. /\ At("open", rd[r].tx) \in Reader /\ At("open", rd[r].tx).pc = "open"
          /\ At("open", rd[r].tx).tx = rd[r].tx
          /\ At("begun", rd[r].tx) \in Reader /\ At("begun", rd[r].tx).pc = "begun"
          /\ At("open", rd[r].tx).ptr = "live" /\ At("begun", rd[r].tx).ptr = "live"
      BY ZenonT(60), <3>1, AtType
    <3>3. CASE rd' = [rd EXCEPT ![r] = At("open", rd[r].tx)]
      BY Zenon, <3>1, <3>2, <3>3, ReaderOrder
    <3>4. CASE rd' = [rd EXCEPT ![r] = At("begun", rd[r].tx)]
      BY Zenon, <3>1, <3>2, <3>4, ReaderOrder
    <3>5. CASE rd' = [rd EXCEPT ![r] = [rd[r] EXCEPT !.pc = "waiting"]] /\ rd[r].pc = "selected"
      <4>. DEFINE x == [rd[r] EXCEPT !.pc = "waiting"]
      <4>1. x \in Reader /\ x.pc = "waiting" /\ x.tx = rd[r].tx /\ x.root = rd[r].root /\ x.ptr = rd[r].ptr
        BY <2>0 DEF Reader, Holding
      <4>2. rd' = [rd EXCEPT ![r] = x]
        BY <3>5
      <4>3. rd[r].pc \in Holding
        BY <3>5 DEF Holding
      <4>. HIDE DEF x
      <4>. QED
        BY Zenon, <3>1, <3>5, <4>1, <4>2, <4>3, ReaderOrder
    <3>. QED
      BY <2>3, <3>3, <3>4, <3>5 DEF ViewDecide, ViewWoken, ViewTimeout, ViewCancelled
  <2>. QED
    BY <1>6, <2>1, <2>2, <2>3 DEF ViewNext
<1>7. ASSUME NEW r \in Procs, GetAdd(r) \/ GetFails(r) PROVE OrderInv'
  <2>1. /\ rd[r].pc = "reading" /\ rd' = [rd EXCEPT ![r] = At("open", rd[r].tx)]
        /\ UNCHANGED <<version, stream, roots, canonical, latest, job>>
    BY Zenon, <1>7 DEF GetAdd, GetFails
  <2>2. rd[r].tx \in Versions
    BY <1>0, <2>1 DEF TypeOK, Reader
  <2>3. /\ At("open", rd[r].tx) \in Reader /\ At("open", rd[r].tx).pc = "open"
        /\ At("open", rd[r].tx).tx = rd[r].tx /\ At("open", rd[r].tx).ptr = "live"
    BY <2>2, AtType
  <2>. QED
    BY ZenonT(60), <2>1, <2>3, ReaderOrder
<1>8. ASSUME NEW r \in Procs, NEW k \in DbKeys, Get(r, k) PROVE OrderInv'
  <2>0. rd[r] \in Reader /\ rd[r].tx \in Versions /\ rd[r].pc = "open"
        /\ UNCHANGED <<version, stream, roots, canonical, latest, job>>
    BY <1>0, <1>8 DEF Get, TypeOK, Reader
  <2>1. CASE rd' = rd
    BY Zenon, <2>0, <2>1 DEF OrderInv, LatestCanonical, RecentViewsServed
  <2>2. CASE /\ rd[r].tx \in roots
             /\ rd' = [rd EXCEPT ![r] = [rd[r] EXCEPT !.pc = "reading", !.root = rd[r].tx, !.key = k]]
    <3>. DEFINE x == [rd[r] EXCEPT !.pc = "reading", !.root = rd[r].tx, !.key = k]
    <3>1. x \in Reader /\ x.pc = "reading" /\ x.tx = rd[r].tx /\ x.root = rd[r].tx /\ x.ptr = rd[r].ptr
      BY ZenonT(60), <2>0 DEF Reader, Holding, CacheKeys
    <3>2. rd' = [rd EXCEPT ![r] = x]
      BY <2>2
    <3>3. rd[r].ptr = "live"
      BY Zenon, <2>0 DEF OrderInv, Holding
    <3>. HIDE DEF x
    <3>. QED
      BY ZenonT(60), <2>0, <2>2, <3>1, <3>2, <3>3, ReaderOrder
  <2>. QED
    BY <1>8, <2>1, <2>2 DEF Get
<1>9. ASSUME NEW r \in Procs, ValidateNext(r) PROVE OrderInv'
  <2>0. rd[r] \in Reader
    BY <1>0
  <2>1. CASE ValidateCurrentRoot(r)
    <3>. DEFINE x == [rd[r] EXCEPT !.pc = "validate"]
    <3>1. x \in Reader /\ x.pc = "validate" /\ x.ptr = "live"
      BY <2>0, <2>1 DEF Reader, Holding, ValidateCurrentRoot, OrderInv
    <3>2. rd' = [rd EXCEPT ![r] = x] /\ UNCHANGED <<version, stream, roots, canonical, latest, job>>
      BY <2>1 DEF ValidateCurrentRoot
    <3>. HIDE DEF x
    <3>. QED
      BY ZenonT(60), <3>1, <3>2, ReaderOrder
  <2>2. CASE ValidateSelect(r)
    <3>. DEFINE x == [rd[r] EXCEPT !.pc = "validateRoot", !.root = latest]
    <3>1. x \in Reader /\ x.pc = "validateRoot" /\ x.root = latest /\ x.ptr = rd[r].ptr
      BY Zenon, <2>0 DEF Reader, Holding, TypeOK
    <3>2. rd' = [rd EXCEPT ![r] = x] /\ roots' = roots \cup {latest}
          /\ UNCHANGED <<version, stream, canonical, latest, job>>
      BY <2>2 DEF ValidateSelect
    <3>3. rd[r].ptr = "live"
      <4>1. rd[r].pc = "validate"
        BY <2>2 DEF ValidateSelect
      <4>2. rd[r].pc \notin Holding
        BY <4>1 DEF Holding
      <4>. QED
        BY <4>2 DEF OrderInv
    <3>. HIDE DEF x
    <3>. QED
      BY Zenon, <1>5, <3>1, <3>2, <3>3
  <2>3. CASE ValidateCompare(r) \/ ValidateClear(r)
    <3>1. /\ rd[r].tx \in Versions /\ rd[r].pc \in {"validateRoot", "validateClear"}
          /\ UNCHANGED <<version, stream, roots, canonical, latest, job>>
      BY <2>0, <2>3 DEF ValidateCompare, ValidateClear, TypeOK, Reader
    <3>2. /\ At("begun", rd[r].tx) \in Reader /\ At("begun", rd[r].tx).pc = "begun"
          /\ At("begun", rd[r].tx).ptr = "live"
      <4>1. rd[r].tx \in Versions \cup {NoTx}
        BY <3>1
      <4>. QED
        BY ZenonT(60), <4>1, AtType
    <3>3. CASE rd' = [rd EXCEPT ![r] = At("begun", rd[r].tx)]
      BY Zenon, <3>1, <3>2, <3>3, ReaderOrder
    <3>4. CASE rd' = [rd EXCEPT ![r].pc = "validateClear"]
      <4>. DEFINE x == [rd[r] EXCEPT !.pc = "validateClear"]
      <4>1. /\ x \in Reader /\ x.pc = "validateClear" /\ x.tx = rd[r].tx /\ x.root = rd[r].root
            /\ x.ptr = rd[r].ptr
        BY <2>0 DEF Reader, Holding
      <4>2. rd' = [rd EXCEPT ![r] = x]
        BY <3>4
      <4>3. rd[r].pc \in Holding
        BY <3>1 DEF Holding
      <4>. HIDE DEF x
      <4>. QED
        BY Zenon, <3>1, <4>1, <4>2, <4>3, ReaderOrder
    <3>. QED
      BY <2>3, <3>3, <3>4 DEF ValidateCompare, ValidateClear
  <2>. QED
    BY <1>9, <2>1, <2>2, <2>3 DEF ValidateNext
<1>10. CASE UNCHANGED vars
  BY <1>10 DEF OrderInv, LatestCanonical, RecentViewsServed
<1>. QED
  <2>1. ReadKeys \subseteq DbKeys /\ Readers \subseteq Procs /\ Validators \subseteq Procs
    BY ConstantsAssumption DEF Procs
  <2>. QED
    BY <2>1, <1>1, <1>2, <1>3, <1>4, <1>6, <1>7, <1>8, <1>9, <1>10
       DEF Next, NodeNext, BlockNext, GetNext

\* The order of versions holds in every behaviour.
THEOREM OrderCorrect == Spec => []OrderInv
  BY TypeInit, TypeStep, OrderInit, OrderStep, PTL DEF Spec

\* The latest view is always a canonical root that evictRoots has kept.
THEOREM LatestIsCanonical == Spec => []LatestCanonical
<1>1. OrderInv => LatestCanonical
  BY DEF OrderInv
<1>. QED
  BY <1>1, OrderCorrect, PTL

\* A view at most KeepViews behind the latest is never refused.
THEOREM RecentViewsAreServed == Spec => []RecentViewsServed
<1>1. OrderInv => RecentViewsServed
  BY DEF OrderInv
<1>. QED
  BY <1>1, OrderCorrect, PTL

\* A Get that outlives its root is never on the latest version.
THEOREM StragglersAreOffLatest == Spec => []StragglersOffLatest
<1>1. TypeOK /\ OrderInv => StragglersOffLatest
  <2>. SUFFICES ASSUME TypeOK, OrderInv, NEW r \in Procs, rd[r].pc = "reading", rd[r].ptr # "live"
                PROVE  rd[r].tx # latest
    BY DEF StragglersOffLatest
  <2>1. rd[r].root + KeepViews < latest /\ rd[r].root = rd[r].tx
    BY DEF OrderInv, Holding
  <2>2. rd[r].root \in Nat /\ latest \in Nat
    BY Zenon, VersionsAreNats DEF TypeOK, Reader
  <2>. QED
    BY <2>1, <2>2, VersionsAreNats
<1>. QED
  BY <1>1, TypeCorrect, OrderCorrect, PTL
=============================================================================
