------------------------- MODULE CoherentCacheSafety -------------------------
(***************************************************************************)
(* Why kv/kvcache/cache.go never answers with anything but the reader's    *)
(* own version: CoherenceInv is inductive when clients keep their contract,*)
(* it implies ReadsSnapshot and CachedCoherent, and with it every step of  *)
(* the cache is a step of SnapshotReads.                                   *)
(***************************************************************************)
EXTENDS CoherentCacheProofs

\* An add changes the cell it names and may forget others.
LEMMA AddCells ==
  ASSUME TypeOK, NEW v \in Versions, NEW k \in CacheKeys, NEW val, Add(v, k, val),
         NEW u \in Versions, NEW x \in CacheKeys
  PROVE  IF u = v /\ x = k THEN cache'[u][x] \in {val, NotCached}
         ELSE cache'[u][x] \in {cache[u][x], NotCached}
<1>0. cache \in [Versions -> [CacheKeys -> DbValues \cup {NotCached}]]
  BY DEF TypeOK
<1>1. CASE latest # v
  <2>1. cache' = [cache EXCEPT ![v][k] = val]
    BY <1>1 DEF Add
  <2>. QED
    BY <1>0, <2>1
<1>2. CASE latest = v
  <2>1. PICK list, size : cache' = [cache EXCEPT ![v] = TreeAfterAdd(cache[v], list, size, k, val)]
    BY <1>0, <1>2 DEF Add
  <2>2. u # v => cache'[u] = cache[u]
    BY <1>0, <2>1
  <2>3. cache'[v] = TreeAfterAdd(cache[v], list, size, k, val)
    BY <1>0, <2>1
  <2>4. TreeAfterAdd(cache[v], list, size, k, val)[x]
          \in IF x = k THEN {val, NotCached} ELSE {cache[v][x], NotCached}
    BY DEF TreeAfterAdd
  <2>. QED
    BY <2>2, <2>3, <2>4
<1>. QED
  BY <1>1, <1>2

\* Detaching roots moves no reader.
LEMMA DetachedSame ==
  ASSUME TypeOK, NEW gone, NEW r \in Procs
  PROVE  LET x == Detached(gone)[r] IN x.pc = rd[r].pc /\ x.tx = rd[r].tx /\ x.key = rd[r].key
<1>1. rd[r] \in Reader
  BY DEF TypeOK
<1>2. CASE rd[r].pc \in Holding /\ rd[r].root \in gone /\ rd[r].ptr = "live"
  <2>1. PICK p : Detached(gone)[r] = [rd[r] EXCEPT !.ptr = p]
    BY Zenon, <1>2 DEF Detached
  <2>. QED
    BY <1>1, <2>1 DEF Reader
<1>3. CASE ~(rd[r].pc \in Holding /\ rd[r].root \in gone /\ rd[r].ptr = "live")
  BY <1>3 DEF Detached
<1>. QED
  BY <1>2, <1>3

\* The cells of the trees after advanceRoot.
LEMMA AdvanceRootCells ==
  ASSUME TypeOK, NEW id \in Versions, AdvanceRoot(id), NEW v \in Versions, NEW k \in CacheKeys
  PROVE  \/ cache'[v][k] \in {cache[v][k], NotCached}
         \/ v = id /\ id - 1 \in roots /\ cache'[v][k] = cache[id - 1][k]
<1>1. CASE latest = id /\ id \in roots
  BY <1>1 DEF AdvanceRoot, rootVars
<1>2. CASE ~(latest = id /\ id \in roots)
  <2>1. cache' = [u \in Versions |-> IF u \in EvictedRoots(roots \cup {id}) THEN Empty
                                     ELSE IF u = id THEN AdvancedTree(id) ELSE cache[u]]
    BY <1>2 DEF AdvanceRoot
  <2>2. Empty[k] = NotCached
    BY DEF Empty
  <2>3. \/ AdvancedTree(id) = cache[id]
        \/ id - 1 \in roots /\ AdvancedTree(id) = cache[id - 1]
    <3>1. CASE CanClone(id)
      BY <3>1 DEF AdvancedTree, CanClone
    <3>2. CASE ~CanClone(id)
      BY <3>2 DEF AdvancedTree
    <3>. QED
      BY <3>1, <3>2
  <2>4. \/ cache'[v] \in {Empty, cache[v]}
        \/ v = id /\ cache'[v] = AdvancedTree(id)
    <3>1. cache'[v] = IF v \in EvictedRoots(roots \cup {id}) THEN Empty
                      ELSE IF v = id THEN AdvancedTree(id) ELSE cache[v]
      BY <2>1
    <3>. QED
      BY <3>1
  <2>. QED
    BY <2>2, <2>3, <2>4
<1>. QED
  BY <1>1, <1>2

\* A cell of the trees that CoherenceInv accepts.
CellOK(v, k) ==
  cache[v][k] # NotCached =>
    /\ v <= version
    /\ cache[v][k] = db[v][k] \/ Pending(v, k)
    /\ k \in Codes => cache[v][k] = k
    /\ k \in StorageKeys => WithStorage

LEMMA CoherenceInit == Init => CoherenceInv
<1>. SUFFICES ASSUME Init PROVE CoherenceInv
  OBVIOUS
<1>1. \A r \in Procs : rd[r].pc = "idle" /\ rd[r].tx = NoTx /\ out[r] = NoOut
  BY DEF Init, Idle, At
<1>2. \A v \in Versions, k \in DbKeys : cache[v][k] = NotCached
  BY DEF Init, Empty, CacheKeys
<1>3. \A k \in Codes, v \in Versions : db[v][k] \in {k, NoValue}
  BY ConstantsAssumption DEF Init
<1>4. latest <= version /\ roots = {} /\ stream = <<>> /\ job = NoJob
  BY ConstantsAssumption DEF Init
<1>. QED
  BY <1>1, <1>2, <1>3, <1>4 DEF CoherenceInv, ReadsSnapshot

\* The rest of CoherenceInv, when neither the database nor the queue of
\* batches moves and the trees are known to be right.
LEMMA CoherenceFrame ==
  ASSUME TypeOK, CoherenceInv, UNCHANGED <<db, version>>,
         stream' = stream,
         job' # NoJob => job # NoJob /\ job'.id = job.id /\ job'.changes = job.changes,
         latest' <= version, \A v \in roots' : v <= version,
         \A v \in Versions, k \in DbKeys : CellOK(v, k)',
         \A r \in Procs :
           /\ rd'[r].tx # NoTx => rd'[r].tx <= version
           /\ rd'[r].pc = "reading" =>
                /\ rd'[r].key \in ReadKeys
                /\ rd'[r].key \in Codes => db[rd'[r].tx][rd'[r].key] # NoValue
           /\ rd'[r].pc = "idle" => out'[r] = NoOut
           /\ out'[r] # NoOut => out'[r].val = db[rd'[r].tx][out'[r].key]
  PROVE  CoherenceInv'
<1>0. db' = db /\ version' = version
  OBVIOUS
<1>1. ASSUME NEW i \in 1..Len(stream') PROVE Faithful(stream[i].id, stream[i].changes)'
  <2>1. i \in 1..Len(stream) /\ stream'[i] = stream[i]
    OBVIOUS
  <2>2. Faithful(stream[i].id, stream[i].changes)
    BY <2>1 DEF CoherenceInv
  <2>. QED
    BY ONLY <1>0, <2>1, <2>2 DEF Faithful, LastIs, Occurs
<1>2. ASSUME job' # NoJob PROVE Faithful(job.id, job.changes)'
  <2>1. Faithful(job.id, job.changes) /\ job'.id = job.id /\ job'.changes = job.changes
    BY <1>2 DEF CoherenceInv
  <2>. QED
    BY ONLY <1>0, <2>1 DEF Faithful, LastIs, Occurs
<1>3. ReadsSnapshot'
  BY DEF ReadsSnapshot
<1>4. \A k \in Codes, v \in Versions : db'[v][k] \in {k, NoValue}
  BY DEF CoherenceInv
<1>. QED
  BY <1>1, <1>2, <1>3, <1>4 DEF CoherenceInv, CellOK

\* A commit adds a version and tells its difference; nothing known about the
\* older versions changes.
LEMMA CoherenceCommit ==
  ASSUME TypeOK, CoherenceInv, Commit PROVE CoherenceInv'
<1>. USE VersionsAreNats
<1>1. PICK ch \in Batches, s \in State :
        /\ \A k \in DbKeys : \/ LastIs(ch, k, s[k])
                             \/ ~Occurs(ch, k) /\ s[k] = db[version][k]
        /\ db' = [db EXCEPT ![version + 1] = s]
        /\ stream' = Append(stream, [id |-> version + 1, changes |-> ch])
  BY Zenon DEF Commit
<1>2. /\ version' = version + 1 /\ version \in Nat /\ version + 1 <= MaxVersion /\ MaxVersion \in Nat
      /\ version + 1 \in Versions
  BY ConstantsAssumption DEF Commit, TypeOK, Versions
<1>3. /\ roots' = roots /\ latest' = latest /\ cache' = cache /\ job' = job /\ rd' = rd /\ out' = out
      /\ roots \subseteq Nat /\ latest \in Nat
  BY DEF Commit, cacheVars, rootVars, TypeOK
<1>4. \A v \in Versions : v <= version => db'[v] = db[v]
  BY <1>1, <1>2 DEF TypeOK
<1>5. db'[version + 1] = s
  BY <1>1, <1>2 DEF TypeOK
<1>6. ASSUME NEW id, NEW c, Faithful(id, c)
      PROVE  /\ id \in 1..version'
             /\ \A i \in 1..Len(c) : c[i].key \in Codes => c[i].val = c[i].key
             /\ \A k \in DbKeys : \/ LastIs(c, k, db'[id][k])
                                  \/ ~Occurs(c, k) /\ db'[id][k] = db'[id - 1][k]
  <2>1. id \in 1..version
    BY <1>6 DEF Faithful
  <2>2. id \in Versions /\ id - 1 \in Versions /\ id <= version /\ id - 1 <= version
    BY ONLY <1>2, <2>1 DEF Versions
  <2>3. db'[id] = db[id] /\ db'[id - 1] = db[id - 1]
    BY <1>4, <2>2
  <2>4. id \in 1..version'
    BY <1>2, <2>1
  <2>. QED
    BY <1>6, <2>3, <2>4 DEF Faithful
<1>7. ASSUME NEW i \in 1..Len(stream') PROVE Faithful(stream[i].id, stream[i].changes)'
  <2>. DEFINE B == [id: Versions, changes: Seq(Change)]
  <2>1. stream \in Seq(B) /\ [id |-> version + 1, changes |-> ch] \in B
    BY <1>2, ConstantsAssumption DEF TypeOK
  <2>2. /\ Len(stream) \in Nat /\ Len(stream') = Len(stream) + 1
        /\ stream'[Len(stream) + 1] = [id |-> version + 1, changes |-> ch]
        /\ \A j \in 1..Len(stream) : stream'[j] = stream[j]
    BY <1>1, <2>1, AppendFacts
  <2>. HIDE DEF B
  <2>3. CASE i = Len(stream) + 1
    <3>1. stream'[i].id = version + 1 /\ stream'[i].changes = ch
      BY <2>2, <2>3
    <3>2. stream'[i].id \in 1..version' /\ stream'[i].id - 1 = version
      BY <1>2, <3>1
    <3>3. \A k \in DbKeys : \/ LastIs(ch, k, db'[version + 1][k])
                            \/ ~Occurs(ch, k) /\ db'[version + 1][k] = db'[version][k]
      <4>1. db'[version] = db[version]
        BY <1>2, <1>4 DEF TypeOK
      <4>. QED
        BY <1>1, <1>5, <4>1
    <3>4. \A j \in 1..Len(ch) : ch[j].key \in Codes => ch[j].val = ch[j].key
      BY ConstantsAssumption
    <3>. QED
      BY ONLY <3>1, <3>2, <3>3, <3>4 DEF Faithful, LastIs, Occurs
  <2>4. CASE i # Len(stream) + 1
    <3>1. i \in 1..Len(stream)
      <4>1. Len(stream) \in Nat /\ Len(stream') = Len(stream) + 1
        BY <2>2
      <4>. QED
        BY ONLY <4>1, <2>4, i \in 1..Len(stream')
    <3>2. stream'[i] = stream[i] /\ Faithful(stream[i].id, stream[i].changes)
      BY <2>2, <3>1 DEF CoherenceInv
    <3>3. /\ stream[i].id \in 1..version'
          /\ \A j \in 1..Len(stream[i].changes) :
               stream[i].changes[j].key \in Codes => stream[i].changes[j].val = stream[i].changes[j].key
          /\ \A k \in DbKeys : \/ LastIs(stream[i].changes, k, db'[stream[i].id][k])
                               \/ /\ ~Occurs(stream[i].changes, k)
                                  /\ db'[stream[i].id][k] = db'[stream[i].id - 1][k]
      BY <1>6, <3>2
    <3>. QED
      BY ONLY <3>2, <3>3 DEF Faithful, LastIs, Occurs
  <2>. QED
    BY <2>3, <2>4
<1>8. ASSUME job' # NoJob PROVE Faithful(job.id, job.changes)'
  <2>1. Faithful(job.id, job.changes) /\ job' = job
    BY <1>3, <1>8 DEF CoherenceInv
  <2>2. /\ job.id \in 1..version'
        /\ \A j \in 1..Len(job.changes) :
             job.changes[j].key \in Codes => job.changes[j].val = job.changes[j].key
        /\ \A k \in DbKeys : \/ LastIs(job.changes, k, db'[job.id][k])
                             \/ ~Occurs(job.changes, k) /\ db'[job.id][k] = db'[job.id - 1][k]
    BY <1>6, <2>1
  <2>. QED
    BY ONLY <2>1, <2>2 DEF Faithful, LastIs, Occurs
<1>9. \A k \in Codes, v \in Versions : db'[v][k] \in {k, NoValue}
  <2>. SUFFICES ASSUME NEW k \in Codes, NEW v \in Versions PROVE db'[v][k] \in {k, NoValue}
    OBVIOUS
  <2>1. CASE v = version + 1
    <3>1. CASE LastIs(ch, k, s[k])
      BY <1>5, <2>1, <3>1, ConstantsAssumption DEF LastIs
    <3>2. CASE s[k] = db[version][k]
      BY <1>5, <2>1, <3>2 DEF CoherenceInv, TypeOK
    <3>. QED
      BY <1>1, <3>1, <3>2 DEF DbKeys
  <2>2. CASE v # version + 1
    BY <1>1, <2>2 DEF CoherenceInv, TypeOK
  <2>. QED
    BY <2>1, <2>2
<1>10. ASSUME NEW v \in Versions, NEW k \in DbKeys PROVE CellOK(v, k)'
  <2>. SUFFICES ASSUME cache[v][k] # NotCached PROVE CellOK(v, k)'
    BY <1>3 DEF CellOK
  <2>1. /\ v <= version /\ (cache[v][k] = db[v][k] \/ Pending(v, k))
        /\ k \in Codes => cache[v][k] = k
        /\ k \in StorageKeys => WithStorage
    BY DEF CoherenceInv
  <2>2. db'[v] = db[v] /\ v <= version'
    <3>1. v \in Nat
      OBVIOUS
    <3>. QED
      BY <1>2, <1>4, <2>1, <3>1
  <2>3. Pending(v, k)' = Pending(v, k)
    BY <1>3 DEF Pending
  <2>. QED
    BY <1>3, <2>1, <2>2, <2>3 DEF CellOK
<1>11. ASSUME NEW r \in Procs, rd[r].tx # NoTx
       PROVE  rd[r].tx \in Versions /\ rd[r].tx <= version' /\ db'[rd[r].tx] = db[rd[r].tx]
  <2>1. rd[r].tx \in Versions /\ rd[r].tx <= version
    BY <1>11 DEF TypeOK, Reader, CoherenceInv
  <2>2. rd[r].tx \in Nat
    BY ZenonT(60), <2>1
  <2>3. rd[r].tx <= version'
    BY ONLY <1>2, <2>1, <2>2
  <2>. QED
    BY ZenonT(60), <1>4, <2>1, <2>3
<1>12. \A r \in Procs : out[r] # NoOut => rd[r].tx # NoTx
  BY DEF CoherenceInv, TypeOK
<1>13. ReadsSnapshot'
  BY <1>3, <1>11, <1>12 DEF CoherenceInv, ReadsSnapshot
<1>14. \A r \in Procs : rd[r].pc = "reading" =>
       /\ rd[r].key \in ReadKeys
       /\ rd[r].key \in Codes => db'[rd[r].tx][rd[r].key] # NoValue
  BY <1>11 DEF CoherenceInv, TypeOK
<1>15. latest' <= version' /\ \A v \in roots' : v <= version'
  <2>1. latest <= version /\ \A v \in roots : v <= version
    BY Zenon DEF CoherenceInv
  <2>2. latest \in Versions /\ version \in Versions /\ roots \subseteq Versions
    BY Zenon DEF TypeOK
  <2>3. latest' = latest /\ roots' = roots
    BY Zenon, <1>3
  <2>. QED
    BY ONLY <1>2, <2>1, <2>2, <2>3 DEF Versions
<1>16. \A r \in Procs : rd'[r].pc = "idle" => out'[r] = NoOut
  BY <1>3 DEF CoherenceInv
<1>. QED
  BY <1>3, <1>7, <1>8, <1>9, <1>10, <1>11, <1>13, <1>14, <1>15, <1>16 DEF CoherenceInv, CellOK

\* OnNewBlock takes the lock: a cloned tree holds the parent's values, and the
\* batch will overwrite exactly those that differ.
LEMMA CoherenceOnNewBlock ==
  ASSUME TypeOK, CoherenceInv, NEW again \in BOOLEAN, OnNewBlock(again) PROVE CoherenceInv'
<1>. USE VersionsAreNats
<1>. DEFINE B == [id: Versions, changes: Seq(Change)]
            id == Head(stream).id
            ch == Head(stream).changes
<1>1. /\ stream \in Seq(B) /\ stream # <<>> /\ (stream' = stream \/ stream' = Tail(stream))
      /\ job = NoJob /\ job' = [id |-> id, changes |-> ch, pos |-> 0]
      /\ AdvanceRoot(id)
  BY Zenon DEF OnNewBlock, TypeOK
<1>2. db' = db /\ version' = version /\ out' = out
  BY DEF OnNewBlock, dbVars
<1>3. 1 \in 1..Len(stream) /\ Head(stream) = stream[1] /\ stream[1] \in B
  BY Zenon, <1>1, TailFacts, ElementType
<1>4. id \in Versions /\ ch \in Seq(Change)
  BY <1>3
<1>5. Faithful(id, ch)
  BY Zenon, <1>3 DEF CoherenceInv
<1>6. ASSUME NEW i \in 1..Len(stream')
      PROVE  \E j \in 1..Len(stream) : stream'[i] = stream[j]
  <2>1. CASE stream' = stream
    BY <2>1
  <2>2. CASE stream' = Tail(stream)
    BY <1>1, <2>2, TailFacts
  <2>. QED
    BY <1>1, <2>1, <2>2
<1>. HIDE DEF B, id, ch
<1>7. ASSUME NEW i \in 1..Len(stream') PROVE Faithful(stream[i].id, stream[i].changes)'
  <2>1. PICK j \in 1..Len(stream) : stream'[i] = stream[j]
    BY <1>6
  <2>2. Faithful(stream[j].id, stream[j].changes)
    BY DEF CoherenceInv
  <2>. QED
    BY ONLY <1>2, <2>1, <2>2 DEF Faithful, LastIs, Occurs
<1>8. job'.id = id /\ job'.changes = ch /\ job'.pos = 0
  BY <1>1
<1>9. Faithful(job.id, job.changes)'
  BY ONLY <1>2, <1>5, <1>8 DEF Faithful, LastIs, Occurs
<1>10. id \in 1..version /\ id <= version /\ version \in Nat /\ id - 1 \in Nat
  BY <1>4, <1>5 DEF Faithful, TypeOK
<1>11. ASSUME NEW v \in Versions, NEW k \in DbKeys, cache[v][k] # NotCached
       PROVE  /\ v <= version /\ cache[v][k] = db[v][k]
              /\ k \in Codes => cache[v][k] = k
              /\ k \in StorageKeys => WithStorage
  BY <1>1, <1>11 DEF CoherenceInv, Pending
<1>12. ASSUME NEW v \in Versions, NEW k \in DbKeys PROVE CellOK(v, k)'
  <2>. SUFFICES ASSUME cache'[v][k] # NotCached PROVE CellOK(v, k)'
    BY DEF CellOK
  <2>0. k \in CacheKeys
    BY DEF CacheKeys
  <2>1. CASE cache'[v][k] \in {cache[v][k], NotCached}
    BY <1>2, <1>11, <2>1 DEF CellOK
  <2>2. CASE v = id /\ id - 1 \in roots /\ cache'[v][k] = cache[id - 1][k]
    <3>1. id - 1 \in Versions
      BY Zenon, <2>2 DEF TypeOK
    <3>2. /\ cache'[v][k] = db[id - 1][k]
          /\ k \in Codes => cache'[v][k] = k
          /\ k \in StorageKeys => WithStorage
      BY ZenonT(60), <1>11, <2>2, <3>1
    <3>3. CASE ~Occurs(ch, k) /\ db[id][k] = db[id - 1][k]
      BY <1>2, <1>10, <2>2, <3>2, <3>3 DEF CellOK
    <3>4. CASE LastIs(ch, k, db[id][k])
      <4>1. PICK i \in 1..Len(ch) : ch[i].key = k /\ ch[i].val = db[id][k]
        BY <3>4 DEF LastIs
      <4>2. CASE k \in Codes
        <5>1. ch[i].val = k
          BY <1>5, <4>1, <4>2 DEF Faithful
        <5>. QED
          BY <1>2, <1>10, <2>2, <3>2, <4>1, <4>2, <5>1 DEF CellOK
      <4>3. CASE k \notin Codes
        <5>1. Len(ch) \in Nat /\ i \in 0 + 1..Len(ch)
          BY <1>4
        <5>2. \E j \in job'.pos + 1..Len(job'.changes) : job'.changes[j].key = k
          BY <1>8, <4>1, <5>1
        <5>3. job' # NoJob
          BY <1>1, <1>4, ConstantsAssumption
        <5>4. Pending(v, k)'
          BY <1>8, <2>2, <4>3, <5>2, <5>3 DEF Pending
        <5>. QED
          BY <1>2, <1>10, <2>2, <3>2, <4>3, <5>4 DEF CellOK
      <4>. QED
        BY <4>2, <4>3
    <3>. QED
      BY <1>5, <3>3, <3>4 DEF Faithful
  <2>. QED
    BY Zenon, <1>1, <1>4, <2>0, <2>1, <2>2, AdvanceRootCells
<1>13. \A r \in Procs : rd'[r].pc = rd[r].pc /\ rd'[r].tx = rd[r].tx /\ rd'[r].key = rd[r].key
  <2>1. rd' = rd \/ rd' = Detached(EvictedRoots(roots \cup {id}))
    BY ZenonT(60), <1>1 DEF AdvanceRoot
  <2>. QED
    BY <2>1, DetachedSame
<1>14. latest' <= version' /\ \A v \in roots' : v <= version'
  <2>1. latest' \in {latest, id} /\ roots' \subseteq roots \cup {id}
    BY <1>1 DEF AdvanceRoot, rootVars
  <2>. QED
    BY <1>2, <1>10, <2>1 DEF CoherenceInv
<1>15. ReadsSnapshot'
  BY <1>2, <1>13 DEF CoherenceInv, ReadsSnapshot
<1>16. \A r \in Procs :
         /\ rd'[r].tx # NoTx => rd'[r].tx <= version'
         /\ rd'[r].pc = "reading" =>
              /\ rd'[r].key \in ReadKeys
              /\ rd'[r].key \in Codes => db'[rd'[r].tx][rd'[r].key] # NoValue
         /\ rd'[r].pc = "idle" => out'[r] = NoOut
  BY <1>2, <1>13 DEF CoherenceInv
<1>17. \A k \in Codes, v \in Versions : db'[v][k] \in {k, NoValue}
  BY ZenonT(60), <1>2 DEF CoherenceInv
<1>. QED
  BY Zenon, <1>7, <1>9, <1>12, <1>14, <1>15, <1>16, <1>17 DEF CoherenceInv, CellOK

\* One change applied under the lock: it is the last word on its key, or a
\* later change of the batch is still pending.
LEMMA CoherenceChange ==
  ASSUME TypeOK, CoherenceInv, OnNewBlockChange PROVE CoherenceInv'
<1>. DEFINE pos == job.pos
            ch  == job.changes
            c   == ch[pos + 1]
<1>1. /\ job # NoJob /\ pos < Len(ch) /\ job' = [job EXCEPT !.pos = @ + 1]
      /\ IF c.key \in StorageKeys /\ ~WithStorage THEN cache' = cache
         ELSE Add(job.id, FileUnder(c), c.val)
  BY DEF OnNewBlockChange
<1>2. UNCHANGED <<db, version, stream, roots, latest, rd, out>>
  BY DEF OnNewBlockChange, dbVars
<1>3. job \in [id: Versions, changes: Seq(Change), pos: Nat]
  BY <1>1 DEF TypeOK
<1>4. job'.id = job.id /\ job'.changes = job.changes /\ job'.pos = job.pos + 1
  BY <1>1, <1>3
<1>5. pos \in Nat /\ ch \in Seq(Change) /\ Len(ch) \in Nat /\ pos + 1 \in 1..Len(ch) /\ job.id \in Versions
  BY <1>1, <1>3
<1>6. c \in Change /\ c.key \in DbKeys
  <2>1. c \in Change
    BY <1>5, ElementType
  <2>. QED
    BY <2>1 DEF Change
<1>7. Faithful(job.id, ch)
  BY <1>1 DEF CoherenceInv
<1>8. job' # NoJob
  BY <1>1, <1>3, <1>5, ConstantsAssumption
\* a key other than the one just changed is pending as before
<1>9. ASSUME NEW v, NEW k, k # c.key, Pending(v, k) PROVE Pending(v, k)'
  <2>1. PICK i \in pos + 1..Len(ch) : ch[i].key = k
    BY <1>9 DEF Pending
  <2>2. i # pos + 1
    BY <1>9, <2>1
  <2>3. i \in (pos + 1) + 1..Len(ch)
    BY ONLY <1>5, <2>2, i \in pos + 1..Len(ch)
  <2>. QED
    BY <1>4, <1>8, <1>9, <2>1, <2>3 DEF Pending
\* the change is the last word unless its key is still pending
<1>10. ASSUME NEW v, NEW k, v = job.id, k = c.key, k \notin Codes, ~Pending(v, k)'
       PROVE  c.val = db[v][k]
  <2>1. Occurs(ch, c.key)
    BY <1>5 DEF Occurs
  <2>2. LastIs(ch, c.key, db[job.id][c.key])
    BY <1>6, <1>7, <2>1 DEF Faithful
  <2>3. PICK i \in 1..Len(ch) : /\ ch[i].key = c.key /\ ch[i].val = db[job.id][c.key]
                               /\ \A j \in i+1..Len(ch) : ch[j].key # c.key
    BY ZenonT(60), <2>2 DEF LastIs
  <2>4. \A j \in (pos + 1) + 1..Len(ch) : ch[j].key # c.key
    BY <1>4, <1>8, <1>10 DEF Pending
  <2>5. ~(i < pos + 1)
    <3>. SUFFICES ASSUME i < pos + 1 PROVE FALSE
      OBVIOUS
    <3>1. pos + 1 \in i+1..Len(ch)
      BY <1>5
    <3>. QED
      BY <2>3, <3>1
  <2>6. ~(i > pos + 1)
    <3>. SUFFICES ASSUME i > pos + 1 PROVE FALSE
      OBVIOUS
    <3>1. i \in (pos + 1) + 1..Len(ch)
      BY <1>5
    <3>. QED
      BY <2>3, <2>4, <3>1
  <2>7. i = pos + 1
    <3>1. i \in Nat /\ pos + 1 \in Nat
      BY <1>5
    <3>. QED
      BY ONLY <2>5, <2>6, <3>1
  <2>. QED
    BY <1>10, <2>3, <2>7
<1>11. FileUnder(c) \in CacheKeys /\ \A k \in DbKeys : k = FileUnder(c) => k = c.key /\ k \notin Codes
  BY <1>6, ConstantsAssumption DEF FileUnder, CacheKeys
<1>12. ASSUME NEW v \in Versions, NEW k \in DbKeys, cache[v][k] # NotCached
       PROVE  /\ v <= version
              /\ cache[v][k] = db[v][k] \/ Pending(v, k)
              /\ k \in Codes => cache[v][k] = k
              /\ k \in StorageKeys => WithStorage
  BY <1>12 DEF CoherenceInv
<1>13. job.id <= version
  BY <1>7 DEF Faithful, TypeOK
<1>. HIDE DEF pos, ch, c
<1>14. ASSUME NEW v \in Versions, NEW k \in DbKeys PROVE CellOK(v, k)'
  <2>. SUFFICES ASSUME cache'[v][k] # NotCached PROVE CellOK(v, k)'
    BY DEF CellOK
  <2>0. k \in CacheKeys /\ db' = db /\ version' = version
    BY <1>2 DEF CacheKeys
  <2>1. CASE c.key \in StorageKeys /\ ~WithStorage
    <3>1. cache' = cache
      BY <1>1, <2>1
    <3>2. k # c.key
      BY <1>12, <2>1, <3>1
    <3>. QED
      BY <1>9, <1>12, <2>0, <3>1, <3>2 DEF CellOK
  <2>2. CASE ~(c.key \in StorageKeys /\ ~WithStorage)
    <3>1. IF v = job.id /\ k = FileUnder(c) THEN cache'[v][k] \in {c.val, NotCached}
          ELSE cache'[v][k] \in {cache[v][k], NotCached}
      BY <1>1, <1>5, <1>11, <2>0, <2>2, AddCells
    <3>2. CASE v = job.id /\ k = FileUnder(c)
      <4>1. cache'[v][k] = c.val /\ k = c.key /\ k \notin Codes
        BY <1>11, <3>1, <3>2
      <4>2. c.val = db[v][k] \/ Pending(v, k)'
        BY <1>10, <3>2, <4>1
      <4>. QED
        BY <1>13, <2>0, <2>2, <3>2, <4>1, <4>2 DEF CellOK
    <3>3. CASE ~(v = job.id /\ k = FileUnder(c))
      <4>1. cache'[v][k] = cache[v][k]
        BY <3>1, <3>3
      <4>2. ~Pending(v, k) \/ k # c.key
        <5>. SUFFICES ASSUME Pending(v, k), k = c.key PROVE FALSE
          OBVIOUS
        <5>1. v = job.id /\ k \notin Codes
          BY DEF Pending
        <5>. QED
          BY <3>3, <5>1 DEF FileUnder
      <4>. QED
        BY <1>9, <1>12, <2>0, <4>1, <4>2 DEF CellOK
    <3>. QED
      BY <3>2, <3>3
  <2>. QED
    BY <2>1, <2>2
<1>15. \A r \in Procs :
         /\ rd'[r].tx # NoTx => rd'[r].tx <= version
         /\ rd'[r].pc = "reading" =>
              /\ rd'[r].key \in ReadKeys
              /\ rd'[r].key \in Codes => db[rd'[r].tx][rd'[r].key] # NoValue
         /\ rd'[r].pc = "idle" => out'[r] = NoOut
         /\ out'[r] # NoOut => out'[r].val = db[rd'[r].tx][out'[r].key]
  BY <1>2 DEF CoherenceInv, ReadsSnapshot
<1>16. latest' <= version /\ \A v \in roots' : v <= version
  BY <1>2 DEF CoherenceInv
<1>. QED
  BY <1>1, <1>2, <1>4, <1>14, <1>15, <1>16, CoherenceFrame

\* Trees nobody touched stay as good as they were.
LEMMA SameCells ==
  ASSUME CoherenceInv, NEW v \in Versions, NEW k \in DbKeys,
         cache'[v][k] \in {cache[v][k], NotCached}, UNCHANGED <<db, version, job>>
  PROVE  CellOK(v, k)'
  BY DEF CoherenceInv, CellOK, Pending

\* A step of one reader that leaves the trees right and answers from the
\* reader's own version.
LEMMA CoherenceReader ==
  ASSUME TypeOK, CoherenceInv, NEW r \in Procs, NEW x, NEW o,
         rd' = [rd EXCEPT ![r] = x], out' = [out EXCEPT ![r] = o],
         UNCHANGED <<db, version, stream, job, latest>>,
         \A v \in roots' : v <= version,
         \A v \in Versions, k \in DbKeys : CellOK(v, k)',
         x.tx # NoTx => x.tx <= version,
         x.pc = "reading" => x.key \in ReadKeys /\ (x.key \in Codes => db[x.tx][x.key] # NoValue),
         x.pc = "idle" => o = NoOut,
         o # NoOut => o.val = db[x.tx][o.key]
  PROVE  CoherenceInv'
<1>1. /\ rd'[r] = x /\ out'[r] = o
      /\ \A q \in Procs : q # r => rd'[q] = rd[q] /\ out'[q] = out[q]
  BY ZenonT(60) DEF TypeOK
<1>2. \A q \in Procs :
         /\ rd'[q].tx # NoTx => rd'[q].tx <= version
         /\ rd'[q].pc = "reading" =>
              /\ rd'[q].key \in ReadKeys
              /\ rd'[q].key \in Codes => db[rd'[q].tx][rd'[q].key] # NoValue
         /\ rd'[q].pc = "idle" => out'[q] = NoOut
         /\ out'[q] # NoOut => out'[q].val = db[rd'[q].tx][out'[q].key]
  <2>. TAKE q \in Procs
  <2>1. CASE q = r
    <3>1. rd'[q] = x /\ out'[q] = o
      BY ONLY <1>1, <2>1
    <3>. QED
      BY Zenon, <3>1
  <2>2. CASE q # r
    <3>1. rd'[q] = rd[q] /\ out'[q] = out[q]
      BY ONLY <1>1, <2>2, q \in Procs
    <3>2. /\ rd[q].tx # NoTx => rd[q].tx <= version
          /\ rd[q].pc = "reading" =>
               /\ rd[q].key \in ReadKeys
               /\ rd[q].key \in Codes => db[rd[q].tx][rd[q].key] # NoValue
          /\ rd[q].pc = "idle" => out[q] = NoOut
          /\ out[q] # NoOut => out[q].val = db[rd[q].tx][out[q].key]
      BY Zenon DEF CoherenceInv, ReadsSnapshot
    <3>. QED
      BY ONLY <3>1, <3>2, Zenon
  <2>. QED
    BY <2>1, <2>2
<1>3. latest' <= version /\ (job' # NoJob => job # NoJob /\ job'.id = job.id /\ job'.changes = job.changes)
  BY Zenon DEF CoherenceInv
<1>. QED
  BY <1>2, <1>3, CoherenceFrame

LEMMA CoherenceStep ==
  ASSUME ClientContract, TypeOK, OrderInv, CoherenceInv, [Next]_vars
  PROVE  CoherenceInv'
<1>. USE VersionsAreNats
<1>. USE DEF vars, dbVars, cacheVars, rootVars, evictVars
<1>0. /\ \A r \in Procs : rd[r] \in Reader /\ out[r] \in Change \cup {NoOut}
      /\ \A r \in Procs : rd[r].tx # NoTx => rd[r].tx \in Versions /\ rd[r].tx <= version
      /\ \A r \in Procs : rd = [rd EXCEPT ![r] = rd[r]] /\ out = [out EXCEPT ![r] = out[r]]
      /\ \A r \in Procs : out[r] # NoOut => out[r].val = db[rd[r].tx][out[r].key]
      /\ \A v \in roots : v <= version
      /\ latest <= version
  BY ZenonT(60) DEF TypeOK, Reader, CoherenceInv, ReadsSnapshot
<1>1. CASE Commit
  BY <1>1, CoherenceCommit
<1>2. CASE LoseBatch
  <2>1. /\ UNCHANGED <<db, version, job, latest, roots, cache, rd, out>>
        /\ stream' = Tail(stream) /\ stream # <<>> /\ stream \in Seq([id: Versions, changes: Seq(Change)])
    BY <1>2 DEF LoseBatch, TypeOK
  <2>2. ASSUME NEW i \in 1..Len(stream') PROVE Faithful(stream[i].id, stream[i].changes)'
    <3>1. PICK j \in 1..Len(stream) : stream'[i] = stream[j]
      BY <2>1, TailFacts
    <3>2. Faithful(stream[j].id, stream[j].changes) /\ db' = db /\ version' = version
      BY <2>1, <3>1 DEF CoherenceInv
    <3>3. /\ stream[j].id \in 1..version'
          /\ \A m \in 1..Len(stream[j].changes) :
               stream[j].changes[m].key \in Codes => stream[j].changes[m].val = stream[j].changes[m].key
          /\ \A k \in DbKeys : \/ LastIs(stream[j].changes, k, db'[stream[j].id][k])
                               \/ /\ ~Occurs(stream[j].changes, k)
                                  /\ db'[stream[j].id][k] = db'[stream[j].id - 1][k]
      BY ONLY <3>2, Zenon DEF Faithful
    <3>. QED
      BY ONLY <3>1, <3>3 DEF Faithful, LastIs, Occurs
  <2>3. ASSUME job' # NoJob PROVE Faithful(job.id, job.changes)'
    <3>1. Faithful(job.id, job.changes) /\ db' = db /\ version' = version /\ job' = job
      BY <2>1, <2>3 DEF CoherenceInv
    <3>. QED
      BY ONLY <3>1 DEF Faithful, LastIs, Occurs
  <2>4. \A v \in Versions, k \in DbKeys : CellOK(v, k)'
    BY <2>1, SameCells
  <2>. QED
    BY ZenonT(60), <2>1, <2>2, <2>3, <2>4 DEF CoherenceInv, CellOK, ReadsSnapshot
<1>3. ASSUME NEW again \in BOOLEAN, OnNewBlock(again) PROVE CoherenceInv'
  BY <1>3, CoherenceOnNewBlock
<1>4. CASE OnNewBlockChange
  BY <1>4, CoherenceChange
<1>5. CASE OnNewBlockReady
  <2>1. /\ UNCHANGED <<db, version, stream, latest, roots, cache, rd, out>>
        /\ job' = NoJob /\ job # NoJob /\ job.pos = Len(job.changes)
    BY <1>5 DEF OnNewBlockReady
  <2>2. job.pos \in Nat
    BY <2>1 DEF TypeOK
  <2>3. \A v, k : ~Pending(v, k)
    BY <2>1, <2>2 DEF Pending
  <2>4. \A v \in Versions, k \in DbKeys : CellOK(v, k)'
    BY <2>1, <2>3 DEF CellOK, CoherenceInv
  <2>5. \A r \in Procs :
         /\ rd'[r].tx # NoTx => rd'[r].tx <= version
         /\ rd'[r].pc = "reading" =>
              /\ rd'[r].key \in ReadKeys
              /\ rd'[r].key \in Codes => db[rd'[r].tx][rd'[r].key] # NoValue
         /\ rd'[r].pc = "idle" => out'[r] = NoOut
         /\ out'[r] # NoOut => out'[r].val = db[rd'[r].tx][out'[r].key]
    BY <2>1 DEF CoherenceInv, ReadsSnapshot
  <2>. QED
    BY <1>0, <2>1, <2>4, <2>5, CoherenceFrame
\* steps of a reader that touch no tree and get no new answer
<1>6. ASSUME NEW r \in Procs, NEW x, rd' = [rd EXCEPT ![r] = x], out' = out,
             UNCHANGED <<db, version, stream, job, latest, cache>>,
             \A v \in roots' : v <= version, x.tx # NoTx, x.tx \in {rd[r].tx, version},
             rd[r].tx # x.tx => rd[r].pc = "idle",
             x.pc \notin {"idle", "reading"}
      PROVE  CoherenceInv'
  <2>1. x.tx <= version
    <3>1. version \in Nat
      BY Zenon DEF TypeOK
    <3>2. rd[r].tx # NoTx => rd[r].tx <= version
      BY <1>0, <1>6, Zenon
    <3>3. x.tx # NoTx /\ (x.tx = rd[r].tx \/ x.tx = version)
      BY <1>6, Zenon
    <3>. QED
      BY ONLY <3>1, <3>2, <3>3
  <2>2. out[r] # NoOut => out[r].val = db[x.tx][out[r].key]
    BY <1>0, <1>6 DEF CoherenceInv
  <2>3. out' = [out EXCEPT ![r] = out[r]]
    BY <1>0, <1>6
  <2>4. \A v \in Versions, k \in DbKeys : CellOK(v, k)'
    BY <1>6, SameCells
  <2>. QED
    BY ZenonT(60), <1>6, <2>1, <2>2, <2>3, <2>4, CoherenceReader
<1>7. ASSUME NEW r \in Procs, Begin(r) PROVE CoherenceInv'
  <2>1. /\ rd' = [rd EXCEPT ![r] = At("begun", version)] /\ rd[r].pc = "idle" /\ out' = out
        /\ UNCHANGED <<db, version, stream, job, latest, cache, roots>>
    BY <1>7 DEF Begin
  <2>2. At("begun", version).pc = "begun" /\ At("begun", version).tx = version /\ version # NoTx
    BY AtType DEF TypeOK
  <2>. QED
    BY Zenon, <1>0, <1>6, <2>1, <2>2
<1>8. ASSUME NEW r \in Procs, Rollback(r) PROVE CoherenceInv'
  <2>1. /\ rd' = [rd EXCEPT ![r] = Idle] /\ out' = [out EXCEPT ![r] = NoOut]
        /\ UNCHANGED <<db, version, stream, job, latest, cache, roots>>
    BY <1>8 DEF Rollback
  <2>2. Idle.pc = "idle" /\ Idle.tx = NoTx
    BY DEF Idle, At
  <2>3. \A v \in Versions, k \in DbKeys : CellOK(v, k)'
    BY <2>1, SameCells
  <2>. QED
    BY Zenon, <1>0, <2>1, <2>2, <2>3, CoherenceReader
<1>9. ASSUME NEW r \in Procs, ViewNext(r) PROVE CoherenceInv'
  <2>1. /\ rd[r].tx # NoTx /\ out' = out
        /\ UNCHANGED <<db, version, stream, job, latest, cache>>
        /\ roots' \subseteq roots \cup {rd[r].tx}
    BY <1>9 DEF ViewNext, View, ViewDecide, ViewWoken, ViewTimeout, ViewCancelled, TypeOK
  <2>2. /\ \A pc \in {"open", "begun"} : At(pc, rd[r].tx).tx = rd[r].tx /\ At(pc, rd[r].tx).pc = pc
        /\ [At("selected", rd[r].tx) EXCEPT !.root = rd[r].tx].tx = rd[r].tx
        /\ [At("selected", rd[r].tx) EXCEPT !.root = rd[r].tx].pc = "selected"
    BY DEF At
  <2>3. [rd[r] EXCEPT !.pc = "waiting"].tx = rd[r].tx /\ [rd[r] EXCEPT !.pc = "waiting"].pc = "waiting"
    BY <1>0 DEF Reader
  <2>4. \/ rd' = [rd EXCEPT ![r] = [rd[r] EXCEPT !.pc = "waiting"]]
        \/ rd' = [rd EXCEPT ![r] = [At("selected", rd[r].tx) EXCEPT !.root = rd[r].tx]]
        \/ \E pc \in {"open", "begun"} : rd' = [rd EXCEPT ![r] = At(pc, rd[r].tx)]
    <3>1. CASE View(r)
      BY <3>1 DEF View
    <3>2. CASE ViewDecide(r)
      BY Zenon, <3>2 DEF ViewDecide
    <3>3. CASE ViewWoken(r) \/ ViewTimeout(r) \/ ViewCancelled(r)
      BY <3>3 DEF ViewWoken, ViewTimeout, ViewCancelled
    <3>. QED
      BY <1>9, <3>1, <3>2, <3>3 DEF ViewNext
  <2>5. PICK x : /\ rd' = [rd EXCEPT ![r] = x]
                 /\ x.tx = rd[r].tx /\ x.pc \in {"waiting", "selected", "open", "begun"}
    <3>1. CASE rd' = [rd EXCEPT ![r] = [rd[r] EXCEPT !.pc = "waiting"]]
      BY Zenon, <2>3, <3>1
    <3>2. CASE rd' = [rd EXCEPT ![r] = [At("selected", rd[r].tx) EXCEPT !.root = rd[r].tx]]
      BY Zenon, <2>2, <3>2
    <3>3. ASSUME NEW pc \in {"open", "begun"}, rd' = [rd EXCEPT ![r] = At(pc, rd[r].tx)]
          PROVE  \E x : /\ rd' = [rd EXCEPT ![r] = x]
                        /\ x.tx = rd[r].tx /\ x.pc \in {"waiting", "selected", "open", "begun"}
      BY Zenon, <2>2, <3>3
    <3>. QED
      BY <2>4, <3>1, <3>2, <3>3
  <2>6. \A v \in roots' : v <= version
    BY <1>0, <2>1
  <2>7. x.tx # NoTx /\ x.pc \notin {"idle", "reading"}
    BY <2>1, <2>5
  <2>. QED
    BY Zenon, <1>6, <2>1, <2>5, <2>6, <2>7
<1>10. ASSUME NEW r \in Procs, ValidateCurrentRoot(r) \/ ValidateSelect(r) \/ ValidateCompare(r)
       PROVE  CoherenceInv'
  <2>1. /\ rd[r].tx # NoTx /\ out' = out
        /\ UNCHANGED <<db, version, stream, job, latest, cache>>
        /\ roots' \subseteq roots \cup {latest}
    BY <1>10 DEF ValidateCurrentRoot, ValidateSelect, ValidateCompare, TypeOK
  <2>2. At("begun", rd[r].tx).tx = rd[r].tx /\ At("begun", rd[r].tx).pc = "begun"
    BY DEF At
  <2>4. \/ rd' = [rd EXCEPT ![r] = [rd[r] EXCEPT !.pc = "validate"]]
        \/ rd' = [rd EXCEPT ![r] = [rd[r] EXCEPT !.pc = "validateRoot", !.root = latest]]
        \/ rd' = [rd EXCEPT ![r] = [rd[r] EXCEPT !.pc = "validateClear"]]
        \/ rd' = [rd EXCEPT ![r] = At("begun", rd[r].tx)]
    <3>1. CASE ValidateCurrentRoot(r)
      BY <3>1 DEF ValidateCurrentRoot
    <3>2. CASE ValidateSelect(r)
      BY <3>2 DEF ValidateSelect
    <3>3. CASE ValidateCompare(r)
      BY <3>3 DEF ValidateCompare
    <3>. QED
      BY <1>10, <3>1, <3>2, <3>3
  <2>5. PICK x : /\ rd' = [rd EXCEPT ![r] = x] /\ x.tx = rd[r].tx
                 /\ x.pc \in {"validate", "validateRoot", "validateClear", "begun"}
    <3>1. CASE rd' = [rd EXCEPT ![r] = [rd[r] EXCEPT !.pc = "validate"]]
      <4>. DEFINE y == [rd[r] EXCEPT !.pc = "validate"]
      <4>1. y.tx = rd[r].tx /\ y.pc \in {"validate", "validateRoot", "validateClear"}
        BY <1>0 DEF Reader
      <4>2. rd' = [rd EXCEPT ![r] = y]
        BY <3>1
      <4>. HIDE DEF y
      <4>. QED
        BY Zenon, <4>1, <4>2
    <3>2. CASE rd' = [rd EXCEPT ![r] = [rd[r] EXCEPT !.pc = "validateRoot", !.root = latest]]
      <4>. DEFINE y == [rd[r] EXCEPT !.pc = "validateRoot", !.root = latest]
      <4>1. y.tx = rd[r].tx /\ y.pc \in {"validate", "validateRoot", "validateClear"}
        BY <1>0 DEF Reader
      <4>2. rd' = [rd EXCEPT ![r] = y]
        BY <3>2
      <4>. HIDE DEF y
      <4>. QED
        BY Zenon, <4>1, <4>2
    <3>3. CASE rd' = [rd EXCEPT ![r] = [rd[r] EXCEPT !.pc = "validateClear"]]
      <4>. DEFINE y == [rd[r] EXCEPT !.pc = "validateClear"]
      <4>1. y.tx = rd[r].tx /\ y.pc \in {"validate", "validateRoot", "validateClear"}
        BY <1>0 DEF Reader
      <4>2. rd' = [rd EXCEPT ![r] = y]
        BY <3>3
      <4>. HIDE DEF y
      <4>. QED
        BY ZenonT(60), <4>1, <4>2
    <3>4. CASE rd' = [rd EXCEPT ![r] = At("begun", rd[r].tx)]
      BY Zenon, <2>2, <3>4
    <3>. QED
      BY <2>4, <3>1, <3>2, <3>3, <3>4
  <2>. QED
    BY Zenon, <1>0, <1>6, <2>1, <2>5
<1>11. ASSUME NEW r \in Procs, ValidateClear(r) PROVE CoherenceInv'
  <2>1. /\ rd[r].tx # NoTx /\ out' = out /\ rd' = [rd EXCEPT ![r] = At("begun", rd[r].tx)]
        /\ UNCHANGED <<db, version, stream, job, latest, roots>>
        /\ cache' = cache \/ cache' = [cache EXCEPT ![rd[r].root] = Empty]
    BY <1>11 DEF ValidateClear, TypeOK
  <2>2. At("begun", rd[r].tx).tx = rd[r].tx /\ At("begun", rd[r].tx).pc = "begun"
    BY DEF At
  <2>3. ASSUME NEW v \in Versions, NEW k \in DbKeys PROVE cache'[v][k] \in {cache[v][k], NotCached}
    <3>1. Empty[k] = NotCached
      BY DEF Empty, CacheKeys
    <3>2. cache'[v] \in {cache[v], Empty}
      <4>1. cache = [u \in Versions |-> cache[u]]
        BY DEF TypeOK
      <4>. QED
        BY <2>1, <4>1
    <3>. QED
      BY <3>1, <3>2
  <2>4. \A v \in Versions, k \in DbKeys : CellOK(v, k)'
    BY <2>1, <2>3, SameCells
  <2>5. out' = [out EXCEPT ![r] = out[r]]
    BY <1>0, <2>1
  <2>. QED
    <3>. DEFINE x == At("begun", rd[r].tx)
    <3>1. /\ \A v \in roots' : v <= version
          /\ x.tx <= version /\ x.pc = "begun" /\ rd' = [rd EXCEPT ![r] = x]
          /\ out[r] # NoOut => out[r].val = db[x.tx][out[r].key]
      BY <1>0, <2>1, <2>2
    <3>2. UNCHANGED <<db, version, stream, job, latest>>
      BY ZenonT(60), <2>1
    <3>. HIDE DEF x
    <3>. QED
      BY ZenonT(60), <2>4, <2>5, <3>1, <3>2, CoherenceReader
<1>12. ASSUME NEW r \in Procs, NEW k \in ReadKeys, Get(r, k) PROVE CoherenceInv'
  <2>1. /\ rd[r].pc = "open" /\ rd[r].tx # NoTx /\ rd[r].tx \in Versions /\ job = NoJob
        /\ UNCHANGED <<db, version, stream, job, latest, roots, cache>>
        /\ k \in Codes => db[rd[r].tx][k] # NoValue
    BY <1>0, <1>12 DEF Get, TypeOK, ClientContract
  <2>2. k \in DbKeys
    BY ConstantsAssumption
  <2>3. \A v \in Versions, kk \in DbKeys : CellOK(v, kk)'
    BY <2>1, SameCells
  <2>4. CASE out' = [out EXCEPT ![r] = NoOut] /\ rd' = rd
    <3>1. rd' = [rd EXCEPT ![r] = rd[r]]
      BY <1>0, <2>4
    <3>. QED
      BY Zenon, <1>0, <2>1, <2>3, <2>4, <3>1, CoherenceReader
  <2>5. CASE /\ cache[rd[r].tx][k] # NotCached
             /\ out' = [out EXCEPT ![r] = [key |-> k, val |-> cache[rd[r].tx][k]]] /\ rd' = rd
    <3>1. cache[rd[r].tx][k] = db[rd[r].tx][k]
      BY ZenonT(60), <2>1, <2>2, <2>5 DEF CoherenceInv, Pending
    <3>2. rd' = [rd EXCEPT ![r] = rd[r]]
      BY <1>0, <2>5
    <3>3. [key |-> k, val |-> cache[rd[r].tx][k]].val = db[rd[r].tx][[key |-> k, val |-> cache[rd[r].tx][k]].key]
      BY <3>1
    <3>. QED
      BY ZenonT(60), <1>0, <2>1, <2>3, <2>5, <3>2, <3>3, CoherenceReader
  <2>6. CASE /\ rd' = [rd EXCEPT ![r] = [rd[r] EXCEPT !.pc = "reading", !.root = rd[r].tx, !.key = k]]
             /\ out' = out
    <3>. DEFINE x == [rd[r] EXCEPT !.pc = "reading", !.root = rd[r].tx, !.key = k]
    <3>1. x.tx = rd[r].tx /\ x.pc = "reading" /\ x.key = k
      BY <1>0 DEF Reader
    <3>2. out' = [out EXCEPT ![r] = out[r]] /\ rd' = [rd EXCEPT ![r] = x]
      BY <1>0, <2>6
    <3>. HIDE DEF x
    <3>. QED
      BY Zenon, <1>0, <2>1, <2>3, <3>1, <3>2, CoherenceReader
  <2>. QED
    BY <1>12, <2>4, <2>5, <2>6 DEF Get
<1>13. ASSUME NEW r \in Procs, GetAdd(r) PROVE CoherenceInv'
  <2>. DEFINE v == rd[r].tx
              k == rd[r].key
  <2>1. /\ rd[r].pc = "reading" /\ v # NoTx /\ v \in Versions /\ job = NoJob /\ v <= version
        /\ UNCHANGED <<db, version, stream, job, latest, roots>>
        /\ k \in ReadKeys /\ k \in DbKeys /\ k \in CacheKeys
        /\ k \in Codes => db[v][k] # NoValue
    BY ZenonT(60), <1>0, <1>13 DEF GetAdd, TypeOK, CoherenceInv, CacheKeys
  <2>2. /\ cache' = cache \/ Add(v, k, db[v][k])
        /\ out' = [out EXCEPT ![r] = [key |-> k, val |-> db[v][k]]]
        /\ rd' = [rd EXCEPT ![r] = At("open", v)]
    BY ZenonT(60), <1>13 DEF GetAdd, AddsTo
  <2>3. At("open", v).pc = "open" /\ At("open", v).tx = v
    BY DEF At
  <2>4. [key |-> k, val |-> db[v][k]].val = db[v][[key |-> k, val |-> db[v][k]].key]
    OBVIOUS
  <2>. HIDE DEF v, k
  <2>5. ASSUME NEW u \in Versions, NEW x \in DbKeys PROVE CellOK(u, x)'
    <3>0. x \in CacheKeys
      BY DEF CacheKeys
    <3>1. CASE cache'[u][x] \in {cache[u][x], NotCached}
      BY Zenon, <2>1, <3>1, SameCells
    <3>2. CASE u = v /\ x = k /\ cache'[u][x] = db[v][k]
      <4>1. k \in Codes => db[v][k] = k
        BY ZenonT(60), <2>1 DEF CoherenceInv
      <4>2. k \in StorageKeys => WithStorage
        BY <2>1 DEF ClientContract
      <4>. QED
        BY <2>1, <3>2, <4>1, <4>2 DEF CellOK
    <3>. QED
      BY ZenonT(60), <2>1, <2>2, <3>0, <3>1, <3>2, AddCells
  <2>. QED
    BY ZenonT(60), <1>0, <2>1, <2>2, <2>3, <2>4, <2>5, CoherenceReader
<1>14. ASSUME NEW r \in Procs, GetFails(r) PROVE CoherenceInv'
  <2>1. /\ rd[r].tx # NoTx /\ out' = [out EXCEPT ![r] = NoOut]
        /\ rd' = [rd EXCEPT ![r] = At("open", rd[r].tx)]
        /\ UNCHANGED <<db, version, stream, job, latest, roots, cache>>
    BY <1>14 DEF GetFails, TypeOK
  <2>2. At("open", rd[r].tx).tx = rd[r].tx /\ At("open", rd[r].tx).pc = "open"
    BY DEF At
  <2>3. \A v \in Versions, k \in DbKeys : CellOK(v, k)'
    BY <2>1, SameCells
  <2>. QED
    BY ZenonT(60), <1>0, <2>1, <2>2, <2>3, CoherenceReader
<1>15. CASE UNCHANGED vars
  <2>1. UNCHANGED <<db, version, stream, job, latest, roots, cache, rd, out>>
    BY <1>15
  <2>2. \A v \in Versions, k \in DbKeys : CellOK(v, k)'
    BY <2>1, SameCells
  <2>3. \A r \in Procs :
         /\ rd'[r].tx # NoTx => rd'[r].tx <= version
         /\ rd'[r].pc = "reading" =>
              /\ rd'[r].key \in ReadKeys
              /\ rd'[r].key \in Codes => db[rd'[r].tx][rd'[r].key] # NoValue
         /\ rd'[r].pc = "idle" => out'[r] = NoOut
         /\ out'[r] # NoOut => out'[r].val = db[rd'[r].tx][out'[r].key]
    BY Zenon, <2>1 DEF CoherenceInv, ReadsSnapshot
  <2>. QED
    BY ZenonT(60), <1>0, <2>1, <2>2, <2>3, CoherenceFrame
<1>. QED
  <2>1. Readers \subseteq Procs /\ Validators \subseteq Procs
    BY DEF Procs
  <2>. QED
    BY <2>1, <1>1, <1>2, <1>3, <1>4, <1>5, <1>7, <1>8, <1>9, <1>10, <1>11, <1>12, <1>13, <1>14, <1>15
       DEF Next, NodeNext, BlockNext, GetNext, ValidateNext

\* When clients keep their contract, the strengthened invariant holds in
\* every behaviour.
THEOREM CoherenceCorrect == ASSUME ClientContract PROVE Spec => []CoherenceInv
<1>1. TypeOK /\ OrderInv /\ CoherenceInv /\ [Next]_vars => CoherenceInv'
  BY CoherenceStep
<1>. QED
  BY <1>1, CoherenceInit, TypeCorrect, OrderCorrect, PTL DEF Spec

\* Whatever Get answers, from the cache or not, is what the reader's own
\* version holds.
THEOREM ReadsAreSnapshots == ASSUME ClientContract PROVE Spec => []ReadsSnapshot
<1>1. CoherenceInv => ReadsSnapshot
  BY Zenon DEF CoherenceInv
<1>. QED
  BY <1>1, CoherenceCorrect, PTL

\* Outside OnNewBlock every element of every root is the database's.
THEOREM RootsAreCoherent == ASSUME ClientContract PROVE Spec => []CachedCoherent
<1>1. TypeOK /\ CoherenceInv => CachedCoherent
  BY Zenon DEF TypeOK, CoherenceInv, CachedCoherent, Pending
<1>. QED
  BY <1>1, TypeCorrect, CoherenceCorrect, PTL

----------------------------------------------------------------------------
(* The cache implements SnapshotReads.                                     *)

LEMMA RefinesInit == Init => Snapshot!Init
<1>. SUFFICES ASSUME Init PROVE Snapshot!Init
  OBVIOUS
<1>1. db \in [Versions -> [DbKeys -> DbValues]] /\ version \in Versions
  BY Zenon, ConstantsAssumption DEF Init, State, Versions
<1>2. [r \in Procs |-> rd[r].tx] = [r \in Procs |-> NoTx]
  BY DEF Init, Idle, At
<1>. QED
  BY <1>1, <1>2 DEF Init, Snapshot!Init, Snapshot!State

LEMMA RefinesStep ==
  ASSUME ClientContract, TypeOK, TypeOK', CoherenceInv, [Next]_vars
  PROVE  [Snapshot!Next]_(Snapshot!vars)
<1>. DEFINE tx == [r \in Procs |-> rd[r].tx]
<1>. USE DEF vars, dbVars, cacheVars, rootVars, evictVars
<1>0. /\ \A r \in Procs : rd[r] \in Reader
      /\ \A r \in Procs : rd[r].tx # NoTx <=> rd[r].pc # "idle"
  BY Zenon DEF TypeOK
\* a step of one reader changes tx only at that reader
<1>1. ASSUME NEW r \in Procs, NEW x, rd' = [rd EXCEPT ![r] = x]
      PROVE  tx' = [tx EXCEPT ![r] = x.tx]
  <2>1. rd'[r] = x /\ \A q \in Procs : q # r => rd'[q] = rd[q]
    BY ZenonT(60), <1>1 DEF TypeOK
  <2>. QED
    BY Zenon, <2>1
<1>2. ASSUME NEW r \in Procs, NEW x, rd' = [rd EXCEPT ![r] = x], x.tx = rd[r].tx
      PROVE  tx' = tx
  <2>1. tx' = [tx EXCEPT ![r] = rd[r].tx]
    BY <1>1, <1>2
  <2>. QED
    BY ZenonT(60), <2>1
\* steps that no client sees
<1>3. ASSUME UNCHANGED <<db, version, out>>, tx' = tx PROVE [Snapshot!Next]_(Snapshot!vars)
  BY <1>3 DEF Snapshot!vars
<1>4. CASE Commit
  <2>1. PICK s \in State : db' = [db EXCEPT ![version + 1] = s]
    BY Zenon, <1>4 DEF Commit
  <2>2. /\ version + 1 \in Versions /\ version' = version + 1
        /\ UNCHANGED <<tx, out>>
    BY ZenonT(60), <1>4, ConstantsAssumption DEF Commit, TypeOK, Versions
  <2>3. s \in Snapshot!State
    BY DEF State, Snapshot!State
  <2>. QED
    BY Zenon, <2>1, <2>2, <2>3 DEF Snapshot!Next, Snapshot!Commit
<1>5. CASE LoseBatch \/ OnNewBlockChange \/ OnNewBlockReady \/ UNCHANGED vars
  <2>1. UNCHANGED <<db, version, out, rd>>
    BY <1>5 DEF LoseBatch, OnNewBlockChange, OnNewBlockReady
  <2>. QED
    BY <1>3, <2>1
<1>6. ASSUME NEW again \in BOOLEAN, OnNewBlock(again) PROVE [Snapshot!Next]_(Snapshot!vars)
  <2>1. UNCHANGED <<db, version, out>> /\ AdvanceRoot(Head(stream).id)
    BY <1>6 DEF OnNewBlock
  <2>2. \/ rd' = rd
        \/ rd' = Detached(EvictedRoots(roots \cup {Head(stream).id}))
    BY <2>1 DEF AdvanceRoot
  <2>3. \A r \in Procs : rd'[r].tx = rd[r].tx
    BY <2>2, DetachedSame
  <2>4. tx' = tx
    BY <2>3
  <2>. QED
    BY <1>3, <2>1, <2>4
<1>7. ASSUME NEW r \in Procs, Begin(r) PROVE [Snapshot!Next]_(Snapshot!vars)
  <2>1. rd' = [rd EXCEPT ![r] = At("begun", version)] /\ UNCHANGED <<db, version, out>> /\ rd[r].pc = "idle"
    BY <1>7 DEF Begin
  <2>2. At("begun", version).tx = version
    BY DEF At
  <2>3. tx' = [tx EXCEPT ![r] = version] /\ tx[r] = NoTx
    BY ZenonT(60), <1>0, <1>1, <2>1, <2>2
  <2>. QED
    BY ZenonT(60), <2>1, <2>3 DEF Snapshot!Next, Snapshot!Begin
<1>8. ASSUME NEW r \in Procs, Rollback(r) PROVE [Snapshot!Next]_(Snapshot!vars)
  <2>1. /\ rd' = [rd EXCEPT ![r] = Idle] /\ out' = [out EXCEPT ![r] = NoOut]
        /\ UNCHANGED <<db, version>> /\ rd[r].pc # "idle"
    BY <1>8 DEF Rollback
  <2>2. Idle.tx = NoTx
    BY DEF Idle, At
  <2>3. tx' = [tx EXCEPT ![r] = NoTx] /\ tx[r] # NoTx
    BY ZenonT(60), <1>0, <1>1, <2>1, <2>2
  <2>. QED
    BY Zenon, <2>1, <2>3 DEF Snapshot!Next, Snapshot!End
<1>9. ASSUME NEW r \in Procs, ViewNext(r) \/ ValidateNext(r) PROVE [Snapshot!Next]_(Snapshot!vars)
  <2>1. UNCHANGED <<db, version, out>>
    BY <1>9 DEF ViewNext, View, ViewDecide, ViewWoken, ViewTimeout, ViewCancelled,
                ValidateNext, ValidateCurrentRoot, ValidateSelect, ValidateCompare, ValidateClear
  <2>2. rd'[r].tx = rd[r].tx
    <3>1. rd \in [Procs -> Reader] /\ rd[r] \in Reader
      BY Zenon DEF TypeOK
    <3>2. CASE View(r)
      BY <3>1, <3>2 DEF View, At
    <3>3. CASE ViewDecide(r)
      BY <3>1, <3>3 DEF ViewDecide, At, Reader
    <3>4. CASE ViewWoken(r) \/ ViewTimeout(r) \/ ViewCancelled(r)
      BY <3>1, <3>4 DEF ViewWoken, ViewTimeout, ViewCancelled, At
    <3>5. CASE ValidateCurrentRoot(r)
      BY <3>1, <3>5 DEF ValidateCurrentRoot, Reader
    <3>6. CASE ValidateSelect(r)
      BY <3>1, <3>6 DEF ValidateSelect, Reader
    <3>7. CASE ValidateCompare(r)
      BY <3>1, <3>7 DEF ValidateCompare, At, Reader
    <3>8. CASE ValidateClear(r)
      BY <3>1, <3>8 DEF ValidateClear, At
    <3>. QED
      BY <1>9, <3>2, <3>3, <3>4, <3>5, <3>6, <3>7, <3>8 DEF ViewNext, ValidateNext
  <2>3. \A q \in Procs : q # r => rd'[q] = rd[q]
    BY <1>9 DEF ViewNext, View, ViewDecide, ViewWoken, ViewTimeout, ViewCancelled, TypeOK,
                ValidateNext, ValidateCurrentRoot, ValidateSelect, ValidateCompare, ValidateClear
  <2>4. tx' = tx
    BY <2>2, <2>3
  <2>. QED
    BY <1>3, <2>1, <2>4
<1>10. ASSUME NEW r \in Procs, UNCHANGED <<db, version>>, tx' = tx, rd[r].tx # NoTx,
              NEW k \in DbKeys,
              \/ out' = [out EXCEPT ![r] = NoOut]
              \/ out' = [out EXCEPT ![r] = [key |-> k, val |-> db[rd[r].tx][k]]]
       PROVE  [Snapshot!Next]_(Snapshot!vars)
  <2>1. tx[r] = rd[r].tx
    OBVIOUS
  <2>2. CASE out' = [out EXCEPT ![r] = NoOut]
    BY ZenonT(60), <1>10, <2>1, <2>2 DEF Snapshot!Next, Snapshot!Fail
  <2>3. CASE out' = [out EXCEPT ![r] = [key |-> k, val |-> db[rd[r].tx][k]]]
    BY ZenonT(60), <1>10, <2>1, <2>3 DEF Snapshot!Next, Snapshot!Read
  <2>. QED
    BY <1>10, <2>2, <2>3
<1>11. ASSUME NEW r \in Procs, NEW k \in DbKeys, Get(r, k) PROVE [Snapshot!Next]_(Snapshot!vars)
  <2>1. /\ UNCHANGED <<db, version>> /\ job = NoJob /\ rd[r].tx \in Versions /\ rd[r].tx # NoTx
    BY <1>0, <1>11 DEF Get, Reader
  <2>2. CASE out' = [out EXCEPT ![r] = NoOut] /\ rd' = rd
    BY Zenon, <1>10, <2>1, <2>2
  <2>3. CASE /\ cache[rd[r].tx][k] # NotCached
             /\ out' = [out EXCEPT ![r] = [key |-> k, val |-> cache[rd[r].tx][k]]] /\ rd' = rd
    <3>1. cache[rd[r].tx][k] = db[rd[r].tx][k]
      BY ZenonT(60), <2>1, <2>3 DEF CoherenceInv, Pending
    <3>. QED
      BY ZenonT(60), <1>10, <2>1, <2>3, <3>1
  <2>4. CASE /\ rd' = [rd EXCEPT ![r] = [rd[r] EXCEPT !.pc = "reading", !.root = rd[r].tx, !.key = k]]
             /\ out' = out
    <3>1. [rd[r] EXCEPT !.pc = "reading", !.root = rd[r].tx, !.key = k].tx = rd[r].tx
      BY <1>0 DEF Reader
    <3>2. tx' = tx
      BY <1>2, <2>4, <3>1
    <3>. QED
      BY <1>3, <2>1, <2>4, <3>2
  <2>. QED
    BY <1>11, <2>2, <2>3, <2>4 DEF Get
<1>12. ASSUME NEW r \in Procs, GetAdd(r) \/ GetFails(r) PROVE [Snapshot!Next]_(Snapshot!vars)
  <2>1. /\ UNCHANGED <<db, version>> /\ rd[r].pc = "reading" /\ rd[r].tx # NoTx /\ rd[r].key \in DbKeys
        /\ rd' = [rd EXCEPT ![r] = At("open", rd[r].tx)]
        /\ \/ out' = [out EXCEPT ![r] = NoOut]
           \/ out' = [out EXCEPT ![r] = [key |-> rd[r].key, val |-> db[rd[r].tx][rd[r].key]]]
    BY ZenonT(60), <1>0, <1>12 DEF GetAdd, GetFails, TypeOK
  <2>2. At("open", rd[r].tx).tx = rd[r].tx
    BY DEF At
  <2>3. tx' = tx
    BY ZenonT(60), <1>2, <2>1, <2>2
  <2>. QED
    BY ZenonT(60), <1>10, <2>1, <2>3
<1>. QED
  <2>1. Readers \subseteq Procs /\ Validators \subseteq Procs /\ ReadKeys \subseteq DbKeys
    BY Zenon, ConstantsAssumption DEF Procs
  <2>. QED
    BY <2>1, <1>4, <1>5, <1>6, <1>7, <1>8, <1>9, <1>11, <1>12
       DEF Next, NodeNext, BlockNext, GetNext

\* The cache is invisible: under their contract, clients of Coherent observe
\* a behaviour of SnapshotReads.
THEOREM CacheImplementsSnapshots == ASSUME ClientContract PROVE Spec => RefinesSnapshot
<1>1. TypeOK /\ TypeOK' /\ CoherenceInv /\ [Next]_vars => [Snapshot!Next]_(Snapshot!vars)
  BY RefinesStep
<1>. QED
  BY <1>1, RefinesInit, TypeCorrect, CoherenceCorrect, PTL DEF Spec, RefinesSnapshot, Snapshot!Spec
=============================================================================
