---------------------------- MODULE CoherentCache ----------------------------
(***************************************************************************)
(* kv/kvcache/cache.go: the Coherent cache that sits between a remote      *)
(* database and its readers.  The node commits versions of the state and   *)
(* announces each with a StateChangeBatch; OnNewBlock builds the "root"    *)
(* (view) of that version by cloning its canonical parent and applying the *)
(* changes; readers that hold a read transaction ask View for the root of  *)
(* their version and read through it, filling it on a miss.                *)
(*                                                                         *)
(* Roots are kept per version: roots is the key set of the map c.roots and *)
(* cache[v] both B-trees of the root (state keys and code keys have their  *)
(* own trees in the code; their key sets are disjoint here).  A root that  *)
(* evictRoots forgets may still be held by a call in progress: its pointer *)
(* is then marked "gone" in rd, since nobody else can see that object.     *)
(* c.lock is held by OnNewBlock over several steps (job # NoJob); every    *)
(* other critical section is one step.                                     *)
(***************************************************************************)
EXTENDS Integers, FiniteSets, Sequences

CONSTANTS Readers,          \* goroutines that read through the cache
          Validators,       \* goroutines that call ValidateCurrentRoot
          AccountKeys, StorageKeys, Codes, \* PlainState keys; code hashes
          ZeroHash,         \* the 32 zero bytes OnNewBlock files code under
          Values,           \* values of PlainState
          NoValue,          \* Pair.Value == nil: the key is absent
          NotCached,        \* the key has no element in a tree
          NoJob, NoOut, NoTx,
          KeepViews, CacheSize, CodeCacheSize, \* CoherentConfig; an element weighs 1
          MaxWaits,         \* MAX_WAITS
          WaitForNewBlock, WithStorage,        \* CoherentConfig
          ReadKeys,         \* the keys clients ask for
          AskAbsentCode,    \* may clients ask for code their version lacks?
          Genesis,          \* contents of the database when the cache starts
          FirstVersion,     \* version of the database when the cache starts
          MaxVersion,       \* bound on commits
          Batches           \* change lists the node may announce

VARIABLES db, version,      \* the node's database, per version
          stream,           \* StateChangeBatches sent and not yet delivered
          roots, cache, canonical, ready,      \* c.roots
          latest,           \* c.latestStateVersionID
          stateEvict, codeEvict,               \* eviction lists, front first
          waits,            \* c.waitExceededCount
          job,              \* the OnNewBlock call that holds c.lock
          rd, out           \* the readers, and the last answer each received

dbVars    == <<db, version>>
rootVars  == <<roots, cache, canonical, ready, latest>>
evictVars == <<stateEvict, codeEvict>>
cacheVars == <<rootVars, evictVars, waits, job>>
vars      == <<dbVars, stream, cacheVars, rd, out>>

StateKeys == AccountKeys \cup StorageKeys
DbKeys    == StateKeys \cup Codes
CacheKeys == DbKeys \cup {ZeroHash}
DbValues  == Values \cup Codes \cup {NoValue}
Versions  == 0..MaxVersion
State     == [DbKeys -> DbValues]
Change    == [key: DbKeys, val: DbValues]
Procs     == Readers \cup Validators

ASSUME ConstantsAssumption ==
  /\ KeepViews \in Nat \ {0}
  /\ CacheSize \in Nat /\ CodeCacheSize \in Nat
  /\ MaxWaits \in Nat
  /\ MaxVersion \in Nat /\ FirstVersion \in 0..MaxVersion
  /\ WaitForNewBlock \in BOOLEAN /\ WithStorage \in BOOLEAN /\ AskAbsentCode \in BOOLEAN
  /\ ReadKeys \subseteq DbKeys
  /\ Genesis \in State /\ \A k \in Codes : Genesis[k] \in {k, NoValue}
  /\ Batches \subseteq Seq(Change)
  /\ \A ch \in Batches : \A i \in 1..Len(ch) : ch[i].key \in Codes => ch[i].val = ch[i].key
  /\ Readers \cap Validators = {}
  /\ ZeroHash \notin DbKeys
  /\ StateKeys \cap Codes = {}
  /\ AccountKeys \cap StorageKeys = {}
  /\ NotCached \notin DbValues
  /\ NoTx \notin Versions
  /\ NoOut \notin Change
  /\ NoJob \notin [id: Versions, changes: Seq(Change), pos: Nat]
  /\ IsFiniteSet(CacheKeys)

Empty == [k \in CacheKeys |-> NotCached]
Cached(c) == {k \in CacheKeys : c[k] # NotCached}

----------------------------------------------------------------------------
(* Eviction lists.                                                         *)

\* The list without element e: List.remove unlinks it from its neighbours.
\* A list holds an element once.
Unlinked(list, e) ==
  IF \E i \in 1..Len(list) : list[i] = e
  THEN LET i == CHOOSE j \in 1..Len(list) : list[j] = e
       IN  SubSeq(list, 1, i - 1) \o SubSeq(list, i + 1, Len(list))
  ELSE list

\* The elements of S, each once, in the order a Walk of the tree meets them.
Walked(S) ==
  CHOOSE f \in [1..Cardinality(S) -> S] :
    \A i, j \in 1..Cardinality(S) : f[i] = f[j] => i = j

\* The tree and the list after add/addCode put k |-> v into the root of the
\* latest version: replaced is unlinked, the element goes to the front and
\* the oldest elements leave the list, and their keys the tree, until the
\* list fits.
ListAfterAdd(c, list, k) ==
  <<k>> \o (IF c[k] # NotCached THEN Unlinked(list, k) ELSE list)

\* How many elements of the list stay.
Kept(list, size) == IF Len(list) <= size THEN Len(list) ELSE size

Trimmed(list, size) == SubSeq(list, 1, Kept(list, size))

Dropped(list, size) == { list[i] : i \in (Kept(list, size) + 1)..Len(list) }

TreeAfterAdd(c, list, size, k, v) ==
  [x \in CacheKeys |->
     IF x \in Dropped(ListAfterAdd(c, list, k), size) THEN NotCached
     ELSE IF x = k THEN v ELSE c[x]]

\* add (state keys) and addCode (code keys) on the root of version v.
Add(v, k, val) ==
  /\ IF latest # v
     THEN /\ cache' = [cache EXCEPT ![v][k] = val]
          /\ UNCHANGED evictVars
     ELSE IF k \in StateKeys
     THEN /\ cache' = [cache EXCEPT ![v] = TreeAfterAdd(@, stateEvict, CacheSize, k, val)]
          /\ stateEvict' = Trimmed(ListAfterAdd(cache[v], stateEvict, k), CacheSize)
          /\ UNCHANGED codeEvict
     ELSE /\ cache' = [cache EXCEPT ![v] = TreeAfterAdd(@, codeEvict, CodeCacheSize, k, val)]
          /\ codeEvict' = Trimmed(ListAfterAdd(cache[v], codeEvict, k), CodeCacheSize)
          /\ UNCHANGED stateEvict

\* List.MoveToFront: a code element belongs to the other list, so
\* getFromCache's stateEvict.MoveToFront leaves it where it is.
MoveToFront(list, k) ==
  IF \E i \in 1..Len(list) : list[i] = k THEN <<k>> \o Unlinked(list, k) ELSE list

----------------------------------------------------------------------------
(* The node: commits and the stream of announcements.                      *)

Occurs(ch, k) == \E i \in 1..Len(ch) : ch[i].key = k

\* The last change of k in ch gives it the value x.
LastIs(ch, k, x) ==
  \E i \in 1..Len(ch) : /\ ch[i].key = k /\ ch[i].val = x
                        /\ \A j \in i+1..Len(ch) : ch[j].key # k

\* One commit: the changes of an unwind and of the blocks that replace what
\* was unwound come in one batch, so a key may change twice.
Commit ==
  /\ version < MaxVersion
  /\ \E ch \in Batches, s \in State :
       /\ \A k \in DbKeys : \/ LastIs(ch, k, s[k])
                            \/ ~Occurs(ch, k) /\ s[k] = db[version][k]
       /\ db' = [db EXCEPT ![version + 1] = s]
       /\ stream' = Append(stream, [id |-> version + 1, changes |-> ch])
  /\ version' = version + 1
  /\ UNCHANGED <<cacheVars, rd, out>>

\* A batch sent while the subscriber is reconnecting never arrives.
LoseBatch ==
  /\ stream # <<>>
  /\ stream' = Tail(stream)
  /\ UNCHANGED <<dbVars, cacheVars, rd, out>>

----------------------------------------------------------------------------
(* OnNewBlock.                                                             *)

\* Faulty variants: without the first guard "latest - KeepViews" wraps around
\* and no root is spared; KeepViews forgotten.
EvictWraps(known) ==
  IF Cardinality(known) < KeepViews THEN {}
  ELSE {v \in known : latest < KeepViews \/ v <= latest - KeepViews}
EvictAllOld(known) ==
  IF latest <= KeepViews \/ Cardinality(known) < KeepViews THEN {}
  ELSE {v \in known : v <= latest}

\* Roots that evictRoots forgets; it runs before latest is advanced.
EvictedRoots(known) ==
  IF latest <= KeepViews \/ Cardinality(known) < KeepViews THEN {}
  ELSE {v \in known : v <= latest - KeepViews}

Holding == {"selected", "waiting", "reading", "validateRoot", "validateClear"}

\* Calls in progress keep the objects that left the map.
Detached(gone) ==
  [r \in Procs |->
     IF rd[r].pc \in Holding /\ rd[r].root \in gone /\ rd[r].ptr = "live"
     THEN [rd[r] EXCEPT !.ptr = IF rd[r].root \in ready THEN "goneReady" ELSE "gone"]
     ELSE rd[r]]

\* Faulty variant: a new root is not marked canonical.
NotCanonised(id) == canonical

\* Only a canonical parent is cloned.
CanClone(id) == id - 1 \in roots /\ id - 1 \in canonical

\* The trees the root of id starts from.
AdvancedTree(id) == IF CanClone(id) THEN cache[id - 1] ELSE cache[id]

Canonised(id) == canonical \cup {id}

AdvanceRoot(id) ==
  LET known  == roots \cup {id}
      gone   == EvictedRoots(known)
      tree   == AdvancedTree(id)
  IN IF latest = id /\ id \in roots
     THEN UNCHANGED <<rootVars, evictVars, rd>>
     ELSE /\ roots' = known \ gone
          /\ cache' = [v \in Versions |-> IF v \in gone THEN Empty
                                          ELSE IF v = id THEN tree ELSE cache[v]]
          /\ canonical' = Canonised(id) \ gone
          /\ ready' = ready \ gone
          /\ latest' = id
          /\ rd' = Detached(gone)
          /\ IF CanClone(id) THEN UNCHANGED evictVars
             ELSE /\ stateEvict' = Walked(Cached(tree) \cap StateKeys)
                  /\ codeEvict' = Walked(Cached(tree) \ StateKeys)

\* The lock is taken, the breaker reset and the root advanced.  A batch may
\* be delivered more than once.
OnNewBlock(again) ==
  /\ job = NoJob
  /\ stream # <<>>
  /\ stream' = IF again THEN stream ELSE Tail(stream)
  /\ waits' = 0
  /\ AdvanceRoot(Head(stream).id)
  /\ job' = [id |-> Head(stream).id, changes |-> Head(stream).changes, pos |-> 0]
  /\ UNCHANGED <<dbVars, out>>

\* hasher.Sum(k) appends the hash to k and returns it; k stays 32 zero bytes.
FileUnder(ch) == IF ch.key \in Codes THEN ZeroHash ELSE ch.key

\* One Action_UPSERT/REMOVE/STORAGE/CODE (or half of an UPSERT_CODE).
OnNewBlockChange ==
  /\ job # NoJob
  /\ job.pos < Len(job.changes)
  /\ LET ch == job.changes[job.pos + 1]
     IN IF ch.key \in StorageKeys /\ ~WithStorage
        THEN UNCHANGED <<cache, evictVars>>
        ELSE Add(job.id, FileUnder(ch), ch.val)
  /\ job' = [job EXCEPT !.pos = @ + 1]
  /\ UNCHANGED <<dbVars, stream, roots, canonical, ready, latest, waits, rd, out>>

\* close(r.ready), once; the lock is released.
OnNewBlockReady ==
  /\ job # NoJob
  /\ job.pos = Len(job.changes)
  /\ ready' = ready \cup {job.id}
  /\ job' = NoJob
  /\ UNCHANGED <<dbVars, stream, roots, cache, canonical, latest, evictVars, waits, rd, out>>

----------------------------------------------------------------------------
(* Readers: View, Get and GetCode.                                         *)

\* A reader that holds no root.
At(pc, tx) == [pc |-> pc, tx |-> tx, root |-> 0, key |-> ZeroHash, ptr |-> "live"]
Idle == At("idle", NoTx)

Begin(r) ==
  /\ rd[r].pc = "idle"
  /\ rd' = [rd EXCEPT ![r] = At("begun", version)]
  /\ UNCHANGED <<dbVars, stream, cacheVars, out>>

Rollback(r) ==
  /\ rd[r].pc \in {"begun", "open"}
  /\ rd' = [rd EXCEPT ![r] = Idle]
  /\ out' = [out EXCEPT ![r] = NoOut]
  /\ UNCHANGED <<dbVars, stream, cacheVars>>

\* View up to selectOrCreateRoot; a reader may ask for a view again.
View(r) ==
  /\ rd[r].pc \in {"begun", "open"}
  /\ job = NoJob
  /\ roots' = roots \cup {rd[r].tx}
  /\ rd' = [rd EXCEPT ![r] = [At("selected", rd[r].tx) EXCEPT !.root = rd[r].tx]]
  /\ UNCHANGED <<dbVars, stream, cache, canonical, ready, latest, evictVars, waits, job, out>>

RootReady(r) == \/ rd[r].ptr = "live" /\ rd[r].root \in ready
                \/ rd[r].ptr = "goneReady"

NoWait(r) == ~WaitForNewBlock \/ waits >= MaxWaits \/ RootReady(r)

\* The breaker is open or the root is ready (fast path), or the slow path.
ViewDecide(r) ==
  /\ rd[r].pc = "selected"
  /\ rd' = [rd EXCEPT ![r] = IF NoWait(r) THEN At("open", rd[r].tx)
                             ELSE [rd[r] EXCEPT !.pc = "waiting"]]
  /\ UNCHANGED <<dbVars, stream, cacheVars, out>>

ViewWoken(r) ==
  /\ rd[r].pc = "waiting"
  /\ RootReady(r)
  /\ rd' = [rd EXCEPT ![r] = At("open", rd[r].tx)]
  /\ UNCHANGED <<dbVars, stream, cacheVars, out>>

\* Faulty variants: no timer; the breaker counts down.
NoTimeout(r) ==
  /\ rd[r].pc = "waiting" /\ RootReady(r)
  /\ waits' = waits + 1
  /\ rd' = [rd EXCEPT ![r] = At("open", rd[r].tx)]
  /\ UNCHANGED <<dbVars, stream, rootVars, evictVars, job, out>>
TimeoutDec(r) ==
  /\ rd[r].pc = "waiting"
  /\ waits' = waits - 1
  /\ rd' = [rd EXCEPT ![r] = At("open", rd[r].tx)]
  /\ UNCHANGED <<dbVars, stream, rootVars, evictVars, job, out>>

ViewTimeout(r) ==
  /\ rd[r].pc = "waiting"
  /\ waits' = waits + 1
  /\ rd' = [rd EXCEPT ![r] = At("open", rd[r].tx)]
  /\ UNCHANGED <<dbVars, stream, rootVars, evictVars, job, out>>

ViewCancelled(r) ==
  /\ rd[r].pc = "waiting"
  /\ rd' = [rd EXCEPT ![r] = At("begun", rd[r].tx)]
  /\ UNCHANGED <<dbVars, stream, cacheVars, out>>

\* Faulty variant: a hit is served from the latest root, whoever asks.
GetFromLatest(r, k) ==
  /\ rd[r].pc = "open" /\ job = NoJob
  /\ cache[latest][k] # NotCached
  /\ out' = [out EXCEPT ![r] = [key |-> k, val |-> cache[latest][k]]]
  /\ UNCHANGED <<dbVars, stream, cacheVars, rd>>

\* getFromCache: too old, hit, or a miss that keeps the root's pointer.
Get(r, k) ==
  /\ rd[r].pc = "open"
  /\ k \in Codes /\ ~AskAbsentCode => db[rd[r].tx][k] # NoValue
  /\ job = NoJob
  /\ LET v == rd[r].tx IN
     \/ /\ v \notin roots
        /\ out' = [out EXCEPT ![r] = NoOut]
        /\ UNCHANGED <<stateEvict, rd>>
     \/ /\ v \in roots /\ cache[v][k] # NotCached
        /\ out' = [out EXCEPT ![r] = [key |-> k, val |-> cache[v][k]]]
        /\ stateEvict' = IF latest = v THEN MoveToFront(stateEvict, k) ELSE stateEvict
        /\ UNCHANGED rd
     \/ /\ v \in roots /\ cache[v][k] = NotCached
        /\ rd' = [rd EXCEPT ![r] = [@ EXCEPT !.pc = "reading", !.root = v, !.key = k]]
        /\ UNCHANGED <<out, stateEvict>>
  /\ UNCHANGED <<dbVars, stream, rootVars, codeEvict, waits, job>>

\* The version whose root a miss is added to; faulty variant: the latest one.
AddsToLatest(r) == latest
AddsTo(r) == rd[r].tx

\* The miss is read from the transaction and added to the root that was held.
GetAdd(r) ==
  /\ rd[r].pc = "reading"
  /\ job = NoJob
  /\ LET v == rd[r].tx  k == rd[r].key  val == db[v][k] IN
     /\ IF rd[r].ptr = "live" THEN Add(AddsTo(r), k, val) ELSE UNCHANGED <<cache, evictVars>>
     /\ out' = [out EXCEPT ![r] = [key |-> k, val |-> val]]
     /\ rd' = [rd EXCEPT ![r] = At("open", v)]
  /\ UNCHANGED <<dbVars, stream, roots, canonical, ready, latest, waits, job>>

\* tx.GetOne failed: nothing is added.
GetFails(r) ==
  /\ rd[r].pc = "reading"
  /\ out' = [out EXCEPT ![r] = NoOut]
  /\ rd' = [rd EXCEPT ![r] = At("open", rd[r].tx)]
  /\ UNCHANGED <<dbVars, stream, cacheVars>>

----------------------------------------------------------------------------
(* ValidateCurrentRoot: latest is read twice without the lock.             *)

ValidateCurrentRoot(r) ==
  /\ rd[r].pc = "begun"
  /\ rd[r].tx <= latest
  /\ rd' = [rd EXCEPT ![r].pc = "validate"]
  /\ UNCHANGED <<dbVars, stream, cacheVars, out>>

ValidateSelect(r) ==
  /\ rd[r].pc = "validate"
  /\ job = NoJob
  /\ roots' = roots \cup {latest}
  /\ rd' = [rd EXCEPT ![r] = [@ EXCEPT !.pc = "validateRoot", !.root = latest]]
  /\ UNCHANGED <<dbVars, stream, cache, canonical, ready, latest, evictVars, waits, job, out>>

\* What the transaction finds under a key of a tree.
InDb(v, k) == IF k \in DbKeys THEN db[v][k] ELSE NoValue

\* cloneCaches and compare, or the request was cancelled.
ValidateCompare(r) ==
  /\ rd[r].pc = "validateRoot"
  /\ job = NoJob
  /\ LET c == cache[rd[r].root]  v == rd[r].tx IN
     \/ /\ rd[r].ptr = "live"
        /\ \E k \in Cached(c) : c[k] # InDb(v, k)
        /\ rd' = [rd EXCEPT ![r].pc = "validateClear"]
     \/ rd' = [rd EXCEPT ![r] = At("begun", v)]
  /\ UNCHANGED <<dbVars, stream, cacheVars, out>>

\* clearCaches: the trees are emptied, the eviction lists are not.
ValidateClear(r) ==
  /\ rd[r].pc = "validateClear"
  /\ job = NoJob
  /\ cache' = IF rd[r].ptr = "live" THEN [cache EXCEPT ![rd[r].root] = Empty] ELSE cache
  /\ rd' = [rd EXCEPT ![r] = At("begun", rd[r].tx)]
  /\ UNCHANGED <<dbVars, stream, roots, canonical, ready, latest, evictVars, waits, job, out>>

----------------------------------------------------------------------------
Init ==
  /\ version = FirstVersion
  /\ db = [v \in Versions |-> Genesis]
  /\ stream = <<>>
  /\ roots = {} /\ canonical = {} /\ ready = {}
  /\ cache = [v \in Versions |-> Empty]
  /\ latest = 0
  /\ stateEvict = <<>> /\ codeEvict = <<>>
  /\ waits = 0
  /\ job = NoJob
  /\ rd = [r \in Procs |-> Idle]
  /\ out = [r \in Procs |-> NoOut]

NodeNext  == Commit \/ LoseBatch
BlockNext == OnNewBlockChange \/ OnNewBlockReady \/ \E again \in BOOLEAN : OnNewBlock(again)
ViewNext(r) == View(r) \/ ViewDecide(r) \/ ViewWoken(r) \/ ViewTimeout(r) \/ ViewCancelled(r)
GetNext(r)  == GetAdd(r) \/ GetFails(r) \/ \E k \in ReadKeys : Get(r, k)
ValidateNext(r) == ValidateCurrentRoot(r) \/ ValidateSelect(r) \/ ValidateCompare(r)
                   \/ ValidateClear(r)

Next == \/ NodeNext \/ BlockNext
        \/ \E r \in Procs : Begin(r) \/ Rollback(r)
        \/ \E r \in Readers : ViewNext(r) \/ GetNext(r)
        \/ \E r \in Validators : ValidateNext(r)

Spec == Init /\ [][Next]_vars

\* OnNewBlock runs to its end once it has the lock; timers fire; a goroutine
\* that wants the lock gets it in the end (sync.Mutex hands it over to a
\* waiter that has starved for 1ms).
Fairness ==
  /\ WF_vars(OnNewBlockChange \/ OnNewBlockReady)
  /\ \A r \in Readers :
       /\ WF_vars(ViewDecide(r))
       /\ WF_vars(ViewTimeout(r))
       /\ SF_vars(GetAdd(r) \/ GetFails(r))
  /\ \A r \in Validators :
       SF_vars(ValidateSelect(r) \/ ValidateCompare(r) \/ ValidateClear(r))

FairSpec == Spec /\ Fairness

----------------------------------------------------------------------------
(* Properties.                                                             *)

Reader == [pc: Holding \cup {"idle", "begun", "open", "validate"},
           tx: Versions \cup {NoTx}, root: Versions, key: CacheKeys,
           ptr: {"live", "gone", "goneReady"}]

\* Every variable stays in its range, only a reader that is idle has no
\* transaction, and a miss is always of a database key.
TypeOK ==
  /\ db \in [Versions -> State] /\ version \in Versions
  /\ stream \in Seq([id: Versions, changes: Seq(Change)])
  /\ roots \subseteq Versions /\ canonical \subseteq Versions /\ ready \subseteq Versions
  /\ cache \in [Versions -> [CacheKeys -> DbValues \cup {NotCached}]]
  /\ latest \in Versions /\ waits \in Nat
  /\ stateEvict \in Seq(StateKeys) /\ codeEvict \in Seq(CacheKeys \ StateKeys)
  /\ job \in [id: Versions, changes: Seq(Change), pos: Nat] \cup {NoJob}
  /\ rd \in [Procs -> Reader]
  /\ \A r \in Procs : /\ rd[r].tx = NoTx <=> rd[r].pc = "idle"
                      /\ rd[r].pc = "reading" => rd[r].key \in DbKeys
  /\ out \in [Procs -> Change \cup {NoOut}]

\* What clients owe the cache: one that is configured without storage is not
\* asked for storage (txpool reads accounts), and code is asked for by a hash
\* that an account of the reader's own version holds.
ClientContract == /\ WithStorage \/ ReadKeys \cap StorageKeys = {}
                  /\ ~AskAbsentCode

\* "CacheView is always coherent with given db transaction": whatever Get or
\* GetCode answers, from the cache or the database, is what the reader's own
\* version holds, however OnNewBlock, evictions and other readers interleave.
ReadsSnapshot ==
  \A r \in Procs : out[r] # NoOut => out[r].val = db[rd[r].tx][out[r].key]

\* AssertCheckValues: outside OnNewBlock every element a root holds for a
\* database key is what the database of that version holds.
CachedCoherent ==
  job = NoJob => \A v \in roots, k \in DbKeys : cache[v][k] \in {NotCached, db[v][k]}

\* "cache.latestStateView is always Canonical", and evictRoots, which runs
\* with the old latest, never forgets the root it is about to make latest.
LatestCanonical == latest > 0 => latest \in roots \cap canonical

\* A view that is at most KeepViews versions behind the latest is never
\* refused as "too old ViewID" by getFromCache.
RecentViewsServed ==
  \A r \in Procs : rd[r].pc = "open" /\ rd[r].tx + KeepViews >= latest
                     => rd[r].tx \in roots

\* A Get that outlives its root is never on the latest version: were it,
\* its add would link an element of an unreachable tree into stateEvict.
StragglersOffLatest ==
  \A r \in Procs : rd[r].pc = "reading" /\ rd[r].ptr # "live" => rd[r].tx # latest

\* Every call returns, also when the batch of its version was lost.
CallsReturn ==
  \A r \in Procs : rd[r].pc \in Holding ~> rd[r].pc \in {"begun", "open"}

\* Batches arrive in the order of their versions, none older than latest, so
\* evictRoots only ever forgets roots more than KeepViews behind the new latest.
OrderInv ==
  /\ canonical \subseteq roots
  /\ \A i \in 1..Len(stream) : latest <= stream[i].id /\ stream[i].id <= version
  /\ \A i, j \in 1..Len(stream) : i < j => stream[i].id < stream[j].id
  /\ latest <= version
  /\ job # NoJob => job.id = latest
  /\ LatestCanonical
  /\ RecentViewsServed
  /\ \A r \in Procs : rd[r].pc \in Holding =>
       IF rd[r].ptr = "live" THEN rd[r].root \in roots
       ELSE rd[r].root + KeepViews < latest
  /\ \A r \in Procs : rd[r].pc \notin Holding => rd[r].ptr = "live"
  /\ \A r \in Procs : rd[r].pc \in {"selected", "waiting", "reading"} => rd[r].root = rd[r].tx

\* Why the cache is coherent, as an inductive invariant.  A batch tells the
\* difference between its version and the one before it:
Faithful(id, ch) ==
  /\ id \in 1..version
  /\ \A i \in 1..Len(ch) : ch[i].key \in Codes => ch[i].val = ch[i].key
  /\ \A k \in DbKeys : \/ LastIs(ch, k, db[id][k])
                       \/ ~Occurs(ch, k) /\ db[id][k] = db[id - 1][k]

\* a change of k that the running OnNewBlock has still to apply to version v;
Pending(v, k) ==
  /\ job # NoJob /\ job.id = v /\ k \notin Codes
  /\ \E i \in job.pos+1..Len(job.changes) : job.changes[i].key = k

\* elements agree with the database of their version or will be overwritten
\* before the lock is released.
CoherenceInv ==
  /\ latest <= version /\ \A v \in roots : v <= version
  /\ \A r \in Procs : rd[r].tx # NoTx => rd[r].tx <= version
  /\ \A i \in 1..Len(stream) : Faithful(stream[i].id, stream[i].changes)
  /\ job # NoJob => Faithful(job.id, job.changes)
  /\ \A k \in Codes, v \in Versions : db[v][k] \in {k, NoValue}
  /\ \A v \in Versions, k \in DbKeys : cache[v][k] # NotCached =>
       /\ v <= version
       /\ cache[v][k] = db[v][k] \/ Pending(v, k)
       /\ k \in Codes => cache[v][k] = k
       /\ k \in StorageKeys => WithStorage
  /\ \A r \in Procs : rd[r].pc = "reading" =>
       /\ rd[r].key \in ReadKeys
       /\ rd[r].key \in Codes => db[rd[r].tx][rd[r].key] # NoValue
  /\ \A r \in Procs : rd[r].pc = "idle" => out[r] = NoOut
  /\ ReadsSnapshot

Snapshot == INSTANCE SnapshotReads WITH tx <- [r \in Procs |-> rd[r].tx], Readers <- Procs

\* Coherent and its readers implement SnapshotReads: the cache is invisible.
RefinesSnapshot == Snapshot!Spec
=============================================================================
