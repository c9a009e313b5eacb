---------------------------- MODULE MdbxTxProofs ----------------------------
(***************************************************************************)
(* Proofs about MdbxTx, for any number of goroutines, any calls they make, *)
(* any weight of the limiter and any number of keys: TransactionsSound is  *)
(* an invariant.  The inductive invariant adds to it where a goroutine can *)
(* be while its transaction is open (Control), and what the transaction of *)
(* the writer has of the sequence and of the tables (Writing), what that   *)
(* of a walker has of the keys and where the walk is (Walking).            *)
(***************************************************************************)
EXTENDS MdbxTx, TLAPS, FiniteSetTheorems, WellFoundedInduction

Content == [seq : Nat, keys : SUBSET Keys, tables : SUBSET {Deprecated}]

\* Kept apart, so that a proof that does not need it does not see it.
HandedOK == handed \in Seq(Int)

TypeOK ==
  /\ ConstantsFit
  /\ closing \in {"open", "flagged", "closed"} /\ wg \in Int /\ slots \in Int
  /\ writer \in SUBSET Procs
  /\ stored \in Content /\ known \in SUBSET {Deprecated} /\ undone \in BOOLEAN
  /\ HandedOK
  /\ pc \in [Procs -> {"idle", "checked", "acquired", "begun", "running", "over", "panicked"}]
  /\ calls \in [Procs -> Nat]
  /\ txOpen \in [Procs -> BOOLEAN] /\ early \in [Procs -> BOOLEAN]
  /\ work \in [Procs -> Content]
  /\ did \in [Procs -> {"nothing", "sequence", "key", "table"}]
  /\ from \in Nat \ {0} /\ steady \in SUBSET Keys /\ seen \in [Keys -> Nat]

\* Where a goroutine is: in a call of its script unless it is idle, and inside its
\* transaction from the return of Begin to Commit or Rollback.
Control ==
  \A p \in Procs :
    /\ calls[p] <= Len(Script[p])
    /\ pc[p] # "idle" => calls[p] >= 1
    /\ pc[p] = "acquired" => ReadOnly(p)
    /\ pc[p] = "running" => txOpen[p]
    /\ txOpen[p] => pc[p] \in {"running", "over"}

\* Those who count for slots, wg and writer.
Open == {p \in Procs : txOpen[p] \/ pc[p] = "panicked"}
Owners == {p \in Busy : ~ReadOnly(p) /\ (pc[p] = "begun" \/ txOpen[p])}

\* At most one write transaction is open.  It has taken from the sequence what its
\* caller will be given, and the registry says of the tables what it will commit.
Writing ==
  /\ \A p, q \in writer : p = q
  /\ stored.seq = Len(handed)
  /\ \A p \in writer :
       /\ work[p].seq = IF did[p] = "sequence" THEN stored.seq + 1 ELSE stored.seq
       /\ did[p] # "table" => work[p].tables = stored.tables
       /\ ~undone => (Deprecated \in known <=> Deprecated \in work[p].tables)

\* Whoever reads has all the keys that were stored from the start of the walk until
\* now, and the keys the walker got are behind the one it goes on from.
Walking ==
  /\ steady \subseteq stored.keys
  /\ \A p \in Procs : pc[p] \in {"begun", "running"} /\ ReadOnly(p) => steady \subseteq work[p].keys
  /\ from <= End /\ \A k \in Keys : seen[k] > 0 => k < from

\* The inductive invariant.
Inv == TypeOK /\ Control /\ Writing /\ Walking /\ TransactionsSound

-----------------------------------------------------------------------------
(* The cursor of the walk.                                                 *)

\* A set of naturals that is not empty has a smallest member.
LEMMA LeastExists ==
  ASSUME NEW S, S \subseteq Nat, S # {}
  PROVE  \E j \in S : \A i \in S : j <= i
<1>1. PICK j \in S : \A i \in S : <<i, j>> \notin OpToRel(<, Nat)
  BY NatLessThanWellFounded, WFMin, Zenon
<1>2. \A i \in S : ~(i < j)
  BY <1>1 DEF OpToRel
<1>. QED
  BY <1>2

\* The cursor stands on the first stored key from `from' on, or past the end.
LEMMA StandingIsNext ==
  ASSUME TypeOK, Walking, NEW p \in Procs
  PROVE  /\ End \in Nat /\ Standing(p) \in from .. End
         /\ Standing(p) # End => Standing(p) \in Keys
         /\ \A k \in work[p].keys : k < from \/ Standing(p) <= k
<1>1. Cardinality(Keys) \in Nat /\ Keys = 1 .. Cardinality(Keys)
        /\ from \in Nat \ {0} /\ from <= End
  BY FS_CardinalityType DEF TypeOK, ConstantsFit, Walking
<1>2. work[p].keys \subseteq Keys
  BY DEF TypeOK, Content
<1>. DEFINE rest == {k \in work[p].keys : k >= from}
<1>3. End \in Nat /\ \A k \in Keys : k < End
  BY <1>1 DEF End
<1>4. CASE rest = {}
  BY <1>1, <1>2, <1>3, <1>4 DEF Standing
<1>5. CASE rest # {}
  <2>1. rest \subseteq Nat
    BY <1>1, <1>2
  <2>2. \E j \in rest : \A i \in rest : j <= i
    BY <1>5, <2>1, LeastExists, Zenon
  <2>3. Standing(p) \in rest /\ \A i \in rest : Standing(p) <= i
    BY <1>5, <2>2, Zenon DEF Standing
  <2>. QED
    BY <1>1, <1>2, <1>3, <2>3
<1>. QED
  BY <1>4, <1>5

-----------------------------------------------------------------------------
(* One conjunct of the invariant at a time.                                *)

LEMMA TypeStep ==
  ASSUME TypeOK, Walking, [Next]_vars
  PROVE  TypeOK'
<1>. USE DEF TypeOK
<1>0. ConstantsFit' /\ Limit \in Nat /\ (UNCHANGED handed => HandedOK')
  BY DEF ConstantsFit, HandedOK
<1>1. ASSUME NEW p \in Procs
      PROVE  GivenUp(p, calls[p] + 1) \in Nat /\ GivenUp(p, calls[p]) \in Nat
  BY DEF ConstantsFit, GivenUp
<1>2. ASSUME NEW p \in Procs, Begin(p) \/ Acquire(p) \/ BeginTxn(p) \/ Begun(p)
      PROVE  TypeOK'
  <2>1. CASE Begin(p)
    <3>1. calls' \in [Procs -> Nat]
      <4>1. calls[p] + 1 \in Nat
        OBVIOUS
      <4>2. \/ calls' = [calls EXCEPT ![p] = calls[p] + 1]
            \/ calls' = [calls EXCEPT ![p] = GivenUp(p, calls[p] + 1)]
        BY <2>1 DEF Begin
      <4>. QED
        BY <1>1, <4>1, <4>2
    <3>. QED
      BY <1>0, <2>1, <3>1 DEF Begin, Goto, db, walk
  <2>2. CASE Acquire(p)
    BY <1>0, <2>2 DEF Acquire, Goto, walk
  <2>3. CASE BeginTxn(p)
    BY <1>0, <1>1, <2>3 DEF BeginTxn, Goto, walk
  <2>4. CASE Begun(p)
    <3>1. early' \in [Procs -> BOOLEAN] /\ txOpen' \in [Procs -> BOOLEAN]
      BY <2>4, Zenon DEF Begun
    <3>. QED
      BY <1>0, <2>4, <3>1 DEF Begun, Goto, walk
  <2>. QED
    BY <1>2, <2>1, <2>2, <2>3, <2>4
<1>3. ASSUME NEW p \in Procs,
             \/ IncrementSequence(p) \/ (\E k \in Keys : PutOrDelete(p, k))
             \/ CreateBucket(p) \/ DropBucket(p)
      PROVE  TypeOK'
  <2>1. did' \in [Procs -> {"nothing", "sequence", "key", "table"}]
    BY <1>3 DEF IncrementSequence, PutOrDelete, CreateBucket, DropBucket, Changes
  <2>2. work' \in [Procs -> Content]
    <3>. DEFINE w == work[p]
    <3>0. w \in Content
      OBVIOUS
    <3>. HIDE DEF w
    <3>1. [w EXCEPT !.seq = w.seq + 1] \in Content
      BY <3>0 DEF Content
    <3>2. \A keys \in SUBSET Keys : [w EXCEPT !.keys = keys] \in Content
      BY <3>0 DEF Content
    <3>3. \A tables \in SUBSET {Deprecated} : [w EXCEPT !.tables = tables] \in Content
      BY <3>0 DEF Content
    <3>4. w.keys \in SUBSET Keys /\ w.tables \in SUBSET {Deprecated}
      BY <3>0 DEF Content
    <3>5. CASE IncrementSequence(p)
      BY <3>1, <3>5 DEF IncrementSequence, w
    <3>6. ASSUME NEW k \in Keys, PutOrDelete(p, k)
          PROVE  work' \in [Procs -> Content]
      <4>. DEFINE keys == IF k \in w.keys THEN w.keys \ {k} ELSE w.keys \union {k}
      <4>1. keys \in SUBSET Keys /\ work' = [work EXCEPT ![p] = [w EXCEPT !.keys = keys]]
        BY <3>4, <3>6 DEF PutOrDelete, w
      <4>. HIDE DEF keys
      <4>. QED
        BY <3>2, <4>1
    <3>7. CASE CreateBucket(p)
      <4>1. work' = [work EXCEPT ![p] = [w EXCEPT !.tables = w.tables \union {Deprecated}]]
        BY <3>7 DEF CreateBucket, w
      <4>. QED
        BY <3>3, <3>4, <4>1
    <3>8. CASE DropBucket(p)
      <4>1. work' = [work EXCEPT ![p] = [w EXCEPT !.tables = w.tables \ {Deprecated}]]
        BY <3>8 DEF DropBucket, w
      <4>. QED
        BY <3>3, <3>4, <4>1
    <3>. QED
      BY <1>3, <3>5, <3>6, <3>7, <3>8
  <2>3. known' \in SUBSET {Deprecated}
    BY <1>3 DEF IncrementSequence, PutOrDelete, CreateBucket, DropBucket
  <2>. QED
    BY <1>0, <1>3, <2>1, <2>2, <2>3
    DEF IncrementSequence, PutOrDelete, CreateBucket, DropBucket, Changes, walk
<1>4. ASSUME NEW p \in Procs, WalkNext(p) \/ Return(p)
      PROVE  TypeOK'
  <2>1. /\ End \in Nat /\ Standing(p) \in from .. End
        /\ Standing(p) # End => Standing(p) \in Keys
    BY StandingIsNext
  <2>2. from' \in Nat \ {0}
    BY <1>4, <2>1 DEF WalkNext, Return
  <2>3. seen' \in [Keys -> Nat]
    BY <1>4, <2>1 DEF WalkNext, Return
  <2>. QED
    BY <1>0, <1>4, <2>2, <2>3 DEF WalkNext, Return, Goto, db
<1>5. ASSUME NEW p \in Procs, Commit(p) \/ Rollback(p)
      PROVE  TypeOK'
  <2>1. HandedOK'
    <3>1. CASE handed' = handed
      BY <3>1 DEF HandedOK
    <3>2. CASE handed' = handed \o Given(p)
      <4>1. work[p].seq \in Nat
        BY DEF Content
      <4>2. Given(p) \in Seq(Int)
        BY <4>1 DEF Given, ReadSequence
      <4>. QED
        BY <3>2, <4>2 DEF HandedOK
    <3>. QED
      BY <1>5, <3>1, <3>2 DEF Commit, Rollback
  <2>2. undone' \in BOOLEAN
    BY <1>5, Zenon DEF Commit, Rollback
  <2>3. stored' \in Content /\ steady' \in SUBSET Keys
    BY <1>5 DEF Commit, Rollback, walk
  <2>4. /\ wg' \in Int /\ slots' \in Int /\ writer' \in SUBSET Procs
        /\ txOpen' \in [Procs -> BOOLEAN]
    <3>1. CASE Release(p)
      BY <3>1 DEF Release
    <3>2. CASE UNCHANGED <<txOpen, wg, slots, writer>>
      BY <3>2
    <3>. QED
      BY <1>5, <3>1, <3>2 DEF Commit, Rollback
  <2>. QED
    <3>1. CASE Commit(p)
      BY <1>0, <2>1, <2>2, <2>3, <2>4, <3>1 DEF Commit, Goto
    <3>2. CASE Rollback(p)
      BY <1>0, <2>1, <2>2, <2>3, <2>4, <3>2 DEF Rollback, Goto, walk
    <3>. QED
      BY <1>5, <3>1, <3>2
<1>6. CASE Close
  BY <1>0, <1>6 DEF Close, procs
<1>7. CASE UNCHANGED vars
  BY <1>0, <1>7 DEF vars
<1>. QED
  BY <1>2, <1>3, <1>4, <1>5, <1>6, <1>7 DEF Next

LEMMA ControlStep ==
  ASSUME TypeOK, Control, [Next]_vars
  PROVE  Control'
<1>1. /\ pc \in [Procs -> {"idle", "checked", "acquired", "begun", "running", "over", "panicked"}]
      /\ calls \in [Procs -> Nat] /\ txOpen \in [Procs -> BOOLEAN]
  BY DEF TypeOK
<1>2. \A p \in Procs : Len(Script[p]) \in Nat
  BY DEF TypeOK, ConstantsFit
<1>. DEFINE C(p) ==
       /\ calls[p] <= Len(Script[p])
       /\ pc[p] # "idle" => calls[p] >= 1
       /\ pc[p] = "acquired" => ReadOnly(p)
       /\ pc[p] = "running" => txOpen[p]
       /\ txOpen[p] => pc[p] \in {"running", "over"}
<1>3. \A p \in Procs : C(p)
  BY DEF Control
<1>4. SUFFICES \A p \in Procs : C(p)'
  BY DEF Control
<1>5. ASSUME UNCHANGED <<pc, calls, txOpen>>
      PROVE  \A q \in Procs : C(q)'
  BY <1>3, <1>5 DEF ReadOnly, Mode
<1>6. ASSUME NEW p \in Procs, NEW q \in Procs, Begin(p)
      PROVE  C(q)'
  <2>0. GivenUp(p, calls[p] + 1) \in {calls[p] + 1, Len(Script[p])}
    BY DEF GivenUp
  <2>1. \E n \in {calls[p] + 1, Len(Script[p])} : calls' = [calls EXCEPT ![p] = n]
    BY <1>6, <2>0 DEF Begin
  <2>2. calls[p] < Len(Script[p]) /\ txOpen' = txOpen /\ pc[p] = "idle"
        /\ (UNCHANGED pc \/ pc' = [pc EXCEPT ![p] = "checked"])
    BY <1>6 DEF Begin, Goto
  <2>3. CASE q = p
    BY <1>1, <1>2, <1>3, <2>1, <2>2, <2>3
  <2>4. CASE q # p
    BY <1>1, <1>3, <2>1, <2>2, <2>4 DEF ReadOnly, Mode
  <2>. QED
    BY <2>3, <2>4
<1>7. ASSUME NEW p \in Procs, NEW q \in Procs, Acquire(p) \/ Begun(p)
      PROVE  C(q)'
  BY <1>1, <1>2, <1>3, <1>7 DEF Acquire, Begun, Goto, ReadOnly, Mode
<1>8. ASSUME NEW p \in Procs, NEW q \in Procs, BeginTxn(p)
      PROVE  C(q)'
  BY <1>1, <1>2, <1>3, <1>8 DEF BeginTxn, Goto, GivenUp, ReadOnly, Mode
<1>9. ASSUME NEW p \in Procs, NEW q \in Procs, Commit(p) \/ Return(p) \/ Rollback(p)
      PROVE  C(q)'
  BY <1>1, <1>2, <1>3, <1>9 DEF Commit, Return, Rollback, Release, Running, Goto, ReadOnly, Mode
<1>10. ASSUME NEW p \in Procs,
              \/ IncrementSequence(p) \/ (\E k \in Keys : PutOrDelete(p, k))
              \/ CreateBucket(p) \/ DropBucket(p) \/ WalkNext(p)
       PROVE  \A q \in Procs : C(q)'
  <2>1. UNCHANGED <<pc, calls, txOpen>>
    BY <1>10 DEF IncrementSequence, PutOrDelete, CreateBucket, DropBucket, Changes, WalkNext
  <2>. QED
    BY <1>5, <2>1
<1>11. CASE Close \/ UNCHANGED vars
  <2>1. UNCHANGED <<pc, calls, txOpen>>
    BY <1>11 DEF Close, procs, vars
  <2>. QED
    BY <1>5, <2>1
<1>. HIDE DEF C
<1>. QED
  BY <1>6, <1>7, <1>8, <1>9, <1>10, <1>11 DEF Next

-----------------------------------------------------------------------------
(* Slots, the wait group and the writer.                                   *)

\* A count follows its set when one member comes or goes.
LEMMA CountFollows ==
  ASSUME NEW P, IsFiniteSet(P), NEW S \in SUBSET P, NEW T \in SUBSET P, NEW p \in P,
         \A q \in P \ {p} : q \in S <=> q \in T,
         NEW n, n = Cardinality(S),
         NEW m, m = (n + IF p \in T THEN 1 ELSE 0) - (IF p \in S THEN 1 ELSE 0)
  PROVE  m = Cardinality(T)
<1>1. IsFiniteSet(S) /\ Cardinality(S) \in Nat
  BY FS_Subset, FS_CardinalityType
<1>2. CASE p \in S <=> p \in T
  <2>1. S = T
    BY <1>2
  <2>. QED
    BY <1>1, <1>2, <2>1
<1>3. CASE p \in T /\ p \notin S
  <2>1. T = S \cup {p}
    BY <1>3
  <2>. QED
    <3>1. Cardinality(S \cup {p}) = Cardinality(S) + 1
      BY <1>1, <1>3, FS_AddElement, Zenon
    <3>2. m = (n + 1) - 0
      BY <1>3, Zenon
    <3>. QED
      BY <1>1, <2>1, <3>1, <3>2
<1>4. CASE p \in S /\ p \notin T
  <2>1. T = S \ {p}
    BY <1>4
  <2>. QED
    <3>1. Cardinality(S \ {p}) = Cardinality(S) - 1
      BY <1>1, <1>4, FS_RemoveElement, Zenon
    <3>2. m = (n + 0) - 1
      BY <1>4, Zenon
    <3>. QED
      BY <1>1, <2>1, <3>1, <3>2
<1>. QED
  BY <1>2, <1>3, <1>4

\* What has to be shown of a step of goroutine p.
LEMMA LeaksByOne ==
  ASSUME TypeOK, NothingLeaks, NEW p \in Procs,
         \A q \in Procs \ {p} : pc'[q] = pc[q] /\ calls'[q] = calls[q] /\ txOpen'[q] = txOpen[q],
         slots' = (slots + IF p \in Holders' THEN 1 ELSE 0) - (IF p \in Holders THEN 1 ELSE 0),
         wg' = (wg + IF p \in Open' THEN 1 ELSE 0) - (IF p \in Open THEN 1 ELSE 0),
         writer' = IF p \in Owners' THEN writer \cup {p} ELSE writer \ {p},
         slots' <= Limit
  PROVE  NothingLeaks'
<1>0. IsFiniteSet(Procs)
  BY DEF TypeOK, ConstantsFit
<1>1. \A q \in Procs \ {p} : /\ q \in Holders <=> q \in Holders'
                             /\ q \in Open <=> q \in Open'
                             /\ q \in Owners <=> q \in Owners'
  BY DEF Holders, Open, Owners, Busy, ReadOnly, Mode
<1>2. /\ Holders \in SUBSET Procs /\ Holders' \in SUBSET Procs
      /\ Open \in SUBSET Procs /\ Open' \in SUBSET Procs
      /\ Owners \in SUBSET Procs /\ Owners' \in SUBSET Procs
  BY DEF Holders, Open, Owners, Busy
<1>3. slots = Cardinality(Holders) /\ wg = Cardinality(Open) /\ writer = Owners
  BY DEF NothingLeaks, Open, Owners
<1>4. slots' = Cardinality(Holders')
  BY <1>0, <1>1, <1>2, <1>3, CountFollows
<1>5. wg' = Cardinality(Open')
  BY <1>0, <1>1, <1>2, <1>3, CountFollows
<1>6. writer' = Owners'
  BY <1>1, <1>2, <1>3
<1>. QED
  BY <1>4, <1>5, <1>6 DEF NothingLeaks, Open, Owners

LEMMA LeaksStep ==
  ASSUME TypeOK, Control, NothingLeaks, [Next]_vars
  PROVE  NothingLeaks'
<1>. USE DEF ReadOnly, Mode
<1>1. /\ pc \in [Procs -> {"idle", "checked", "acquired", "begun", "running", "over", "panicked"}]
      /\ calls \in [Procs -> Nat] /\ txOpen \in [Procs -> BOOLEAN]
      /\ slots \in Int /\ wg \in Int /\ Limit \in Nat /\ slots <= Limit /\ writer = Owners
  BY DEF TypeOK, ConstantsFit, NothingLeaks, Owners
<1>2. \A p \in Procs :
        /\ p \in Holders <=> /\ pc[p] \notin {"idle", "panicked"} /\ ReadOnly(p)
                             /\ pc[p] \in {"acquired", "begun"} \/ txOpen[p]
        /\ p \in Open <=> txOpen[p] \/ pc[p] = "panicked"
        /\ p \in Owners <=> /\ pc[p] \notin {"idle", "panicked"} /\ ~ReadOnly(p)
                            /\ pc[p] = "begun" \/ txOpen[p]
  BY DEF Holders, Open, Owners, Busy
<1>3. \A p \in Procs :
        /\ p \in Holders' <=> /\ pc'[p] \notin {"idle", "panicked"} /\ ReadOnly(p)'
                              /\ pc'[p] \in {"acquired", "begun"} \/ txOpen'[p]
        /\ p \in Open' <=> txOpen'[p] \/ pc'[p] = "panicked"
        /\ p \in Owners' <=> /\ pc'[p] \notin {"idle", "panicked"} /\ ~ReadOnly(p)'
                             /\ pc'[p] = "begun" \/ txOpen'[p]
  BY DEF Holders, Open, Owners, Busy
<1>4. ASSUME NEW p \in Procs, Begin(p)
      PROVE  NothingLeaks'
  <2>1. /\ \A q \in Procs \ {p} : pc'[q] = pc[q] /\ calls'[q] = calls[q] /\ txOpen'[q] = txOpen[q]
        /\ pc[p] = "idle" /\ pc'[p] \in {"idle", "checked"} /\ UNCHANGED <<txOpen, slots, wg, writer>>
    BY <1>1, <1>4 DEF Begin, Goto, db
  <2>2. ~txOpen[p]
    BY <2>1 DEF Control
  <2>3. /\ p \notin Holders /\ p \notin Open /\ p \notin Owners
        /\ p \notin Holders' /\ p \notin Open' /\ p \notin Owners'
    BY <1>2, <1>3, <2>1, <2>2
  <2>. QED
    BY <1>1, <2>1, <2>3, LeaksByOne
<1>5. ASSUME NEW p \in Procs, Acquire(p)
      PROVE  NothingLeaks'
  <2>1. /\ \A q \in Procs \ {p} : pc'[q] = pc[q] /\ calls'[q] = calls[q] /\ txOpen'[q] = txOpen[q]
        /\ pc[p] = "checked" /\ ReadOnly(p) /\ UNCHANGED <<txOpen, calls, wg, writer>>
        /\ \/ slots < Limit /\ slots' = slots + 1 /\ pc'[p] = "acquired"
           \/ pc'[p] = "idle" /\ UNCHANGED slots
    BY <1>1, <1>5 DEF Acquire, Goto
  <2>2. ~txOpen[p]
    BY <2>1 DEF Control
  <2>3. /\ p \notin Holders /\ p \notin Open /\ p \notin Owners
        /\ p \in Holders' <=> pc'[p] = "acquired"
        /\ p \notin Open' /\ p \notin Owners'
    BY <1>2, <1>3, <2>1, <2>2
  <2>. QED
    BY <1>1, <2>1, <2>3, LeaksByOne
<1>6. ASSUME NEW p \in Procs, BeginTxn(p)
      PROVE  NothingLeaks'
  <2>1. /\ \A q \in Procs \ {p} : pc'[q] = pc[q] /\ calls'[q] = calls[q] /\ txOpen'[q] = txOpen[q]
        /\ pc[p] \in {"acquired", "checked"} /\ (pc[p] = "acquired" <=> ReadOnly(p))
        /\ UNCHANGED txOpen
        /\ \/ /\ pc'[p] = "panicked" /\ wg' = wg + 1
              /\ slots' = IF ReadOnly(p) THEN slots - 1 ELSE slots
              /\ UNCHANGED <<calls, writer>>
           \/ /\ UNCHANGED <<wg, calls, slots>> /\ pc'[p] = "begun" /\ (ReadOnly(p) \/ writer = {})
              /\ writer' = IF ReadOnly(p) THEN writer ELSE {p}
           \/ /\ pc'[p] = "idle" /\ UNCHANGED <<wg, writer>>
              /\ slots' = IF ReadOnly(p) THEN slots - 1 ELSE slots
    BY <1>1, <1>6 DEF BeginTxn, Goto, Control
  <2>2. ~txOpen[p]
    BY <2>1 DEF Control
  <2>3. (p \in Holders <=> ReadOnly(p)) /\ p \notin Open /\ p \notin Owners
    BY <1>2, <2>1, <2>2
  <2>4. CASE pc'[p] = "panicked"
    <3>1. p \notin Holders' /\ p \in Open' /\ p \notin Owners'
      BY <1>3, <2>4
    <3>. QED
      BY <1>1, <2>1, <2>3, <2>4, <3>1, LeaksByOne
  <2>5. CASE pc'[p] = "begun"
    <3>1. (p \in Holders' <=> ReadOnly(p)) /\ p \notin Open' /\ (p \in Owners' <=> ~ReadOnly(p))
      BY <1>3, <2>1, <2>2, <2>5
    <3>2. writer' = IF p \in Owners' THEN writer \cup {p} ELSE writer \ {p}
      BY <1>1, <2>1, <2>3, <2>5, <3>1
    <3>3. slots' = (slots + IF p \in Holders' THEN 1 ELSE 0) - (IF p \in Holders THEN 1 ELSE 0)
      BY <1>1, <2>1, <2>3, <2>5, <3>1
    <3>4. wg' = (wg + IF p \in Open' THEN 1 ELSE 0) - (IF p \in Open THEN 1 ELSE 0)
      BY <1>1, <2>1, <2>3, <2>5, <3>1
    <3>5. slots' <= Limit
      BY <1>1, <2>1, <2>5
    <3>. QED
      BY <2>1, <3>2, <3>3, <3>4, <3>5, LeaksByOne, Zenon
  <2>6. CASE pc'[p] = "idle"
    <3>1. p \notin Holders' /\ p \notin Open' /\ p \notin Owners'
      BY <1>3, <2>1, <2>2, <2>6
    <3>. QED
      BY <1>1, <2>1, <2>3, <2>6, <3>1, LeaksByOne
  <2>. QED
    BY <2>1, <2>4, <2>5, <2>6
<1>7. ASSUME NEW p \in Procs, Begun(p)
      PROVE  NothingLeaks'
  <2>1. /\ \A q \in Procs \ {p} : pc'[q] = pc[q] /\ calls'[q] = calls[q] /\ txOpen'[q] = txOpen[q]
        /\ pc[p] = "begun" /\ pc'[p] = "running" /\ txOpen'[p] /\ wg' = wg + 1
        /\ UNCHANGED <<calls, slots, writer>>
    BY <1>1, <1>7 DEF Begun, Goto
  <2>2. ~txOpen[p]
    BY <2>1 DEF Control
  <2>3. /\ (p \in Holders <=> ReadOnly(p)) /\ p \notin Open /\ (p \in Owners <=> ~ReadOnly(p))
        /\ (p \in Holders' <=> ReadOnly(p)) /\ p \in Open' /\ (p \in Owners' <=> ~ReadOnly(p))
    BY <1>2, <1>3, <2>1, <2>2
  <2>. QED
    BY <1>1, <2>1, <2>3, LeaksByOne
<1>8. ASSUME NEW p \in Procs, Commit(p) \/ (Rollback(p) /\ txOpen[p])
      PROVE  NothingLeaks'
  <2>1. /\ \A q \in Procs \ {p} : pc'[q] = pc[q] /\ calls'[q] = calls[q] /\ txOpen'[q] = txOpen[q]
        /\ txOpen[p] /\ ~txOpen'[p] /\ pc[p] \in {"running", "over"} /\ pc'[p] \in {"over", "idle"}
        /\ UNCHANGED calls /\ wg' = wg - 1
        /\ slots' = (IF ReadOnly(p) THEN slots - 1 ELSE slots) /\ writer' = writer \ {p}
    BY <1>1, <1>8 DEF Commit, Rollback, Release, Running, Goto, Control
  <2>2. /\ (p \in Holders <=> ReadOnly(p)) /\ p \in Open /\ (p \in Owners <=> ~ReadOnly(p))
        /\ p \notin Holders' /\ p \notin Open' /\ p \notin Owners'
    BY <1>2, <1>3, <2>1
  <2>. QED
    BY <1>1, <2>1, <2>2, LeaksByOne
<1>9. ASSUME NEW p \in Procs, Return(p) \/ (Rollback(p) /\ ~txOpen[p])
      PROVE  NothingLeaks'
  <2>1. /\ \A q \in Procs \ {p} : pc'[q] = pc[q] /\ calls'[q] = calls[q] /\ txOpen'[q] = txOpen[q]
        /\ pc[p] \in {"running", "over"} /\ (pc[p] = "running" => txOpen[p])
        /\ pc'[p] = IF txOpen[p] THEN "over" ELSE "idle"
        /\ UNCHANGED <<txOpen, calls, wg, slots, writer>>
    BY <1>1, <1>9 DEF Return, Rollback, Goto, Control, db
  <2>2. /\ p \in Holders <=> p \in Holders'
        /\ p \in Open <=> p \in Open'
        /\ p \in Owners <=> p \in Owners'
    BY <1>2, <1>3, <2>1
  <2>. QED
    BY <1>1, <2>1, <2>2, LeaksByOne
<1>10. ASSUME UNCHANGED <<pc, calls, txOpen, slots, wg, writer>>
       PROVE  NothingLeaks'
  BY <1>10 DEF NothingLeaks, Holders, Busy
<1>11. ASSUME NEW p \in Procs,
              \/ IncrementSequence(p) \/ (\E k \in Keys : PutOrDelete(p, k))
              \/ CreateBucket(p) \/ DropBucket(p) \/ WalkNext(p)
       PROVE  NothingLeaks'
  <2>1. UNCHANGED <<pc, calls, txOpen, slots, wg, writer>>
    BY <1>11 DEF IncrementSequence, PutOrDelete, CreateBucket, DropBucket, Changes, WalkNext, db
  <2>. QED
    BY <1>10, <2>1
<1>12. CASE Close \/ UNCHANGED vars
  <2>1. UNCHANGED <<pc, calls, txOpen, slots, wg, writer>>
    BY <1>12 DEF Close, procs, vars
  <2>. QED
    BY <1>10, <2>1
<1>. QED
  BY <1>4, <1>5, <1>6, <1>7, <1>8, <1>9, <1>11, <1>12 DEF Next

\* Close goes on when wg is zero: then no transaction is open.
LEMMA CloseStep ==
  ASSUME TypeOK, NothingLeaks, CloseWaits, [Next]_vars
  PROVE  CloseWaits'
<1>1. txOpen \in [Procs -> BOOLEAN] /\ early \in [Procs -> BOOLEAN]
  BY DEF TypeOK
<1>2. CASE Close
  <2>1. wg = 0 => \A p \in Procs : ~txOpen[p]
    <3>1. IsFiniteSet(Open)
      BY FS_Subset DEF TypeOK, ConstantsFit, Open
    <3>2. wg = Cardinality(Open)
      BY DEF NothingLeaks, Open
    <3>3. wg = 0 => Open = {}
      BY <3>1, <3>2, FS_EmptySet
    <3>. QED
      BY <3>3 DEF Open
  <2>. QED
    BY <1>2, <2>1 DEF Close, CloseWaits, procs
<1>3. ASSUME NEW p \in Procs, Begun(p)
      PROVE  CloseWaits'
  BY <1>1, <1>3 DEF Begun, CloseWaits
<1>4. ASSUME UNCHANGED <<closing, early>>, \A q \in Procs : txOpen'[q] => txOpen[q]
      PROVE  CloseWaits'
  BY <1>4 DEF CloseWaits
<1>5. ASSUME NEW p \in Procs,
             \/ Begin(p) \/ Acquire(p) \/ BeginTxn(p)
             \/ IncrementSequence(p) \/ (\E k \in Keys : PutOrDelete(p, k))
             \/ CreateBucket(p) \/ DropBucket(p) \/ WalkNext(p) \/ Return(p)
      PROVE  CloseWaits'
  <2>1. UNCHANGED <<closing, early, txOpen>>
    BY <1>5 DEF Begin, Acquire, BeginTxn, IncrementSequence, PutOrDelete, CreateBucket,
                DropBucket, Changes, WalkNext, Return, db
  <2>. QED
    BY <1>4, <2>1
<1>6. ASSUME NEW p \in Procs, Commit(p) \/ Rollback(p)
      PROVE  CloseWaits'
  <2>1. UNCHANGED <<closing, early>> /\ (Release(p) \/ UNCHANGED txOpen)
    BY <1>6 DEF Commit, Rollback
  <2>2. \A q \in Procs : txOpen'[q] => txOpen[q]
    BY <1>1, <2>1 DEF Release
  <2>. QED
    BY <1>4, <2>1, <2>2
<1>7. CASE UNCHANGED vars
  BY <1>4, <1>7 DEF vars
<1>. QED
  BY <1>2, <1>3, <1>5, <1>6, <1>7 DEF Next

-----------------------------------------------------------------------------
(* What the writer does to the sequence and to the tables.                 *)

LEMMA WritingStep ==
  ASSUME TypeOK, Control, NothingLeaks, Writing, SequencesUnique, RegistryTruthful, [Next]_vars
  PROVE  Writing' /\ SequencesUnique' /\ RegistryTruthful'
<1>. DEFINE Good == Writing /\ SequencesUnique /\ RegistryTruthful
<1>1. /\ pc \in [Procs -> {"idle", "checked", "acquired", "begun", "running", "over", "panicked"}]
      /\ calls \in [Procs -> Nat] /\ txOpen \in [Procs -> BOOLEAN]
      /\ work \in [Procs -> Content] /\ stored \in Content
      /\ did \in [Procs -> {"nothing", "sequence", "key", "table"}]
      /\ writer \in SUBSET Procs /\ known \in SUBSET {Deprecated}
  BY DEF TypeOK
<1>2. writer = Owners
  BY DEF NothingLeaks, Owners
<1>3. \A p \in Procs : /\ p \in writer <=> /\ pc[p] \notin {"idle", "panicked"} /\ ~ReadOnly(p)
                                           /\ pc[p] = "begun" \/ txOpen[p]
  BY <1>2 DEF Owners, Busy
<1>4. ASSUME UNCHANGED <<writer, stored, known, undone, handed>>,
             \A q \in writer : work'[q] = work[q] /\ did'[q] = did[q]
      PROVE  Good'
  BY <1>4 DEF Writing, SequencesUnique, RegistryTruthful, ExistsBucket
<1>5. ASSUME NEW p \in Procs, Begin(p) \/ Acquire(p) \/ Begun(p) \/ WalkNext(p) \/ Return(p)
      PROVE  Good'
  <2>1. UNCHANGED <<writer, stored, known, undone, handed, work, did>>
    BY <1>5 DEF Begin, Acquire, Begun, WalkNext, Return, db
  <2>. QED
    BY <1>4, <2>1
<1>6. CASE Close \/ UNCHANGED vars
  <2>1. UNCHANGED <<writer, stored, known, undone, handed, work, did>>
    BY <1>6 DEF Close, procs, vars
  <2>. QED
    BY <1>4, <2>1
<1>7. ASSUME NEW p \in Procs, BeginTxn(p)
      PROVE  Good'
  <2>0. UNCHANGED <<stored, known, undone, handed>>
    BY <1>7 DEF BeginTxn
  <2>1. p \notin writer
    <3>1. pc[p] \in {"acquired", "checked"}
      BY <1>7 DEF BeginTxn
    <3>. QED
      BY <1>3, <3>1 DEF Control
  <2>2. CASE UNCHANGED writer
    <3>1. \A q \in writer : work'[q] = work[q] /\ did'[q] = did[q]
      BY <1>1, <1>7, <2>1 DEF BeginTxn
    <3>. QED
      BY <1>4, <2>0, <2>2, <3>1
  <2>3. CASE writer = {} /\ writer' = {p} /\ work'[p] = stored /\ did'[p] = "nothing"
    <3>1. ~undone => (Deprecated \in known <=> Deprecated \in stored.tables)
      BY <2>3 DEF RegistryTruthful, ExistsBucket
    <3>. QED
      BY <2>0, <2>3, <3>1 DEF Writing, SequencesUnique, RegistryTruthful
  <2>. QED
    BY <1>1, <1>7, <2>2, <2>3 DEF BeginTxn
<1>8. ASSUME NEW p \in Procs, Running(p, "update")
      PROVE  p \in writer /\ writer = {p}
  BY <1>3, <1>8 DEF Running, ReadOnly, Control, Writing
<1>9. ASSUME NEW p \in Procs, Running(p, "update"), did[p] = "nothing",
             UNCHANGED <<writer, stored, undone, handed>>, NEW what, did' = [did EXCEPT ![p] = what],
             work'[p].seq = work[p].seq + (IF what = "sequence" THEN 1 ELSE 0),
             what # "table" => UNCHANGED known /\ work'[p].tables = work[p].tables,
             what = "table" => (Deprecated \in known' <=> Deprecated \in work'[p].tables)
      PROVE  Good'
  <2>1. writer = {p} /\ writer' = {p} /\ did'[p] = what
    BY <1>1, <1>8, <1>9
  <2>2. work[p].seq = stored.seq /\ work[p].tables = stored.tables /\ stored.seq \in Nat
    BY <1>1, <1>9, <2>1 DEF Writing, Content
  <2>3. Writing'
    BY <1>9, <2>1, <2>2 DEF Writing
  <2>. QED
    BY <1>9, <2>1, <2>3 DEF SequencesUnique, RegistryTruthful
<1>10. ASSUME NEW p \in Procs,
              \/ IncrementSequence(p) \/ (\E k \in Keys : PutOrDelete(p, k))
              \/ CreateBucket(p) \/ DropBucket(p)
       PROVE  Good'
  <2>1. PICK what \in {"sequence", "key", "table"} : Changes(p, what)
    BY <1>10 DEF IncrementSequence, PutOrDelete, CreateBucket, DropBucket
  <2>2. /\ Running(p, "update") /\ did[p] = "nothing" /\ did' = [did EXCEPT ![p] = what]
        /\ UNCHANGED <<writer, stored, undone, handed>>
    BY <2>1 DEF Changes
  <2>3. work[p] \in Content /\ did'[p] = what
    BY <1>1, <2>2
  <2>4. CASE IncrementSequence(p)
    <3>1. what = "sequence" /\ UNCHANGED known
      BY <1>1, <2>3, <2>4 DEF IncrementSequence, Changes
    <3>2. work'[p].seq = work[p].seq + 1 /\ work'[p].tables = work[p].tables
      BY <1>1, <2>3, <2>4 DEF IncrementSequence, Content
    <3>. QED
      BY <1>9, <2>2, <3>1, <3>2
  <2>5. ASSUME NEW k \in Keys, PutOrDelete(p, k)
        PROVE  Good'
    <3>1. what = "key" /\ UNCHANGED known
      BY <1>1, <2>3, <2>5 DEF PutOrDelete, Changes
    <3>2. work'[p].seq = work[p].seq + 0 /\ work'[p].tables = work[p].tables
      BY <1>1, <2>3, <2>5 DEF PutOrDelete, Content
    <3>. QED
      BY <1>9, <2>2, <3>1, <3>2
  <2>6. CASE CreateBucket(p) \/ DropBucket(p)
    <3>1. what = "table"
      BY <1>1, <2>3, <2>6 DEF CreateBucket, DropBucket, Changes
    <3>2. /\ work'[p].seq = work[p].seq + 0
          /\ Deprecated \in known' <=> Deprecated \in work'[p].tables
      BY <1>1, <2>3, <2>6 DEF CreateBucket, DropBucket, Content
    <3>. QED
      BY <1>9, <2>2, <3>1, <3>2
  <2>. QED
    BY <1>10, <2>4, <2>5, <2>6
<1>11. ASSUME NEW p \in Procs, writer' = writer \ {p}, UNCHANGED <<stored, handed, known, work, did>>,
              undone' = (undone \/ did[p] = "table")
       PROVE  Good'
  <2>1. CASE p \in writer
    <3>1. writer' = {}
      BY <1>11, <2>1 DEF Writing
    <3>2. ~undone' => (Deprecated \in known <=> Deprecated \in stored.tables)
      BY <1>11, <2>1 DEF Writing
    <3>. QED
      BY <1>11, <3>1, <3>2 DEF Writing, SequencesUnique, RegistryTruthful, ExistsBucket
  <2>2. CASE p \notin writer
    <3>1. writer' = writer
      BY <1>11, <2>2
    <3>. QED
      BY <1>11, <3>1 DEF Writing, SequencesUnique, RegistryTruthful, ExistsBucket
  <2>. QED
    BY <2>1, <2>2
<1>12. ASSUME NEW p \in Procs, Rollback(p)
       PROVE  Good'
  <2>1. CASE txOpen[p]
    BY <1>11, <1>12, <2>1 DEF Rollback, Release
  <2>2. CASE ~txOpen[p]
    BY <1>4, <1>12, <2>2 DEF Rollback
  <2>. QED
    BY <2>1, <2>2
<1>13. ASSUME NEW p \in Procs, Commit(p)
       PROVE  Good'
  <2>1. writer = {p} /\ writer' = {} /\ UNCHANGED <<known, work, did>>
    BY <1>8, <1>13 DEF Commit, Release
  <2>2. CASE undone' = (undone \/ did[p] = "table") /\ UNCHANGED <<stored, handed>>
    BY <1>11, <2>1, <2>2
  <2>3. CASE stored' = work[p] /\ handed' = handed \o Given(p) /\ UNCHANGED undone
    <3>1. /\ work[p].seq = IF did[p] = "sequence" THEN stored.seq + 1 ELSE stored.seq
          /\ ~undone => (Deprecated \in known <=> Deprecated \in work[p].tables)
          /\ stored.seq = Len(handed) /\ stored.seq \in Nat
      BY <1>1, <2>1 DEF Writing, Content
    <3>2. handed \in Seq(Int)
      BY DEF TypeOK, HandedOK
    <3>3. stored'.seq = Len(handed') /\ SequencesUnique'
      <4>1. CASE did[p] = "sequence"
        <5>1. handed' = handed \o <<Len(handed)>> /\ work[p].seq = Len(handed) + 1
          BY <2>3, <3>1, <4>1 DEF Given, ReadSequence
        <5>2. Len(handed') = Len(handed) + 1
              /\ \A i \in 1 .. Len(handed) + 1 :
                   handed'[i] = IF i <= Len(handed) THEN handed[i] ELSE Len(handed)
          BY <3>1, <3>2, <5>1
        <5>3. DOMAIN handed' = 1 .. Len(handed) + 1 /\ DOMAIN handed = 1 .. Len(handed)
          BY <3>1, <3>2, <5>1
        <5>. QED
          BY <2>3, <3>1, <5>1, <5>2, <5>3 DEF SequencesUnique
      <4>2. CASE did[p] # "sequence"
        <5>1. handed' = handed
          BY <2>3, <3>2, <4>2 DEF Given
        <5>. QED
          BY <2>3, <3>1, <4>2, <5>1 DEF SequencesUnique
      <4>. QED
        BY <4>1, <4>2
    <3>. QED
      BY <2>1, <2>3, <3>1, <3>3 DEF Writing, RegistryTruthful, ExistsBucket
  <2>. QED
    BY <1>13, <2>2, <2>3 DEF Commit
<1>. QED
  BY <1>5, <1>6, <1>7, <1>10, <1>12, <1>13 DEF Next

-----------------------------------------------------------------------------
(* The walk.                                                               *)

\* Moving on to where the cursor stands passes over no key that was always there.
LEMMA WalkOn ==
  ASSUME TypeOK, Walking, WalkedOnce, NEW p \in Procs, pc[p] = "running", ReadOnly(p)
  PROVE  /\ Standing(p) \in Nat \ {0} /\ from <= Standing(p) /\ Standing(p) <= End /\ End \in Nat
         /\ \A k \in Keys : k \in Nat /\ k < End
         /\ \A k \in steady : k < Standing(p) => seen[k] = 1
         /\ \A k \in Keys : seen[k] > 0 => k < from
         /\ Standing(p) # End => Standing(p) \in Keys /\ seen[Standing(p)] = 0
<1>1. /\ End \in Nat /\ Standing(p) \in from .. End
      /\ Standing(p) # End => Standing(p) \in Keys
      /\ \A k \in work[p].keys : k < from \/ Standing(p) <= k
  BY StandingIsNext
<1>2. from \in Nat \ {0} /\ steady \subseteq Keys /\ seen \in [Keys -> Nat]
  BY DEF TypeOK
<1>3. steady \subseteq work[p].keys /\ \A k \in Keys : seen[k] > 0 => k < from
  BY DEF Walking
<1>4. \A k \in Keys : k \in Nat /\ k < End
  <2>1. Keys = 1 .. Cardinality(Keys) /\ Cardinality(Keys) \in Nat
    BY FS_CardinalityType DEF TypeOK, ConstantsFit
  <2>. QED
    BY <2>1 DEF End
<1>5. \A k \in steady : k < Standing(p) => seen[k] = 1
  BY <1>1, <1>2, <1>3, <1>4 DEF WalkedOnce
<1>6. Standing(p) # End => seen[Standing(p)] = 0
  BY <1>1, <1>2, <1>3
<1>. QED
  BY <1>1, <1>2, <1>3, <1>4, <1>5, <1>6

LEMMA WalkingStep ==
  ASSUME TypeOK, Control, Walking, WalkedOnce, [Next]_vars
  PROVE  Walking' /\ WalkedOnce'
<1>1. /\ pc \in [Procs -> {"idle", "checked", "acquired", "begun", "running", "over", "panicked"}]
      /\ calls \in [Procs -> Nat] /\ work \in [Procs -> Content] /\ stored \in Content
      /\ from \in Nat \ {0} /\ steady \in SUBSET Keys /\ seen \in [Keys -> Nat] /\ End' = End
  BY DEF TypeOK, End
<1>. DEFINE Reads(p) == pc[p] \in {"begun", "running"} /\ ReadOnly(p)
<1>2. /\ steady \subseteq stored.keys /\ from <= End
      /\ \A p \in Procs : Reads(p) => steady \subseteq work[p].keys
      /\ \A k \in Keys : seen[k] > 0 => k < from
  BY DEF Walking
<1>3. ASSUME UNCHANGED <<stored, walk>>,
             \A p \in Procs : Reads(p)' => steady \subseteq work'[p].keys
      PROVE  Walking' /\ WalkedOnce'
  BY <1>1, <1>2, <1>3 DEF Walking, WalkedOnce, walk
<1>4. ASSUME UNCHANGED <<stored, walk>>,
             \A p \in Procs : Reads(p)' => Reads(p) /\ work'[p] = work[p]
      PROVE  Walking' /\ WalkedOnce'
  BY <1>2, <1>3, <1>4
<1>5. ASSUME NEW p \in Procs, Begin(p) \/ Acquire(p) \/ Begun(p) \/ Rollback(p)
      PROVE  Walking' /\ WalkedOnce'
  <2>1. UNCHANGED <<stored, walk, work>>
    BY <1>5 DEF Begin, Acquire, Begun, Rollback, db, walk
  <2>2. \A q \in Procs : Reads(q)' => Reads(q)
    BY <1>1, <1>5 DEF Begin, Acquire, Begun, Rollback, Goto, ReadOnly, Mode
  <2>. QED
    BY <1>4, <2>1, <2>2
<1>6. ASSUME NEW p \in Procs, BeginTxn(p)
      PROVE  Walking' /\ WalkedOnce'
  <2>1. UNCHANGED <<stored, walk>>
    BY <1>6 DEF BeginTxn
  <2>2. \A q \in Procs : Reads(q)' => (Reads(q) /\ work'[q] = work[q]) \/ work'[q] = stored
    BY <1>1, <1>6 DEF BeginTxn, Goto, ReadOnly, Mode
  <2>. QED
    BY <1>2, <1>3, <2>1, <2>2
<1>7. ASSUME NEW p \in Procs,
             \/ IncrementSequence(p) \/ (\E k \in Keys : PutOrDelete(p, k))
             \/ CreateBucket(p) \/ DropBucket(p)
      PROVE  Walking' /\ WalkedOnce'
  <2>1. UNCHANGED <<stored, walk, pc, calls>> /\ ~ReadOnly(p)
    BY <1>7 DEF IncrementSequence, PutOrDelete, CreateBucket, DropBucket, Changes, Running, ReadOnly
  <2>2. \A q \in Procs : q # p => work'[q] = work[q]
    BY <1>1, <1>7 DEF IncrementSequence, PutOrDelete, CreateBucket, DropBucket
  <2>3. \A q \in Procs : Reads(q)' => Reads(q) /\ work'[q] = work[q]
    BY <2>1, <2>2 DEF ReadOnly, Mode
  <2>. QED
    BY <1>4, <2>1, <2>3
<1>8. ASSUME NEW p \in Procs, WalkNext(p)
      PROVE  Walking' /\ WalkedOnce'
  <2>0. pc[p] = "running" /\ ReadOnly(p) /\ Standing(p) # End
    BY <1>8 DEF WalkNext, Running, ReadOnly
  <2>. DEFINE s == Standing(p)
  <2>1. /\ s \in Nat \ {0} /\ from <= s /\ s <= End /\ End \in Nat
        /\ \A k \in Keys : k \in Nat /\ k < End
        /\ \A k \in steady : k < s => seen[k] = 1
        /\ s \in Keys /\ seen[s] = 0
    BY <2>0, WalkOn
  <2>2. seen' = [seen EXCEPT ![s] = @ + 1] /\ from' = s + 1
        /\ UNCHANGED <<stored, pc, calls, work, steady>>
    BY <1>8 DEF WalkNext, db
  <2>. HIDE DEF s
  <2>3. \A k \in Keys : seen'[k] = IF k = s THEN 1 ELSE seen[k]
    BY <1>1, <2>1, <2>2
  <2>4. from' <= End
    BY <2>1, <2>2
  <2>5. \A k \in Keys : seen'[k] > 0 => k < from'
    BY <1>1, <1>2, <2>1, <2>2, <2>3
  <2>6. Walking'
    BY <1>1, <1>2, <2>2, <2>4, <2>5 DEF Walking, ReadOnly, Mode
  <2>7. \A k \in Keys : k \in steady' /\ k < from' => seen'[k] = 1
    BY <1>1, <2>1, <2>2, <2>3
  <2>8. \A k \in Keys : seen'[k] <= 1
    BY <1>1, <2>3 DEF WalkedOnce
  <2>. QED
    BY <2>6, <2>7, <2>8 DEF WalkedOnce
<1>9. ASSUME NEW p \in Procs, Return(p)
      PROVE  Walking' /\ WalkedOnce'
  <2>1. UNCHANGED <<stored, work, steady, seen, calls>> /\ pc' = [pc EXCEPT ![p] = "over"]
        /\ pc[p] = "running"
    BY <1>9 DEF Return, Goto, db
  <2>2. \A q \in Procs : Reads(q)' => Reads(q)
    BY <1>1, <2>1 DEF ReadOnly, Mode
  <2>3. CASE Mode(p) = "walk"
    <3>1. from' = Standing(p)
      BY <1>9, <2>3 DEF Return
    <3>2. /\ Standing(p) \in Nat \ {0} /\ from <= Standing(p) /\ Standing(p) <= End
          /\ \A k \in Keys : k \in Nat
          /\ \A k \in steady : k < Standing(p) => seen[k] = 1
      BY <2>1, <2>3, WalkOn DEF ReadOnly
    <3>3. Walking'
      BY <1>1, <1>2, <2>1, <2>2, <3>1, <3>2 DEF Walking
    <3>. QED
      BY <1>1, <2>1, <3>1, <3>2, <3>3 DEF WalkedOnce
  <2>4. CASE Mode(p) # "walk"
    <3>1. UNCHANGED from
      BY <1>9, <2>4 DEF Return
    <3>. QED
      BY <1>4, <2>1, <2>2, <3>1 DEF walk
  <2>. QED
    BY <2>3, <2>4
<1>10. ASSUME NEW p \in Procs, Commit(p)
       PROVE  Walking' /\ WalkedOnce'
  <2>1. UNCHANGED <<work, from, seen, calls>> /\ pc' = [pc EXCEPT ![p] = "over"]
    BY <1>10 DEF Commit, Goto
  <2>2. steady' \subseteq steady /\ steady' \subseteq stored'.keys
    BY <1>2, <1>10 DEF Commit
  <2>3. \A q \in Procs : Reads(q)' => Reads(q)
    BY <1>1, <2>1 DEF ReadOnly, Mode
  <2>4. Walking'
    BY <1>1, <1>2, <2>1, <2>2, <2>3 DEF Walking
  <2>. QED
    BY <2>1, <2>2, <2>4 DEF WalkedOnce
<1>11. CASE Close \/ UNCHANGED vars
  <2>1. UNCHANGED <<stored, walk, pc, calls, work>>
    BY <1>11 DEF Close, procs, vars, walk
  <2>2. \A q \in Procs : Reads(q)' => Reads(q)
    BY <2>1 DEF ReadOnly, Mode
  <2>. QED
    BY <1>4, <2>1, <2>2
<1>. QED
  BY <1>5, <1>6, <1>7, <1>8, <1>9, <1>10, <1>11 DEF Next

-----------------------------------------------------------------------------
\* The database and its transactions start in the invariant.
LEMMA InvInit == Init => Inv
<1>. SUFFICES ASSUME Init PROVE Inv
  OBVIOUS
<1>. USE DEF Init
<1>1. Cardinality(Keys) \in Nat /\ ConstantsFit /\ Keys \subseteq Nat
  <2>1. ConstantsFit
    OBVIOUS
  <2>2. Cardinality(Keys) \in Nat
    BY <2>1, FS_CardinalityType DEF ConstantsFit
  <2>3. Keys \subseteq Nat
    BY <2>1, <2>2 DEF ConstantsFit
  <2>. QED
    BY <2>1, <2>2, <2>3
<1>2. TypeOK
  <2>1. HandedOK
    BY DEF HandedOK
  <2>2. Start \in Content
    BY DEF Start, Content
  <2>3. /\ pc \in [Procs -> {"idle", "checked", "acquired", "begun", "running", "over", "panicked"}]
        /\ calls \in [Procs -> Nat] /\ txOpen \in [Procs -> BOOLEAN] /\ early \in [Procs -> BOOLEAN]
        /\ work \in [Procs -> Content] /\ seen \in [Keys -> Nat]
        /\ did \in [Procs -> {"nothing", "sequence", "key", "table"}]
    BY <2>2
  <2>4. /\ closing \in {"open", "flagged", "closed"} /\ undone \in BOOLEAN
        /\ writer \in SUBSET Procs /\ known \in SUBSET {Deprecated} /\ steady \in SUBSET Keys
    BY Zenon
  <2>5. wg \in Int /\ slots \in Int /\ from \in Nat \ {0}
    OBVIOUS
  <2>. QED
    BY <1>1, <2>1, <2>2, <2>3, <2>4, <2>5, Zenon DEF TypeOK
<1>3. Control
  BY <1>1 DEF Control, ConstantsFit
<1>4. Writing
  BY DEF Writing, Start
<1>5. Walking
  BY <1>1 DEF Walking, Start, End
<1>6. NothingLeaks
  <2>1. Holders = {} /\ Open = {} /\ Owners = {}
    BY DEF Holders, Open, Owners, Busy
  <2>2. Cardinality(Holders) = 0 /\ Cardinality(Open) = 0 /\ Limit \in Nat
    BY <1>1, <2>1, FS_EmptySet DEF ConstantsFit
  <2>3. NothingLeaks <=> /\ slots = Cardinality(Holders) /\ slots <= Limit
                         /\ wg = Cardinality(Open) /\ writer = Owners
    BY Zenon DEF NothingLeaks, Open, Owners
  <2>. QED
    BY <2>1, <2>2, <2>3
<1>7. CloseWaits /\ SequencesUnique /\ RegistryTruthful
  BY DEF CloseWaits, SequencesUnique, RegistryTruthful, ExistsBucket, Start
<1>8. WalkedOnce
  BY <1>1 DEF WalkedOnce
<1>. QED
  BY <1>2, <1>3, <1>4, <1>5, <1>6, <1>7, <1>8 DEF Inv, TransactionsSound

LEMMA InvStep == Inv /\ [Next]_vars => Inv'
<1>. SUFFICES ASSUME Inv, [Next]_vars PROVE Inv'
  OBVIOUS
<1>. USE DEF Inv, TransactionsSound
<1>1. TypeOK'
  BY TypeStep
<1>2. Control'
  BY ControlStep
<1>3. NothingLeaks'
  BY LeaksStep
<1>4. CloseWaits'
  BY CloseStep
<1>5. Writing' /\ SequencesUnique' /\ RegistryTruthful'
  BY WritingStep
<1>6. Walking' /\ WalkedOnce'
  BY WalkingStep
<1>. QED
  BY <1>1, <1>2, <1>3, <1>4, <1>5, <1>6

\* In every behaviour of View, Update, BigChunks and Close, by any number of goroutines,
\* no slot, count or write lock leaks, Close waits for the transactions that began before
\* it, sequence numbers are given out once and without gaps, the registry of tables says
\* what is stored unless a transaction that changed it was rolled back, and BigChunks
\* gives each key once.
THEOREM TransactionsAreSound == Spec => []TransactionsSound
<1>1. Inv => TransactionsSound
  BY DEF Inv
<1>. QED
  BY InvInit, InvStep, <1>1, PTL DEF Spec
=============================================================================
