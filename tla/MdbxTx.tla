------------------------------- MODULE MdbxTx -------------------------------
(***************************************************************************)
(* The life of an MDBX database and of its transactions (kv/mdbx MdbxKV,   *)
(* MdbxTx): View and Update calls of several goroutines, the limiter of    *)
(* read transactions, Close, the registry of tables, sequences, and the    *)
(* walk over a table in several transactions (kv BigChunks).               *)
(*                                                                         *)
(* MDBX is external: a read transaction works on what was committed when   *)
(* it began, one write transaction is open at a time, and begin and commit *)
(* may fail.  What is stored is [seq, keys, tables]: a sequence, a table   *)
(* of keys, and the names of the tables that exist.  A write transaction   *)
(* makes at most one change.                                               *)
(***************************************************************************)
EXTENDS Integers, FiniteSets, Sequences

CONSTANTS
  Procs,           \* goroutines
  Script,          \* goroutine -> its calls: "view", "update" or "walk"
  Limit,           \* weight of roTxsLimiter
  Keys,            \* keys of the table that is walked, 1 .. n
  Deprecated       \* a table that may be created and dropped

VARIABLES
  closing,     \* Close: "open", "flagged" (closed is set, waiting), "closed"
  wg,          \* db.wg
  slots,       \* acquired of roTxsLimiter
  writer,      \* the goroutine with the write transaction, in a set
  stored,      \* what is committed
  known,       \* db.buckets: the tables with a DBI
  undone,      \* a transaction that changed the registry was rolled back
  handed,      \* the sequence numbers committed transactions were given, in order
  pc,          \* per goroutine: where it is
  calls,       \* its calls so far
  txOpen,      \* tx.tx # nil
  early,       \* its transaction began before Close was called
  work,        \* what its transaction sees and writes
  did,         \* the change its transaction made
  from,        \* BigChunks: the key to go on from
  steady,      \* the keys that were stored all through the walk
  seen         \* BigChunks: key -> times it was handed to the walker

db == <<closing, wg, slots, writer, stored, known, undone, handed>>
walk == <<from, steady, seen>>
procs == <<pc, calls, txOpen, early, work, did, from, steady, seen>>
vars == <<closing, wg, slots, writer, stored, known, undone, handed,
          pc, calls, txOpen, early, work, did, from, steady, seen>>

End == 1 + Cardinality(Keys)      \* past every key: k == nil
Start == [seq |-> 0, keys |-> Keys, tables |-> {Deprecated}]

\* Goroutines are finitely many, and the table's keys are numbered.
ConstantsFit ==
  /\ IsFiniteSet(Procs) /\ Limit \in Nat
  /\ Script \in [Procs -> Seq({"view", "update", "walk"})]
  /\ IsFiniteSet(Keys) /\ Keys = 1 .. Cardinality(Keys)

Init ==
  /\ ConstantsFit
  /\ closing = "open" /\ wg = 0 /\ slots = 0 /\ writer = {}
  /\ stored = Start /\ known = {Deprecated} /\ undone = FALSE /\ handed = <<>>
  /\ pc = [p \in Procs |-> "idle"] /\ calls = [p \in Procs |-> 0]
  /\ txOpen = [p \in Procs |-> FALSE] /\ early = [p \in Procs |-> FALSE]
  /\ work = [p \in Procs |-> Start] /\ did = [p \in Procs |-> "nothing"]
  /\ from = 1 /\ steady = Keys /\ seen = [k \in Keys |-> 0]

Mode(p) == Script[p][calls[p]]
ReadOnly(p) == Mode(p) # "update"
Goto(p, l) == pc' = [pc EXCEPT ![p] = l]

\* The first chunk of BigChunks whose transaction cannot begin is its last.
GivenUp(p, n) == IF Script[p][n] = "walk" THEN Len(Script[p]) ELSE n

\* BeginRo and beginRw up to the test of closed; an error returns at once.
Begin(p) ==
  /\ pc[p] = "idle" /\ calls[p] < Len(Script[p])
  /\ Script[p][calls[p] + 1] = "walk" => from # End
  /\ IF closing = "open" THEN calls' = [calls EXCEPT ![p] = @ + 1] /\ Goto(p, "checked")
                         ELSE calls' = [calls EXCEPT ![p] = GivenUp(p, calls[p] + 1)] /\ UNCHANGED pc
  /\ UNCHANGED <<db, txOpen, early, work, did, walk>>

\* roTxsLimiter.Acquire, or its error when the context ends (that of BigChunks does
\* not).
Acquire(p) ==
  /\ pc[p] = "checked" /\ ReadOnly(p)
  /\ \/ slots < Limit /\ slots' = slots + 1 /\ Goto(p, "acquired")
     \/ Mode(p) # "walk" /\ Goto(p, "idle") /\ UNCHANGED slots
  /\ UNCHANGED <<closing, wg, writer, stored, known, undone, handed, calls, txOpen, early,
                 work, did, walk>>

\* env.BeginTxn, or its error; the deferred function gives a reader's slot back.  On
\* an environment closed meanwhile the call panics, and the deferred function, with
\* err still nil, counts a transaction nobody has.
BeginTxn(p) ==
  /\ pc[p] = "acquired" \/ (pc[p] = "checked" /\ ~ReadOnly(p))
  /\ IF closing = "closed"
     THEN /\ Goto(p, "panicked") /\ wg' = wg + 1
          /\ slots' = IF ReadOnly(p) THEN slots - 1 ELSE slots
          /\ UNCHANGED <<calls, work, did, writer>>
     ELSE /\ UNCHANGED wg
          /\ \/ /\ ReadOnly(p) \/ writer = {}
                /\ Goto(p, "begun")
                /\ work' = [work EXCEPT ![p] = stored]
                /\ did' = [did EXCEPT ![p] = "nothing"]
                /\ writer' = IF ReadOnly(p) THEN writer ELSE {p}
                /\ UNCHANGED <<calls, slots>>
             \/ /\ Goto(p, "idle") /\ calls' = [calls EXCEPT ![p] = GivenUp(p, @)]
                /\ slots' = IF ReadOnly(p) THEN slots - 1 ELSE slots
                /\ UNCHANGED <<work, did, writer>>
  /\ UNCHANGED <<closing, stored, known, undone, handed, txOpen, early, walk>>

\* The deferred wg.Add, and the return to the caller.
Begun(p) ==
  /\ pc[p] = "begun" /\ Goto(p, "running")
  /\ wg' = wg + 1
  /\ txOpen' = [txOpen EXCEPT ![p] = TRUE]
  /\ early' = [early EXCEPT ![p] = closing = "open"]
  /\ UNCHANGED <<closing, slots, writer, stored, known, undone, handed, calls, work, did, walk>>

-----------------------------------------------------------------------------
(* Inside a transaction.                                                   *)

Running(p, m) == pc[p] = "running" /\ Mode(p) = m
Changes(p, what) ==
  /\ Running(p, "update") /\ did[p] = "nothing"
  /\ did' = [did EXCEPT ![p] = what]
  /\ UNCHANGED <<closing, wg, slots, writer, stored, undone, handed, pc, calls, txOpen, early, walk>>

\* The number the caller gets is the one before the increment.
IncrementSequence(p) ==
  /\ Changes(p, "sequence")
  /\ work' = [work EXCEPT ![p].seq = @ + 1] /\ UNCHANGED known

ReadSequence(s) == s.seq
Given(p) == IF did[p] = "sequence" THEN <<ReadSequence(work[p]) - 1>> ELSE <<>>

PutOrDelete(p, k) ==
  /\ Changes(p, "key")
  /\ work' = [work EXCEPT ![p].keys = IF k \in @ THEN @ \ {k} ELSE @ \union {k}]
  /\ UNCHANGED known

\* CreateBucket opens the table, and creates it when it is not there.
CreateBucket(p) ==
  /\ Changes(p, "table")
  /\ work' = [work EXCEPT ![p].tables = @ \union {Deprecated}]
  /\ known' = known \union {Deprecated}

\* A table without a DBI is opened to be dropped; when it does not exist, that is all.
DropBucketForgets(p) ==
  /\ Changes(p, "table")
  /\ work' = [work EXCEPT ![p].tables = @ \ {Deprecated}]
  /\ UNCHANGED known

DropBucket(p) ==
  /\ Changes(p, "table")
  /\ work' = [work EXCEPT ![p].tables = @ \ {Deprecated}]
  /\ known' = known \ {Deprecated}

ExistsBucket == Deprecated \in known

\* The key the cursor of BigChunks stands on.
Standing(p) == LET rest == {k \in work[p].keys : k >= from} IN
  IF rest = {} THEN End ELSE CHOOSE j \in rest : \A i \in rest : j <= i

\* One turn of BigChunks: the walker gets the key, and the cursor goes on.
WalkNext(p) ==
  /\ Running(p, "walk") /\ Standing(p) # End
  /\ seen' = [seen EXCEPT ![Standing(p)] = @ + 1]
  /\ from' = Standing(p) + 1
  /\ UNCHANGED <<db, pc, calls, txOpen, early, work, did, steady>>

-----------------------------------------------------------------------------
\* What Commit and Rollback do in the end to a transaction that is still open.
ReleaseKept(p) ==
  /\ UNCHANGED txOpen
  /\ wg' = wg - 1
  /\ slots' = IF ReadOnly(p) THEN slots - 1 ELSE slots
  /\ writer' = writer \ {p}

Release(p) ==
  /\ txOpen' = [txOpen EXCEPT ![p] = FALSE]
  /\ wg' = wg - 1
  /\ slots' = IF ReadOnly(p) THEN slots - 1 ELSE slots
  /\ writer' = writer \ {p}

\* Commit of Update, which may fail; the deferred Rollback comes after it.
Commit(p) ==
  /\ Running(p, "update") /\ Goto(p, "over")
  /\ Release(p)
  /\ \/ /\ stored' = work[p] /\ handed' = handed \o Given(p)
        /\ steady' = steady \intersect work[p].keys
        /\ UNCHANGED undone
     \/ undone' = (undone \/ did[p] = "table") /\ UNCHANGED <<stored, handed, steady>>
  /\ UNCHANGED <<closing, known, calls, early, work, did, from, seen>>

\* The callback returns, that of an Update with an error.  In BigChunks the ticker
\* has fired, and the key not yet given to the walker is the next one to start from.
Return(p) ==
  /\ pc[p] = "running" /\ Goto(p, "over")
  /\ from' = IF Mode(p) = "walk" THEN Standing(p) ELSE from
  /\ UNCHANGED <<db, calls, txOpen, early, work, did, steady, seen>>

\* The deferred Rollback: nothing to do after a Commit.
Rollback(p) ==
  /\ pc[p] = "over" /\ Goto(p, "idle")
  /\ IF txOpen[p]
     THEN Release(p) /\ undone' = (undone \/ did[p] = "table")
     ELSE UNCHANGED <<txOpen, wg, slots, writer, undone>>
  /\ UNCHANGED <<closing, stored, known, handed, calls, early, work, did, walk>>

\* Close: the flag, then the wait for the transactions, then the environment.
Close ==
  /\ \/ closing = "open" /\ closing' = "flagged"
     \/ closing = "flagged" /\ wg = 0 /\ closing' = "closed"
  /\ UNCHANGED <<wg, slots, writer, stored, known, undone, handed, procs>>

Next ==
  \/ \E p \in Procs :
       \/ Begin(p)
       \/ Acquire(p)
       \/ BeginTxn(p)
       \/ Begun(p)
       \/ IncrementSequence(p)
       \/ \E k \in Keys : PutOrDelete(p, k)
       \/ CreateBucket(p)
       \/ DropBucket(p)
       \/ WalkNext(p)
       \/ Commit(p)
       \/ Return(p)
       \/ Rollback(p)
  \/ Close

Spec == Init /\ [][Next]_vars

-----------------------------------------------------------------------------
Busy == {p \in Procs : pc[p] \notin {"idle", "panicked"}}
Holders == {p \in Busy : ReadOnly(p) /\ (pc[p] \in {"acquired", "begun"} \/ txOpen[p])}

\* Nothing leaks, on any path of errors: the slots in use are those of the readers
\* that hold one (so whoever waits for a slot waits for a running reader), wg counts
\* the open transactions, and the write transaction has an owner who is in it.
NothingLeaks ==
  /\ slots = Cardinality(Holders) /\ slots <= Limit
  /\ wg = Cardinality({p \in Procs : txOpen[p] \/ pc[p] = "panicked"})
  /\ writer = {p \in Busy : ~ReadOnly(p) /\ (pc[p] = "begun" \/ txOpen[p])}

\* A transaction whose Begin returned before Close was called never finds the
\* environment closed under it.  (One whose Begin overlaps Close may.)
CloseWaits == closing = "closed" => \A p \in Procs : ~(txOpen[p] /\ early[p])

\* A number of a sequence is given to one committed transaction only, and the
\* numbers have no gaps.
SequencesUnique == \A i \in DOMAIN handed : handed[i] = i - 1

\* ExistsBucket says what is stored, as long as no transaction that created or
\* dropped a table was rolled back: the registry is not.
RegistryTruthful ==
  (writer = {} /\ ~undone) => (ExistsBucket <=> Deprecated \in stored.tables)

\* BigChunks hands a key to the walker at most once, in however many transactions
\* it reads and whatever is written between them, and a key that was stored all the
\* time is not passed over.
WalkedOnce == \A k \in Keys : seen[k] <= 1 /\ ((k \in steady /\ k < from) => seen[k] = 1)

\* Transactions and Close of the MDBX wrapper.
TransactionsSound == NothingLeaks /\ CloseWaits /\ SequencesUnique /\ RegistryTruthful /\ WalkedOnce
=============================================================================
