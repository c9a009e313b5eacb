--------------------------- MODULE MemoryMutation ---------------------------
(* kv/memdb: a read-only transaction with changes over it.  What was put is *)
(* in a table of its own (memTx), what was deleted is a set of keys, and a  *)
(* cursor merges the two tables as it goes (memory_mutation_cursor.go).     *)
(*                                                                          *)
(* One table and one cursor, over two cursors of MDBX.  Whenever one of     *)
(* these is moved, it is on the entry that the merging cursor has of its    *)
(* side (cur.db, cur.mem) or, in a cleared table, on the last answer.       *)
EXTENDS Integers, FiniteSets

CONSTANTS Puts   \* what may be put: [dup, key, value], positive numbers; 0 is nil

VARIABLES dup,      \* the table is DupSort (without AutoDupSortKeysConversion)
          base,     \* m.db
          mem,      \* m.memTx
          deleted,  \* m.deletedEntries
          cleared,  \* m.clearedTables has the table
          cur,      \* memoryMutationCursor
          mode,     \* what the cursor may be asked next: see OrderedTable
          out       \* the last answer

vars == <<dup, base, mem, deleted, cleared, cur, mode, out>>
tables == <<dup, base, mem, deleted, cleared>>

Keys == {w.key : w \in Puts}
Values == {w.value : w \in Puts}

\* The table that base and mem are one view of.
Effective ==
    IF cleared THEN mem
    ELSE mem \cup {p \in base : /\ p[1] \notin deleted
                                /\ dup \/ \A q \in mem : q[1] # p[1]}

Table == INSTANCE OrderedTable WITH table <- Effective, at <- IF mode = "none" THEN <<0, 0>> ELSE out

Nil == <<0, 0>>
NoCursor == [ db |-> Nil, mem |-> Nil, fromDb |-> FALSE, pair |-> Nil ]
-----------------------------------------------------------------------------
(* The steps of a cursor of MDBX.                                           *)

NextOf(T, p, t) ==
    LET later == Table!After(T, p)
    IN  Table!Least(IF t = "Dup" THEN Table!OfKey(later, p[1]) ELSE later)
-----------------------------------------------------------------------------
(* memoryMutationCursor.                                                    *)

\* Mutant: what was deleted is not skipped.
GetNextOnDbAny(p, t) == NextOf(base, p, t)

\* getNextOnDb, from p: deleted entries are skipped.
GetNextOnDb(p, t) == NextOf({q \in base : q[1] \notin deleted}, p, t)

\* skipIntersection: is the entry of the database hidden by that of memory?
Skips(memPair, dbPair, t) ==
    memPair[1] = dbPair[1] /\ ((t = "Normal" /\ ~dup) \/ memPair[2] = dbPair[2])

SkipIntersection(memPair, dbPair, t) ==
    IF Skips(memPair, dbPair, t) THEN GetNextOnDb(dbPair, t) ELSE dbPair

\* resolveCursorPriority, of an entry of each side, of which one is not nil.
\* The pair of the cursor is the answer.
ResolveCursorPriority(memPair, dbFound, t) ==
    LET dbPair == SkipIntersection(memPair, dbFound, t)
        fromDb == dbPair # Nil /\ (memPair = Nil \/ Table!Precedes(dbPair, memPair))
    IN  [ db |-> dbPair, mem |-> memPair, fromDb |-> fromDb,
          pair |-> IF fromDb THEN dbPair ELSE memPair ]

\* The answer is p, and c the cursor if it goes on from there.  Otherwise what
\* it holds is not looked at any more.
Answer(c, p, how) ==
    /\ out' = p
    /\ mode' = IF p = Nil THEN "none" ELSE how
    /\ cur' = IF mode' = "none" THEN NoCursor ELSE c
    /\ UNCHANGED tables

\* The cursor answers what the two entries make; a cleared table has only the
\* one of memory.
Resolve(memPair, dbPair, t, how) ==
    IF cleared \/ (memPair = Nil /\ dbPair = Nil)
      THEN Answer(cur, memPair, how)
      ELSE LET c == ResolveCursorPriority(memPair, dbPair, t)
           IN  Answer(c, IF c.fromDb THEN c.db ELSE c.mem, how)
-----------------------------------------------------------------------------
\* Keys and values are positive.
ConstantsFit == Puts \subseteq [dup : BOOLEAN, key : Nat \ {0}, value : Nat \ {0}]

Init ==
    /\ ConstantsFit
    /\ dup \in BOOLEAN /\ base = {}
    /\ mem = {} /\ deleted = {} /\ cleared = FALSE
    /\ cur = NoCursor /\ mode = "none" /\ out = Nil

Written == cur' = NoCursor /\ mode' = "none" /\ out' = Nil /\ UNCHANGED dup

\* Put, Append and AppendDup.
Put ==
    \E w \in Puts :
        /\ w.dup = dup
        /\ mem' = Table!Set(mem, w.key, w.value)
        /\ UNCHANGED <<base, deleted, cleared>> /\ Written

DeleteKey(k) ==
    /\ mem' = Table!Unset(mem, k)
    /\ deleted' = deleted \cup {k}
    /\ UNCHANGED <<base, cleared>> /\ Written

Delete == \E k \in Keys : DeleteKey(k)

\* Current: the pair of the cursor, or that of the cursor of memory.
Current == IF cleared THEN out ELSE cur.pair

\* Of a cursor that is on a pair.
DeleteCurrentDuplicates == mode # "none" /\ DeleteKey(Current[1])

ClearBucket ==
    /\ cleared' = TRUE /\ mem' = {}
    /\ UNCHANGED <<base, deleted>> /\ Written

\* The cursors are placed, at memPair and at dbPair or the next one of the
\* database that is not deleted.
Place(memPair, dbPair, t, how) ==
    LET gone == dbPair # Nil /\ dbPair[1] \in deleted
    IN  Resolve(memPair, IF gone THEN GetNextOnDb(dbPair, t) ELSE dbPair, t, how)

First == Place(Table!Least(mem), Table!Least(base), "Normal", "walk")

Seek ==
    \E k \in Keys :
        Place(Table!Least(Table!From(mem, k)), Table!Least(Table!From(base, k)), "Normal", "walk")

SeekBothRange ==
    \E k \in Keys, v \in Values :
        LET At(T) == Table!Least({p \in Table!OfKey(T, k) : p[2] >= v})
        IN  dup /\ Place(At(mem), At(base), "Dup", "dups")

\* Next and NextDup.  The side that answered last goes on.
Advance(t, how) ==
    /\ mode = how
    /\ IF cur.fromDb /\ ~cleared
         THEN Resolve(cur.mem, GetNextOnDb(cur.db, t), t, how)
         ELSE Resolve(NextOf(mem, out, t), cur.db, t, how)

Next == Advance("Normal", "walk")
NextDup == Advance("Dup", "dups")

\* What SeekExact answers.
SeekExactPair(k) ==
    LET inMem == Table!Least(Table!OfKey(mem, k))
    IN  IF inMem # Nil \/ cleared \/ k \in deleted THEN inMem
        ELSE Table!Least(Table!OfKey(base, k))

\* GetOne and, on a cursor, SeekExact.
SeekExact == \E k \in Keys : Answer(NoCursor, SeekExactPair(k), "none")

\* Mutant: the entry of the database goes first.
LastPairDb ==
    LET dbPair == SkipIntersection(Table!Greatest(mem), Table!Greatest(base), "Normal")
    IN  IF dbPair # Nil /\ dbPair[1] \notin deleted THEN dbPair ELSE Table!Greatest(mem)

\* What Last answers on a table that is not cleared.
LastPair ==
    LET memPair == Table!Greatest(mem)
        dbLast  == Table!Greatest(base)
        dbPair  == SkipIntersection(memPair, dbLast, "Normal")
    IN  IF /\ dbPair # Nil /\ dbPair[1] \notin deleted
           /\ memPair = Nil \/ Table!Precedes(memPair, dbPair)
          THEN dbPair ELSE memPair

Last == Answer(NoCursor, IF cleared THEN Table!Greatest(mem) ELSE LastPair, "none")

\* Flush, to a transaction that sees what m.db sees: tables are cleared, keys
\* deleted, and then the pairs of memory put.
Flushed ==
    LET kept == IF cleared THEN {} ELSE {p \in base : p[1] \notin deleted}
    IN  mem \cup (IF dup THEN kept ELSE {p \in kept : \A q \in mem : q[1] # p[1]})

\* That transaction is committed, and a new batch begun.
Flush ==
    /\ base' = Flushed
    /\ mem' = {} /\ deleted' = {} /\ cleared' = FALSE /\ Written

Step == \/ Put \/ Delete \/ DeleteCurrentDuplicates \/ ClearBucket
        \/ First \/ Seek \/ Next \/ SeekBothRange \/ NextDup \/ SeekExact \/ Last
        \/ Flush

Spec == Init /\ [][Step]_vars
-----------------------------------------------------------------------------

\* The merged view is one table (memory_mutation.go, memory_mutation_cursor.go):
\* placed with First or Seek and moved with Next, or placed with SeekBothRange
\* and moved with NextDup, the cursor meets every pair of the table that the
\* writes made, in order, and no other; GetOne finds what is there; and Flush
\* leaves just that table.
RefinesTable == Table!Spec

\* Last is the last pair of the table, unless the last key of the database was
\* deleted (memoryMutationCursor.Last looks no further back).
LastDeleted == ~cleared /\ base # {} /\ Table!Greatest(base)[1] \in deleted
LastIsLast == [][Last => LastDeleted \/ out' = Table!Greatest(Effective)]_vars
=============================================================================
