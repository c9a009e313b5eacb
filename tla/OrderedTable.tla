---------------------------- MODULE OrderedTable ----------------------------
(* What a table of a database promises to one cursor (kv/kv_interface.go,   *)
(* RwTx and CursorDupSort): the pairs are in the order of their keys and,   *)
(* in a DupSort table, of the values of a key.  A cursor that First or Seek *)
(* placed is walked with Next, one that SeekBothRange placed with NextDup;  *)
(* writing leaves it to the caller to place the cursor again.               *)
EXTENDS Integers, FiniteSets

CONSTANTS Keys, Values   \* positive numbers; 0 is nil

VARIABLES dup,    \* is it a DupSort table?
          table,  \* the pairs
          at,     \* the pair the cursor is on
          mode,   \* how it is walked: "walk", "dups", or "none"
          out     \* the last answer

vars == <<dup, table, at, mode, out>>

Nil == <<0, 0>>
Pairs == Keys \X Values

Precedes(p, q) == p[1] < q[1] \/ (p[1] = q[1] /\ p[2] < q[2])

\* The first pair of T, and the last one; Nil if there is none.
Least(T) == IF T = {} THEN Nil ELSE CHOOSE p \in T : \A q \in T : q = p \/ Precedes(p, q)
Greatest(T) == IF T = {} THEN Nil ELSE CHOOSE p \in T : \A q \in T : q = p \/ Precedes(q, p)

From(T, k) == {p \in T : p[1] >= k}
After(T, p) == {q \in T : Precedes(p, q)}
OfKey(T, k) == {p \in T : p[1] = k}

\* A table has one value for a key, unless it is DupSort.
IsTable(T) == T \subseteq Pairs /\ (dup \/ \A p, q \in T : p[1] = q[1] => p = q)

\* The table with k set to v, and without k.
Set(T, k, v) == (IF dup THEN T ELSE T \ OfKey(T, k)) \cup {<<k, v>>}
Unset(T, k) == T \ OfKey(T, k)
-----------------------------------------------------------------------------
Init ==
    /\ dup \in BOOLEAN
    /\ table \in SUBSET Pairs /\ IsTable(table)
    /\ at = Nil /\ mode = "none" /\ out = Nil

Write(T) == table' = T /\ at' = Nil /\ mode' = "none" /\ out' = Nil /\ UNCHANGED dup

Put == \E k \in Keys, v \in Values : Write(Set(table, k, v))
Delete == \E k \in Keys : Write(Unset(table, k))
ClearBucket == Write({})

\* The cursor goes to p; at the end it is nowhere.
Goto(p, how) ==
    /\ out' = p /\ at' = p
    /\ mode' = IF p = Nil THEN "none" ELSE how
    /\ UNCHANGED <<dup, table>>

First == Goto(Least(table), "walk")
Seek == \E k \in Keys : Goto(Least(From(table, k)), "walk")
Next == mode = "walk" /\ Goto(Least(After(table, at)), "walk")
SeekBothRange ==
    \E k \in Keys, v \in Values : dup /\ Goto(Least({p \in OfKey(table, k) : p[2] >= v}), "dups")
NextDup == mode = "dups" /\ Goto(Least(OfKey(After(table, at), at[1])), "dups")

\* GetOne, which is SeekExact: answers a value of the key, if there is one; in
\* a DupSort table it need not be the first.
SeekExact ==
    \E k \in Keys :
        /\ IF OfKey(table, k) = {} THEN out' = Nil ELSE out' \in OfKey(table, k)
        /\ at' = Nil /\ mode' = "none" /\ UNCHANGED <<dup, table>>

\* Last: of which only this much is promised here.
Last == /\ out' \in table \cup {Nil}
        /\ at' = Nil /\ mode' = "none" /\ UNCHANGED <<dup, table>>

\* The changes are written and committed: nothing seems to happen.
Flush == Write(table)

Step == \/ Put \/ Delete \/ ClearBucket \/ First \/ Seek \/ Next \/ SeekBothRange \/ NextDup
        \/ SeekExact \/ Last \/ Flush

Spec == Init /\ [][Step]_vars
=============================================================================
