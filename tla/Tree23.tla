------------------------------- MODULE Tree23 -------------------------------
(***************************************************************************)
(* bptree.Tree23: a 2-3 tree changed by sorted batches.  Every leaf ends   *)
(* with the first key of the leaf after it (0 stands for nil); internal    *)
(* nodes hold the first keys of their children but the first.  Batches     *)
(* recurse from the last child to the first.                               *)
(*                                                                         *)
(* Nodes are values here.  In the code neighbours may share the arrays     *)
(* behind their slices; a shared cell is the next key of one leaf and the  *)
(* first key of another, and setNextKey writes it after the other moved    *)
(* on.  The exposed and updated flags and Stats count hashes only.  A      *)
(* failing ensure is a panic in the code and an evaluation error here.     *)
(***************************************************************************)
EXTENDS Integers, FiniteSets, SequencesExt

CONSTANT Plans    \* sequences of <<"upsert" or "delete", set of batches>>

VARIABLES
    plan,      \* what is still to be done
    root,      \* <<>> for nil, or the root
    held       \* the keys that were put in and not deleted

vars == <<plan, root, held>>

InternalNode(kids, keys) == [leaf |-> FALSE, kids |-> kids, keys |-> keys, values |-> <<>>]
LeafNode(keys, values) == [leaf |-> TRUE, kids |-> <<>>, keys |-> keys, values |-> values]
EmptyLeaf == LeafNode(<<0>>, <<0>>)

RECURSIVE lastLeaf(_)
lastLeaf(n) == IF n.leaf THEN n ELSE lastLeaf(Last(n.kids))
RECURSIVE firstLeaf(_)
firstLeaf(n) == IF n.leaf THEN n ELSE firstLeaf(n.kids[1])
nextKey(n) == Last(lastLeaf(n).keys)
KeyAfter(n) == IF nextKey(n) = 0 THEN <<>> ELSE <<nextKey(n)>>
isEmpty(n) == IF n.leaf THEN Len(n.keys) = 1 ELSE n.kids = <<>>

RECURSIVE setNextKey(_, _)
setNextKey(n, key) ==
    IF n.leaf THEN [n EXCEPT !.keys[Len(n.keys)] = key]
    ELSE [n EXCEPT !.kids[Len(n.kids)] = setNextKey(@, key)]

(* NewUniqueKeyValues: every key once, in order; the value is the key's.   *)
SortedKeys(S) == [i \in 1..Cardinality(S) |->
                     CHOOSE k \in S : Cardinality({x \in S : x < k}) = i - 1]
Items(S, version) == [i \in 1..Cardinality(S) |-> <<SortedKeys(S)[i], version>>]

(* splitItems and splitKeys: the part for the i-th child.                  *)
ForChild(n, key, i) ==
    /\ \A j \in 1..i - 1 : key >= n.keys[j]
    /\ i <= Len(n.keys) => key < n.keys[i]

-----------------------------------------------------------------------------
(* addOrReplaceLeaf: a key that is there stays with its value.             *)
addOrReplaceLeaf(n, items) ==
    LET old == {<<n.keys[i], n.values[i]>> : i \in 1..Len(n.keys) - 1}
        new == {x \in ToSet(items) : \A o \in old : o[1] # x[1]}
        all == old \union new
        at(i) == CHOOSE x \in all : Cardinality({y \in all : y[1] < x[1]}) = i - 1
    IN  LeafNode([i \in 1..Cardinality(all) |-> at(i)[1]] \o <<Last(n.keys)>>,
                 [i \in 1..Cardinality(all) |-> at(i)[2]] \o <<Last(n.values)>>)

(* Leaves of two keys and the next one; the last may have one.             *)
SplitLeaf(n) ==
    LET total == Len(n.keys)
        count == IF total > 3 THEN total \div 2 ELSE 1
        to(j) == IF j = count THEN total ELSE 2 * j + 1
    IN  [j \in 1..count |-> LeafNode(SubSeq(n.keys, 2 * j - 1, to(j)),
                                     SubSeq(n.values, 2 * j - 1, to(j)))]

upsertLeaf(n, items) ==
    LET full == addOrReplaceLeaf(n, items)
        leaves == SplitLeaf(full)
    IN  IF items = <<>> THEN [nodes |-> <<n>>, first |-> 0, mid |-> KeyAfter(n)]
        ELSE [nodes |-> leaves,
              first |-> IF full.keys[1] # n.keys[1] THEN full.keys[1] ELSE 0,
              mid |-> FlattenSeq([j \in 1..Len(leaves) |-> KeyAfter(leaves[j])])]

(* More than three nodes become internal nodes of two, the last of two or  *)
(* three; the keys between the groups are left over.                       *)
Grouped(nodes, keys) ==
    LET count == Len(nodes) \div 2
        size(j) == IF j = count THEN Len(nodes) - 2 * (count - 1) ELSE 2
        step == IF Len(keys) \in {Len(nodes) - 1, Len(nodes)} THEN 2 ELSE 1
        from(j) == step * (j - 1)
        over(j) == SubSeq(keys, from(j) + size(j),
                          IF j = count THEN Len(keys) ELSE from(j) + step)
    IN  [nodes |-> [j \in 1..count |->
                       InternalNode(SubSeq(nodes, 2 * j - 1, 2 * (j - 1) + size(j)),
                                    SubSeq(keys, from(j) + 1, from(j) + size(j) - 1))],
         mid |-> FlattenSeq([j \in 1..count |-> over(j)])]

RECURSIVE upsert(_, _)

(* upsertInternal, its loop: the children from the i-th down.              *)
RECURSIVE UpsertChildren(_, _, _, _)
UpsertChildren(n, items, i, done) ==
    IF i = 0 THEN done
    ELSE LET r == upsert(n.kids[i], SelectSeq(items, LAMBDA x : ForChild(n, x[1], i)))
         IN  UpsertChildren(
                 IF r.first # 0 /\ i > 1
                 THEN [n EXCEPT !.kids[i - 1] = setNextKey(@, r.first)] ELSE n,
                 items, i - 1,
                 [nodes |-> r.nodes \o done.nodes, mid |-> r.mid \o done.mid,
                  first |-> IF i = 1 THEN r.first ELSE 0])

upsertInternal(n, items) ==
    LET r == UpsertChildren(n, items, Len(n.kids), [nodes |-> <<>>, mid |-> <<>>, first |-> 0])
        grouped == Grouped(r.nodes, r.mid)
        own == IF Len(r.mid) = Len(r.nodes) THEN Len(r.mid) - 1 ELSE Len(r.mid)
    IN  IF items = <<>> THEN [nodes |-> <<n>>, first |-> 0, mid |-> KeyAfter(n)]
        ELSE IF Len(r.nodes) > 3
        THEN [nodes |-> grouped.nodes, first |-> r.first, mid |-> grouped.mid]
        ELSE [nodes |-> <<InternalNode(r.nodes, SubSeq(r.mid, 1, own))>>,
              first |-> r.first, mid |-> SubSeq(r.mid, own + 1, Len(r.mid))]

upsert(n, items) == IF n.leaf THEN upsertLeaf(n, items) ELSE upsertInternal(n, items)

RECURSIVE promote(_, _)
promote(nodes, keys) ==
    IF Len(nodes) <= 3 THEN InternalNode(nodes, keys)
    ELSE promote(Grouped(nodes, keys).nodes, Grouped(nodes, keys).mid)

-----------------------------------------------------------------------------
Rest(keys) == IF Len(keys) > 1 THEN Tail(keys) ELSE keys
EmptyNode == InternalNode(<<>>, <<>>)

RECURSIVE mergeRight2Left(_, _)

(* The first child of left goes to the front of right.                     *)
RECURSIVE mergeLeft2Right(_, _)
mergeLeft2Right(left0, right0) ==
    LET deep == Len(left0.kids[1].kids) = 1
        below == mergeLeft2Right(left0.kids[1], right0.kids[1])
        left == IF deep THEN [left0 EXCEPT !.kids = <<below[1]>>] ELSE left0
        right == IF deep THEN [right0 EXCEPT !.kids[1] = below[2]] ELSE right0
        moved == left.kids[1]
    IN  IF Len(right.kids) >= 3 THEN mergeRight2Left(left, right)
        ELSE IF isEmpty(moved) THEN <<EmptyNode, right>>
        ELSE IF Len(right.kids) = 1 /\ isEmpty(right.kids[1]) THEN <<left, EmptyNode>>
        ELSE <<InternalNode(Tail(left.kids), Rest(left.keys)),
               InternalNode(<<moved>> \o right.kids,
                   <<nextKey(left)>> \o (IF Len(right.kids) = 1 THEN <<>> ELSE right.keys))>>

(* The first child of right goes to the end of left, if left has room.     *)
mergeRight2Left(left0, right0) ==
    LET deep == Len(right0.kids[1].kids) = 1
        below == mergeRight2Left(Last(left0.kids), right0.kids[1])
        left == IF deep THEN [left0 EXCEPT !.kids[Len(left0.kids)] = below[1]] ELSE left0
        right == IF deep THEN [right0 EXCEPT !.kids = <<below[2]>>] ELSE right0
        moved == right.kids[1]
    IN  IF Len(left.kids) >= 3 THEN mergeLeft2Right(left, right)
        ELSE IF isEmpty(moved) THEN <<left, EmptyNode>>
        ELSE IF Len(left.kids) = 1 /\ isEmpty(left.kids[1]) THEN <<EmptyNode, right>>
        ELSE <<InternalNode(Append(left.kids, moved),
                   (IF Len(left.kids) = 1 THEN <<>> ELSE left.keys) \o
                   <<firstLeaf(right).keys[1]>>),
               InternalNode(Tail(right.kids), Rest(right.keys))>>

(* deleteLeaf: gone says that nil is returned; the node stays a child.     *)
deleteLeaf(n, ks) ==
    LET kept == {i \in 1..Len(n.keys) : i = Len(n.keys) \/ n.keys[i] \notin ks}
        at(i) == SortedKeys(kept)[i]
        left == LeafNode([i \in 1..Cardinality(kept) |-> n.keys[at(i)]],
                         [i \in 1..Cardinality(kept) |-> n.values[at(i)]])
    IN  IF ks = {} THEN [node |-> n, gone |-> FALSE, next |-> 0, mid |-> KeyAfter(n)]
        ELSE IF isEmpty(left)
        THEN [node |-> left, gone |-> TRUE, next |-> nextKey(left), mid |-> <<>>]
        ELSE [node |-> left, gone |-> FALSE, mid |-> KeyAfter(left),
              next |-> IF left.keys[1] # n.keys[1] THEN left.keys[1] ELSE 0]

(* update2Node and update3Node: empty children go, a leaf before empty     *)
(* ones takes over their next key, and the keys are those of who is left.  *)
UpdateNode(n, newKeys, next) ==
    LET count == Len(n.kids)
        leaf == n.kids[1].leaf
        live == {i \in 1..count : ~isEmpty(n.kids[i])}
        after(i) == {j \in live : j > i}
        runEnd(i) == IF after(i) = {} THEN count
                     ELSE (CHOOSE j \in after(i) : \A k \in after(i) : j <= k) - 1
        taken(i) == IF leaf /\ runEnd(i) > i
                    THEN setNextKey(n.kids[i], nextKey(n.kids[runEnd(i)])) ELSE n.kids[i]
        kids == [i \in 1..Cardinality(live) |-> taken(SortedKeys(live)[i])]
        cut == IF Len(newKeys) < count THEN Len(newKeys) ELSE count - 1
        base == IF newKeys = <<>> THEN n.keys ELSE SubSeq(newKeys, 1, cut)
    IN  [node |-> InternalNode(kids,
             CASE live = {} -> <<>>
               [] Len(kids) = 2 -> <<nextKey(kids[1])>>
               [] OTHER -> base),
         mid |-> SubSeq(newKeys, cut + 1, Len(newKeys)),
         next |-> IF leaf /\ 1 \notin live THEN nextKey(n.kids[runEnd(1)]) ELSE next]

RECURSIVE del(_, _)

(* The child before i that is not empty, or the first one.                 *)
Previous(kids, i) ==
    LET live == {j \in 1..i - 1 : ~isEmpty(kids[j])}
    IN  IF live = {} THEN 1 ELSE CHOOSE j \in live : \A k \in live : k <= j

(* The child after the first that is not empty, or the last one.           *)
Following(kids) ==
    LET live == {j \in 2..Len(kids) : ~isEmpty(kids[j])}
    IN  IF live = {} THEN Len(kids) ELSE CHOOSE j \in live : \A k \in live : j <= k

Lone(r) == ~r.gone /\ Len(r.node.kids) = 1
Keyless(n) == [n EXCEPT !.keys = <<>>]

(* Mutant: the leaf before the child is not told.                          *)
DeletedLaterUntold(kids, i, r) ==
    LET p == Previous(kids, i)
    IN  IF ~isEmpty(kids[p]) /\ Lone(r)
        THEN SubSeq(kids, 1, p - 1) \o mergeRight2Left(kids[p], Keyless(r.node))
             \o SubSeq(kids, i + 1, Len(kids))
        ELSE kids

(* A child lost its first key: the leaf before it is told.  A child left   *)
(* with one child is merged with the one before it.                        *)
DeletedLater(kids, i, r) ==
    LET p == Previous(kids, i)
        told == IF r.gone \/ r.next # 0
                THEN [kids EXCEPT ![p] = setNextKey(@, r.next)] ELSE kids
    IN  IF ~isEmpty(told[p]) /\ Lone(r)
        THEN SubSeq(told, 1, p - 1) \o mergeRight2Left(told[p], Keyless(r.node))
             \o SubSeq(told, i + 1, Len(told))
        ELSE told

(* The first child has none before it.                                     *)
DeletedFirst(kids, r) ==
    LET x == Following(kids)
    IN  IF ~isEmpty(kids[x]) /\ Lone(r)
        THEN mergeLeft2Right(Keyless(r.node), kids[x]) \o SubSeq(kids, x + 1, Len(kids))
        ELSE kids

(* deleteInternal, its loop: the children from the i-th down.  The parts   *)
(* are those of the node before the deletion.                              *)
RECURSIVE DeleteChildren(_, _, _, _, _)
DeleteChildren(n, ks, kids, i, mid) ==
    LET r == del(kids[i], {k \in ks : ForChild(n, k, i)})
        now == [kids EXCEPT ![i] = r.node]
    IN  IF i > 1
        THEN DeleteChildren(n, ks, DeletedLater(now, i, r), i - 1, r.mid \o mid)
        ELSE UpdateNode([n EXCEPT !.kids = DeletedFirst(now, r)], r.mid \o mid, r.next)

deleteInternal(n, ks) ==
    LET r == DeleteChildren(n, ks, n.kids, Len(n.kids), <<>>)
    IN  IF ks = {} THEN [node |-> n, gone |-> FALSE, next |-> 0, mid |-> KeyAfter(n)]
        ELSE [node |-> r.node, gone |-> r.node.keys = <<>>, next |-> r.next, mid |-> r.mid]

del(n, ks) == IF n.leaf THEN deleteLeaf(n, ks) ELSE deleteInternal(n, ks)

RECURSIVE demote(_)
demote(n) ==
    LET keyed == {i \in 1..Len(n.kids) : n.kids[i].keys # <<>>}
        a == n.kids[1]
        b == n.kids[2]
    IN  CASE n.kids = <<>> -> IF n.keys = <<>> THEN <<>> ELSE <<n>>
          [] Len(n.kids) = 1 -> demote(n.kids[1])
          [] Len(n.kids) = 2 /\ keyed = {} -> <<>>
          [] Len(n.kids) = 2 /\ Cardinality(keyed) = 1 -> <<n.kids[CHOOSE i \in keyed : TRUE]>>
          [] Len(n.kids) = 2 /\ a.leaf /\ Len(a.keys) = 2 /\ Len(b.keys) = 2 ->
                 <<LeafNode(<<a.keys[1]>> \o b.keys, <<a.values[1]>> \o b.values)>>
          [] OTHER -> <<n>>

-----------------------------------------------------------------------------
Upsert(batch) ==
    LET items == Items(batch, Len(plan))
        r == upsert(IF root = <<>> THEN EmptyLeaf ELSE root[1], items)
    IN  /\ plan # <<>> /\ Head(plan)[1] = "upsert"
        /\ root' = IF batch = {} THEN root
                   ELSE IF Len(r.nodes) = 1 THEN r.nodes ELSE <<promote(r.nodes, r.mid)>>
        /\ held' = held \union batch
        /\ plan' = Tail(plan)

Delete(batch) ==
    LET r == del(root[1], batch)
    IN  /\ plan # <<>> /\ Head(plan)[1] = "delete"
        /\ root' = IF root = <<>> \/ r.gone THEN <<>> ELSE demote(r.node)
        /\ held' = held \ batch
        /\ plan' = Tail(plan)

Init ==
    /\ plan \in Plans
    /\ root = <<>>
    /\ held = {}

Next == \E batch \in IF plan = <<>> THEN {} ELSE Head(plan)[2] : Upsert(batch) \/ Delete(batch)

Spec == Init /\ [][Next]_vars

-----------------------------------------------------------------------------
RECURSIVE LeavesOf(_)
LeavesOf(n) == IF n.leaf THEN <<n>>
               ELSE FlattenSeq([i \in 1..Len(n.kids) |-> LeavesOf(n.kids[i])])

RECURSIVE Height(_)
Height(n) == IF n.leaf THEN 1 ELSE 1 + Height(n.kids[1])

(* Two or three children of one height, and the keys that separate them.   *)
RECURSIVE Sound(_)
Sound(n) ==
    IF n.leaf THEN Len(n.keys) \in {2, 3}
    ELSE /\ Len(n.kids) \in {2, 3}
         /\ Len(n.keys) = Len(n.kids) - 1
         /\ \A i \in 1..Len(n.kids) : Sound(n.kids[i]) /\ Height(n.kids[i]) = Height(n.kids[1])
         /\ \A i \in 1..Len(n.keys) : n.keys[i] = firstLeaf(n.kids[i + 1]).keys[1]

(* After every batch the tree is a 2-3 tree (IsValid), its leaves are      *)
(* chained by their next keys, and WalkKeysPostOrder gives the keys that   *)
(* were upserted and not deleted, in order.                                *)
TreeSound ==
    IF root = <<>> THEN held = {}
    ELSE LET leaves == LeavesOf(root[1])
         IN  /\ Sound(root[1])
             /\ FlattenSeq([i \in 1..Len(leaves) |-> Front(leaves[i].keys)]) = SortedKeys(held)
             /\ \A i \in 1..Len(leaves) :
                   Last(leaves[i].keys) = IF i = Len(leaves) THEN 0 ELSE leaves[i + 1].keys[1]
=============================================================================
