----------------------------- MODULE MatchFinder -----------------------------
(***************************************************************************)
(* patricia: the dictionary of the compressor as a binary patricia tree,   *)
(* and the two searches for its words in a text.  An edge of the tree has  *)
(* at most 27 bits; a position on it splits it into head and tail.         *)
(* MatchFinder2 goes through the suffixes of the text in sorted order and  *)
(* folds back only what a suffix does not share with the one before.       *)
(*                                                                         *)
(* An edge ends in a node once its word is inserted, so the branches for a *)
(* missing child of a crossed edge are not here: nodes[0] does not exist.  *)
(* sais (C code) is the sorted order of the suffixes.                      *)
(***************************************************************************)
EXTENDS Integers, FiniteSets, SequencesExt

CONSTANTS
    ByteBits,     \* 8
    MaxPrefix,    \* 27
    Words,        \* what can be inserted
    MaxInserts,
    Texts         \* what is searched

VARIABLES
    nodes,     \* the tree: [p, n, val] by number; node 1 is the root
    dict,      \* <<word, value>> as inserted, in order
    found      \* Get and the matches, after the last insertion

vars == <<nodes, dict, found>>

Fresh == [p |-> <<<<>>, <<>>>>, n |-> <<0, 0>>, val |-> 0]   \* sides 1 and 2
BitsOf(b) == [i \in 1..ByteBits |-> (b \div 2^(ByteBits - i)) % 2]
From(s, i) == SubSeq(s, i, Len(s))

(* The first place where bits and the tail, filled up with zeros, differ.  *)
FirstDiff(tail, bits) ==
    LET D == {i \in 1..Len(bits) : bits[i] # IF i <= Len(tail) THEN tail[i] ELSE 0}
    IN  IF D = {} THEN Len(bits) ELSE (CHOOSE i \in D : \A j \in D : i <= j) - 1

-----------------------------------------------------------------------------
(* A state [nodes, at, head, tail] of insert and get.                      *)

Side(s) == IF s.head # <<>> THEN s.head[1] + 1
           ELSE IF s.tail # <<>> THEN s.tail[1] + 1 ELSE 1
ChildOf(s) == s.nodes[s.at].n[Side(s)]
NextNode(s) == [s EXCEPT !.at = ChildOf(s), !.head = <<>>, !.tail = <<>>]
Along(s, k) == [s EXCEPT !.head = s.head \o SubSeq(s.tail, 1, k), !.tail = From(s.tail, k + 1)]

(* transition: the bits that have no place in the tree are left.           *)
RECURSIVE transition(_, _)
transition(s0, bits) ==
    LET s == IF s0.head = <<>> THEN [s0 EXCEPT !.tail = s0.nodes[s0.at].p[bits[1] + 1]] ELSE s0
        diff == FirstDiff(s.tail, bits)
        end == Along(s, Len(bits))
    IN  IF bits = <<>> THEN [s |-> s0, left |-> <<>>]
        ELSE IF s.tail = <<>> THEN [s |-> s, left |-> bits]
        ELSE IF diff < Len(bits) /\ diff < Len(s.tail)
        THEN [s |-> Along(s, diff), left |-> From(bits, diff + 1)]
        ELSE IF Len(s.tail) < Len(bits) \/ diff < Len(bits)
        THEN transition(NextNode(s), From(bits, Len(s.tail) + 1))
        ELSE [s |-> IF end.tail = <<>> /\ ChildOf(end) # 0 THEN NextNode(end) ELSE end,
              left |-> <<>>]

Edge(s, side, bits, child) ==
    [s.nodes EXCEPT ![s.at].p[side] = bits, ![s.at].n[side] = child]

(* diverge: the bits are added to the head, with another node when it is   *)
(* full; or the edge is cut, and the bits start an edge beside the tail.   *)
divergeHead(s, d) ==
    LET room == MaxPrefix - Len(s.head)
        full == [s EXCEPT !.head = s.head \o SubSeq(d, 1, room)]
        next == Len(s.nodes) + 1
        over == [nodes |-> Append(Edge(full, Side(full), full.head, next), Fresh),
                 at |-> next, head |-> <<>>, tail |-> <<>>]
        put(t, x) == LET u == [t EXCEPT !.head = t.head \o x]
                     IN  [u EXCEPT !.nodes[u.at].p[Side(u)] = u.head]
    IN  IF Len(d) > room THEN put(over, From(d, room + 1)) ELSE put(s, d)

divergeTail(s, d) ==
    LET next == Len(s.nodes) + 1
        mine == IF d = <<>> THEN 1 ELSE d[1] + 1
        cut == [Fresh EXCEPT !.p[mine] = d, !.p[3 - mine] = s.tail, !.n[3 - mine] = ChildOf(s)]
    IN  [nodes |-> Append(Edge(s, Side(s), s.head, next), cut),
         at |-> next, head |-> d, tail |-> <<>>]

diverge(s, d) == IF s.tail = <<>> THEN divergeHead(s, d) ELSE divergeTail(s, d)

InsertByte(s, b) ==
    LET t == transition(s, BitsOf(b))
    IN  IF t.left = <<>> THEN t.s ELSE diverge(t.s, t.left)

insertValue(s0, value) ==
    LET s == IF s0.tail # <<>> THEN diverge(s0, <<>>) ELSE s0
        next == Len(s.nodes) + 1
    IN  IF s.head # <<>>
        THEN Append([s.nodes EXCEPT ![s.at].n[Side(s)] = next], [Fresh EXCEPT !.val = value])
        ELSE [s.nodes EXCEPT ![s.at].val = value]

StartOf(tree) == [nodes |-> tree, at |-> 1, head |-> <<>>, tail |-> <<>>]
insert(tree, word, value) == insertValue(FoldLeft(InsertByte, StartOf(tree), word), value)

(* get: 0 stands for nil.                                                  *)
GetByte(r, b) == IF r.left # <<>> THEN r ELSE transition(r.s, BitsOf(b))
get(tree, word) ==
    LET r == FoldLeft(GetByte, [s |-> StartOf(tree), left |-> <<>>], word)
    IN  IF r.left # <<>> \/ r.s.tail # <<>> THEN 0 ELSE tree[r.s.at].val

-----------------------------------------------------------------------------
(* MatchFinder.FindLongestMatches: from every start, the longest word that *)
(* ends after the last match.                                              *)

MatchFrom(tree, text, start, lastEnd) ==
    LET at(end) == FoldLeft(GetByte, [s |-> StartOf(tree), left |-> <<>>],
                            SubSeq(text, start + 1, end))
        ends == {end \in start + 1..Len(text) :
                    /\ end > lastEnd
                    /\ at(end).left = <<>> /\ at(end).s.tail = <<>>
                    /\ tree[at(end).s.at].val # 0}
        best == CHOOSE e \in ends : \A x \in ends : x <= e
    IN  IF ends = {} THEN <<>>
        ELSE <<[start |-> start, end |-> best, val |-> tree[at(best).s.at].val]>>

FindLongestMatches1(tree, text) ==
    FoldLeft(LAMBDA done, start :
                 done \o MatchFrom(tree, text, start, IF done = <<>> THEN 0 ELSE Last(done).end),
             <<>>, [i \in 1..Len(text) |-> i - 1])

-----------------------------------------------------------------------------
(* MatchFinder2: a stack of nodes, and how much of the top node's edge is  *)
(* behind and ahead; side 0 is not determined yet.                         *)

Top(mf) == Last(mf.stack)
PathLen(tree, n, side) == Len(tree[n].p[side])

Sided(tree, mf, bit) ==
    [mf EXCEPT !.side = bit + 1, !.head = 0, !.tail = PathLen(tree, Top(mf), bit + 1)]
Advanced(mf, k) == [mf EXCEPT !.head = @ + k, !.tail = @ - k]
Entered(tree, mf) ==
    [mf EXCEPT !.stack = Append(@, tree[Top(mf)].n[mf.side]), !.head = 0, !.side = 0]

RECURSIVE unfold(_, _, _)
unfold(tree, mf0, bits) ==
    LET mf == IF mf0.side = 0 THEN Sided(tree, mf0, bits[1]) ELSE mf0
        tail == From(tree[Top(mf)].p[mf.side], mf.head + 1)
        diff == FirstDiff(tail, bits)
        k == IF mf.tail < Len(bits) THEN mf.tail ELSE Len(bits)
        moved == Advanced(mf, k)
    IN  IF bits = <<>> THEN [mf |-> mf0, left |-> <<>>]
        ELSE IF mf.tail = 0 THEN [mf |-> [mf EXCEPT !.side = 0], left |-> bits]
        ELSE IF diff < Len(bits) /\ diff < mf.tail
        THEN [mf |-> Advanced(mf, diff), left |-> From(bits, diff + 1)]
        ELSE unfold(tree, IF moved.tail = 0 THEN Entered(tree, moved) ELSE moved,
                    From(bits, k + 1))

RECURSIVE fold(_, _, _)
fold(tree, mf, bits) ==
    LET rest == Front(mf.stack)
        side == IF tree[Last(rest)].n[1] = Top(mf) THEN 1 ELSE 2
    IN  CASE bits = 0 -> mf
          [] bits > 0 /\ mf.head = bits -> [mf EXCEPT !.head = 0, !.tail = 0, !.side = 0]
          [] bits > 0 /\ mf.head > bits -> Advanced(mf, -bits)
          [] OTHER -> fold(tree, [stack |-> rest, side |-> side, tail |-> 0,
                                  head |-> PathLen(tree, Last(rest), side)], bits - mf.head)

Suffix(text, i) == From(text, i + 1)
RECURSIVE Before(_, _)
Before(a, b) == CASE a = <<>> -> b # <<>>
                  [] b = <<>> -> FALSE
                  [] OTHER -> a[1] < b[1] \/ (a[1] = b[1] /\ Before(Tail(a), Tail(b)))
SuffixArray(text) ==
    [i \in 1..Len(text) |->
        CHOOSE x \in 0..Len(text) - 1 :
            Cardinality({y \in 0..Len(text) - 1 :
                            Before(Suffix(text, y), Suffix(text, x))}) = i - 1]
Lcp(a, b) == Cardinality({k \in 1..Len(a) : k <= Len(b) /\ SubSeq(a, 1, k) = SubSeq(b, 1, k)})

(* Mutant: the matches that are longer than what is shared stay.           *)
SharedKept(tree, st, lcp) ==
    LET over == st.depth - ByteBits * lcp
        odd == st.depth % ByteBits
    IN  IF over > 0
        THEN [st EXCEPT !.mf = fold(tree, @, over), !.depth = ByteBits * lcp]
        ELSE [st EXCEPT !.mf = fold(tree, @, odd), !.depth = @ - odd]

(* Back to what the suffix shares with the one before it; the matches that *)
(* are longer go.                                                          *)
Shared(tree, st, lcp) ==
    LET over == st.depth - ByteBits * lcp
        odd == st.depth % ByteBits
    IN  IF over > 0
        THEN [st EXCEPT !.mf = fold(tree, @, over), !.depth = ByteBits * lcp,
                        !.stack = SelectSeq(@, LAMBDA m : m.end - m.start <= lcp)]
        ELSE [st EXCEPT !.mf = fold(tree, @, odd), !.depth = @ - odd]

(* The text is read on until it leaves the tree.                           *)
RECURSIVE ReadOn(_, _, _, _, _)
ReadOn(tree, text, st, sa, end) ==
    LET r == unfold(tree, st.mf, BitsOf(text[end]))
        next == [st EXCEPT !.mf = r.mf, !.depth = @ + ByteBits - Len(r.left)]
        match == [start |-> sa, end |-> end, val |-> tree[Top(r.mf)].val]
    IN  IF end > Len(text) THEN st
        ELSE IF r.left # <<>> THEN next
        ELSE ReadOn(tree, text,
                    IF r.mf.tail # 0 \/ match.val = 0 THEN next
                    ELSE [next EXCEPT !.stack = Append(@, match)], sa, end + 1)

AddMatch(st, sa) ==
    IF st.stack = <<>> THEN st
    ELSE LET m == Last(st.stack)
         IN  [st EXCEPT !.matches = @ \union
                  {[start |-> sa, end |-> sa + m.end - m.start, val |-> m.val]}]

SuffixStep(tree, text, order, st, i) ==
    LET sa == order[i]
        back == IF i = 1 THEN st
                ELSE Shared(tree, st, Lcp(Suffix(text, order[i - 1]), Suffix(text, sa)))
    IN  AddMatch(ReadOn(tree, text, back, sa, sa + back.depth \div ByteBits + 1), sa)

(* A match that does not end after the one before it is dropped.           *)
Undominated(matches) ==
    LET kept == {m \in matches : \A x \in matches : x.start < m.start => x.end < m.end}
    IN  [i \in 1..Cardinality(kept) |->
            CHOOSE m \in kept : Cardinality({x \in kept : x.start < m.start}) = i - 1]

FindLongestMatches2(tree, text) ==
    LET order == SuffixArray(text)
        mf == [stack |-> <<1>>, head |-> 0, tail |-> 0, side |-> 0]
        done == FoldLeft(LAMBDA st, i : SuffixStep(tree, text, order, st, i),
                         [mf |-> mf, depth |-> 0, stack |-> <<>>, matches |-> {}],
                         [i \in 1..Len(text) |-> i])
    IN  IF Len(text) < 2 THEN <<>> ELSE Undominated(done.matches)

-----------------------------------------------------------------------------
Searched(tree) ==
    [got |-> [w \in Words |-> get(tree, w)],
     one |-> [t \in Texts |-> FindLongestMatches1(tree, t)],
     two |-> [t \in Texts |-> FindLongestMatches2(tree, t)]]

Insert(word) ==
    /\ Len(dict) < MaxInserts
    /\ nodes' = insert(nodes, word, Len(dict) + 1)
    /\ dict' = Append(dict, word)
    /\ found' = Searched(nodes')

Init ==
    /\ nodes = <<Fresh>>
    /\ dict = <<>>
    /\ found = Searched(nodes)

Next == \E word \in Words : Insert(word)

Spec == Init /\ [][Next]_vars

-----------------------------------------------------------------------------
(* The value of a word is the number of its last insertion.                *)
ValueOf(word) ==
    LET D == {i \in 1..Len(dict) : dict[i] = word}
    IN  IF D = {} THEN 0 ELSE CHOOSE i \in D : \A j \in D : j <= i

(* No word was inserted after a longer one that starts with it.            *)
PrefixesFirst ==
    \A i, j \in 1..Len(dict) :
        i < j /\ Len(dict[j]) < Len(dict[i]) => ~IsPrefix(dict[j], dict[i])

LongestAt(text, start) ==
    LET ends == {e \in start + 1..Len(text) : ValueOf(SubSeq(text, start + 1, e)) # 0}
    IN  IF ends = {} THEN {} ELSE {CHOOSE e \in ends : \A x \in ends : x <= e}

LongestMatches(text) ==
    Undominated(UNION {{[start |-> s, end |-> e, val |-> ValueOf(SubSeq(text, s + 1, e))] :
                           e \in LongestAt(text, s)} : s \in 0..Len(text) - 1})

Genuine(text, m) == m.val # 0 /\ m.val = ValueOf(SubSeq(text, m.start + 1, m.end))

(* Both searches return words of the dictionary with their values where    *)
(* the text has them, whatever the order of insertion, and get never       *)
(* returns a value of another word.  When every word was inserted before   *)
(* the longer words that start with it, get finds every word and both      *)
(* searches return the longest word at every place that is not inside an   *)
(* earlier match (patricia.go, FindLongestMatches).                        *)
MatchesGenuine ==
    /\ \A w \in Words : found.got[w] \in {0, ValueOf(w)}
    /\ \A t \in Texts :
          /\ \A i \in 1..Len(found.one[t]) : Genuine(t, found.one[t][i])
          /\ \A i \in 1..Len(found.two[t]) : Genuine(t, found.two[t][i])
    /\ PrefixesFirst =>
          /\ \A w \in Words : found.got[w] = ValueOf(w)
          /\ \A t \in Texts : Len(t) >= 2 => /\ found.one[t] = LongestMatches(t)
                                             /\ found.two[t] = LongestMatches(t)
=============================================================================
