------------------------------ MODULE Streams ------------------------------
(***************************************************************************)
(* The stream combinators of kv/iter, pulled by a consumer as the package  *)
(* asks: HasNext, Next, and stop at the first error.                       *)
(*                                                                         *)
(* A source is [items, fails]: it hands out its pairs and then ends or     *)
(* fails; a failing one says HasNext, so that Next returns the error.  The *)
(* state of a combinator is its look-ahead: <<>> when it has no next item  *)
(* (xHasNext, hasNext), <<item>> when it has.  Streams of one item a step  *)
(* (Union, Intersect, FilterUnary) are those whose pairs differ in keys.   *)
(***************************************************************************)
EXTENDS Integers, Sequences, FiniteSets

CONSTANTS
  Streams,      \* the streams opened: [op, x, y]
  Wanted(_)     \* the filter's predicate

VARIABLES
  stream, x, y,     \* the two sources, what is left of them
  xNext, yNext,     \* look-ahead
  err,              \* the error a combinator holds
  got, failed       \* what the consumer received, and whether it met an error

vars == <<stream, x, y, xNext, yNext, err, got, failed>>

\* HasNext and Next of a source.
SourceHasNext(s) == s.items # <<>> \/ s.fails
SourceFails(s) == s.items = <<>> /\ s.fails
After(s) == [s EXCEPT !.items = IF @ = <<>> THEN @ ELSE Tail(@)]

\* A look-ahead: [has, item, src, err] after HasNext and, if there is one, Next.
Ahead(s, old, e) ==
  CASE e -> [next |-> old, src |-> s, err |-> e]
    [] ~e /\ ~SourceHasNext(s) -> [next |-> <<>>, src |-> s, err |-> FALSE]
    [] ~e /\ SourceFails(s) -> [next |-> <<<<0, 0>>>>, src |-> s, err |-> TRUE]
    [] OTHER -> [next |-> <<Head(s.items)>>, src |-> After(s), err |-> FALSE]

\* advanceX and advanceY of the union and of the intersection.
advanceX(m) ==
  LET a == Ahead(m.x, m.xNext, m.err) IN [m EXCEPT !.x = a.src, !.xNext = a.next, !.err = a.err]
advanceY(m) ==
  LET a == Ahead(m.y, m.yNext, m.err) IN [m EXCEPT !.y = a.src, !.yNext = a.next, !.err = a.err]

State == [x |-> x, y |-> y, xNext |-> xNext, yNext |-> yNext, err |-> err]

\* advance of the intersection: both, then the one that is behind until they meet.
RECURSIVE Meet(_)
Meet(m) ==
  CASE m.xNext = <<>> \/ m.yNext = <<>> \/ m.err -> [m EXCEPT !.xNext = <<>>]
    [] OTHER -> CASE m.xNext[1][1] < m.yNext[1][1] -> Meet(advanceX(m))
                  [] m.xNext[1][1] > m.yNext[1][1] -> Meet(advanceY(m))
                  [] m.xNext[1][1] = m.yNext[1][1] -> m
IntersectAdvance(m) == Meet(advanceY(advanceX(m)))

\* advance of the filters: to the next item that is wanted.
RECURSIVE FilterAdvance(_)
FilterAdvance(m) ==
  IF m.err THEN m
  ELSE LET a == Ahead(m.x, <<>>, FALSE)
           n == [m EXCEPT !.x = a.src, !.err = a.err] IN
       CASE a.err -> [n EXCEPT !.xNext = <<>>]
         [] ~a.err /\ a.next = <<>> -> [n EXCEPT !.xNext = <<>>]
         [] ~a.err /\ a.next # <<>> -> IF Wanted(a.next[1]) THEN [n EXCEPT !.xNext = a.next]
                                       ELSE FilterAdvance(n)

\* HasNext of Paginated: the next page when this one is used up, unless it was the
\* last.  y's items are the pages that were not fetched yet.
PageHasNext(m) ==
  IF m.err \/ m.x.items # <<>> \/ (m.y.items = <<>> /\ ~m.y.fails) THEN m
  ELSE IF m.y.items = <<>> THEN [m EXCEPT !.err = TRUE]
  ELSE [m EXCEPT !.x.items = Head(m.y.items), !.y.items = Tail(@)]

\* Opening a stream reads ahead.
Opened(op, m) ==
  CASE op \in {"union", "unionKV"} -> advanceY(advanceX(m))
    [] op = "intersect" -> IntersectAdvance(m)
    [] op = "filter" -> FilterAdvance(m)
    [] op \in {"transform", "paginate"} -> m

HasNext(op, m) ==
  CASE op = "unionKV" -> m.xNext # <<>> \/ m.yNext # <<>>
    [] op = "union" -> m.err \/ m.xNext # <<>> \/ m.yNext # <<>>
    [] op = "intersect" -> m.xNext # <<>> /\ m.yNext # <<>>
    [] op = "filter" -> m.err \/ m.xNext # <<>>
    [] op = "transform" -> SourceHasNext(m.x)
    [] op = "paginate" -> m.err \/ m.x.items # <<>>

\* Next of the unions: of equal keys the first stream's, and both move on.
UnionNextBoth(m) ==
  CASE m.xNext = <<>> -> [item |-> m.yNext[1], m |-> advanceY(m)]
    [] m.xNext # <<>> /\ m.yNext = <<>> -> [item |-> m.xNext[1], m |-> advanceX(m)]
    [] OTHER -> IF m.xNext[1][1] <= m.yNext[1][1] THEN [item |-> m.xNext[1], m |-> advanceX(m)]
                ELSE [item |-> m.yNext[1], m |-> advanceY(m)]

UnionNext(m) ==
  CASE m.xNext = <<>> -> [item |-> m.yNext[1], m |-> advanceY(m)]
    [] m.xNext # <<>> /\ m.yNext = <<>> -> [item |-> m.xNext[1], m |-> advanceX(m)]
    [] OTHER -> CASE m.xNext[1][1] < m.yNext[1][1] -> [item |-> m.xNext[1], m |-> advanceX(m)]
                  [] m.xNext[1][1] > m.yNext[1][1] -> [item |-> m.yNext[1], m |-> advanceY(m)]
                  [] m.xNext[1][1] = m.yNext[1][1] ->
                       [item |-> m.xNext[1], m |-> advanceY(advanceX(m))]

UnionKVNext(m) == UnionNext(m)     \* the same on pairs

IntersectNext(m) == [item |-> m.xNext[1], m |-> IntersectAdvance(m)]
FilterNext(m) == [item |-> m.xNext[1], m |-> FilterAdvance(m)]
TransformNext(m) == [item |-> <<Head(m.x.items)[1], -Head(m.x.items)[2]>>,
                     m |-> [m EXCEPT !.x = After(@)]]
PageNext(m) == [item |-> Head(m.x.items), m |-> [m EXCEPT !.x = After(@)]]

\* The item a Next without error returns, and the state after it.
NextItem(op, m) ==
  CASE op = "union" -> UnionNext(m)
    [] op = "unionKV" -> UnionKVNext(m)
    [] op = "intersect" -> IntersectNext(m)
    [] op = "filter" -> FilterNext(m)
    [] op = "transform" -> TransformNext(m)
    [] op = "paginate" -> PageNext(m)

NextFails(op, m) == m.err \/ (op = "transform" /\ SourceFails(m.x))

-----------------------------------------------------------------------------
Become(m) == x' = m.x /\ y' = m.y /\ xNext' = m.xNext /\ yNext' = m.yNext /\ err' = m.err

Init ==
  \E s \in Streams :
    LET m == Opened(s.op, [x |-> s.x, y |-> s.y, xNext |-> <<>>, yNext |-> <<>>, err |-> FALSE]) IN
    /\ stream = s
    /\ x = m.x /\ y = m.y /\ xNext = m.xNext /\ yNext = m.yNext /\ err = m.err
    /\ got = <<>> /\ failed = FALSE

Asked == IF stream.op = "paginate" THEN PageHasNext(State) ELSE State

\* One turn of the consumer's loop: HasNext and Next.
Pull ==
  /\ ~failed /\ HasNext(stream.op, Asked)
  /\ IF NextFails(stream.op, Asked)
     THEN failed' = TRUE /\ Become(Asked) /\ UNCHANGED got
     ELSE /\ Become(NextItem(stream.op, Asked).m)
          /\ got' = Append(got, NextItem(stream.op, Asked).item)
          /\ UNCHANGED failed
  /\ UNCHANGED stream

Next == Pull
Spec == Init /\ [][Next]_vars
Done == failed \/ ~HasNext(stream.op, Asked)

-----------------------------------------------------------------------------
(* What the streams stand for.                                             *)

Pairs(s) == {s.items[i] : i \in DOMAIN s.items}
KeysIn(P) == {p[1] : p \in P}
InKeyOrder(P) == [i \in 1..Cardinality(P) |->
                    CHOOSE p \in P : Cardinality({q \in P : q[1] <= p[1]}) = i]
RECURSIVE Flat(_)
Flat(pages) == IF pages = <<>> THEN <<>> ELSE Head(pages) \o Flat(Tail(pages))

Expected ==
  CASE stream.op \in {"union", "unionKV"} ->
         InKeyOrder(Pairs(stream.x) \union
                    {p \in Pairs(stream.y) : p[1] \notin KeysIn(Pairs(stream.x))})
    [] stream.op = "intersect" ->
         InKeyOrder({p \in Pairs(stream.x) : p[1] \in KeysIn(Pairs(stream.y))})
    [] stream.op = "filter" -> SelectSeq(stream.x.items, Wanted)
    [] stream.op = "transform" -> [i \in DOMAIN stream.x.items |->
                                     <<stream.x.items[i][1], -stream.x.items[i][2]>>]
    [] stream.op = "paginate" -> Flat(stream.y.items)

SourcesFail == stream.x.fails \/ stream.y.fails

\* A stream ends with every item it stands for, in order and without repetition, and
\* with no error when its sources gave none; an error of a source reaches the
\* consumer after the items before it, only an intersection ends silently; and what
\* was handed out is never wrong (iter.go).  Only the last page of a paginated stream
\* may be empty: HasNext takes an empty page for the end.
StreamsCombine ==
  /\ \E n \in 0..Len(Expected) : got = SubSeq(Expected, 1, n)
  /\ failed => SourcesFail
  /\ (Done /\ ~SourcesFail) => got = Expected
  /\ (Done /\ SourcesFail /\ stream.op # "intersect") => failed
=============================================================================
