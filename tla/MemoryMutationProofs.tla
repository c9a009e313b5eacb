------------------------ MODULE MemoryMutationProofs ------------------------
(***************************************************************************)
(* The merged view of kv/memdb is one table, whatever was put, deleted or  *)
(* cleared: MemoryMutation implements OrderedTable.                        *)
(*                                                                         *)
(* The argument: a cursor that walks is on a pair of the table, and of the *)
(* side that did not answer last it holds the first entry onward (Onward), *)
(* deleted ones left out.  Each of First, Seek, SeekBothRange, Next and    *)
(* NextDup resolves the first entry of memory and the first one of the     *)
(* database in some range of pairs, and the lemma Resolved says that this  *)
(* gives the first pair of the table in that range.                        *)
(***************************************************************************)
EXTENDS MemoryMutation, TLAPS, WellFoundedInduction

Pos == Nat \ {0}
Pair == Pos \X Pos

Single(T) == \A p, q \in T : p[1] = q[1] => p = q
Bounded(T) == \E b \in Nat : \A p \in T : p[1] <= b /\ p[2] <= b

TypeOK ==
    /\ ConstantsFit
    /\ dup \in BOOLEAN /\ cleared \in BOOLEAN
    /\ base \subseteq Keys \X Values /\ mem \subseteq Keys \X Values
    /\ dup \/ (Single(base) /\ Single(mem))
    /\ Bounded(base) /\ Bounded(mem)

\* What the cursor of the database gets to see, and what hides one of its pairs.
Visible == {q \in base : q[1] \notin deleted}
Hides(q, c) == q[1] = c[1] /\ (~dup \/ q[2] = c[2])

\* The pairs that are still to come.
Onward ==
    {e \in Pair : IF mode = "dups" THEN e[1] = out[1] /\ e[2] > out[2]
                  ELSE IF dup THEN Table!Precedes(out, e) ELSE e[1] > out[1]}

\* The cursor is where the next answer can be found.
CursorOK ==
    /\ mode \in {"none", "walk", "dups"} /\ (mode = "dups" => dup)
    /\ mode # "none" =>
         /\ out \in Effective
         /\ ~cleared => IF cur.fromDb
                          THEN out \in Visible /\ cur.db = out /\ cur.mem = Table!Least(mem \cap Onward)
                          ELSE out \in mem /\ cur.db = Table!Least(Visible \cap Onward)
         /\ ~cleared => cur.pair = out

Inv == TypeOK /\ CursorOK
-----------------------------------------------------------------------------
(* The order of pairs.                                                     *)

LEMMA Order ==
  ASSUME NEW p \in Pair, NEW q \in Pair
  PROVE  /\ p[1] \in Pos /\ p[2] \in Pos
         /\ p[1] = q[1] /\ p[2] = q[2] => p = q
         /\ ~Table!Precedes(p, p)
         /\ Table!Precedes(p, q) \/ p = q \/ Table!Precedes(q, p)
         /\ Table!Precedes(p, q) <=> (p[1] < q[1] \/ (p[1] = q[1] /\ p[2] < q[2]))
         /\ p # Nil
<1>1. p[1] \in Pos /\ p[2] \in Pos /\ q[1] \in Pos /\ q[2] \in Pos
  BY DEF Pair
<1>2. p[1] = q[1] /\ p[2] = q[2] => p = q
  BY DEF Pair
<1>. QED
  BY <1>1, <1>2 DEF Table!Precedes, Nil, Pos

LEMMA Transitive ==
  ASSUME NEW p \in Pair, NEW q \in Pair, NEW r \in Pair, Table!Precedes(p, q), Table!Precedes(q, r)
  PROVE  Table!Precedes(p, r)
<1>1. p[1] \in Nat /\ p[2] \in Nat /\ q[1] \in Nat /\ q[2] \in Nat /\ r[1] \in Nat /\ r[2] \in Nat
  BY DEF Pair, Pos
<1>. QED
  BY <1>1 DEF Table!Precedes

\* A set of naturals that is not empty has a smallest member.
LEMMA SmallestExists ==
  ASSUME NEW S, S \subseteq Nat, S # {}
  PROVE  \E j \in S : \A i \in S : j <= i
<1>1. PICK j \in S : \A i \in S : <<i, j>> \notin OpToRel(<, Nat)
  BY NatLessThanWellFounded, WFMin, Zenon
<1>2. \A i \in S : ~(i < j)
  BY <1>1 DEF OpToRel
<1>. QED
  BY <1>2

\* Least is the pair before all others, and no other pair is that.
LEMMA LeastExists ==
  ASSUME NEW T, T \subseteq Pair, T # {}
  PROVE  Table!Least(T) \in T /\ \A q \in T : q = Table!Least(T) \/ Table!Precedes(Table!Least(T), q)
<1>. DEFINE Firsts == {p[1] : p \in T}
<1>1. PICK k \in Firsts : \A i \in Firsts : k <= i
  <2>1. Firsts \subseteq Nat /\ Firsts # {}
    BY DEF Pair, Pos
  <2>. QED
    BY <2>1, SmallestExists, Zenon
<1>. DEFINE Seconds == {p[2] : p \in {r \in T : r[1] = k}}
<1>2. PICK v \in Seconds : \A i \in Seconds : v <= i
  <2>1. Seconds \subseteq Nat /\ Seconds # {}
    BY DEF Pair, Pos
  <2>. QED
    BY <2>1, SmallestExists, Zenon
<1>3. PICK p \in T : p[1] = k /\ p[2] = v
  BY <1>2
<1>4. \A q \in T : q = p \/ Table!Precedes(p, q)
  <2>. SUFFICES ASSUME NEW q \in T PROVE q = p \/ Table!Precedes(p, q)
    OBVIOUS
  <2>1. p[1] <= q[1] /\ (q[1] = p[1] => p[2] <= q[2])
    BY <1>1, <1>2, <1>3
  <2>2. p \in Pair /\ q \in Pair
    OBVIOUS
  <2>. QED
    BY <2>1, <2>2, Order DEF Pos
<1>5. \E x \in T : \A q \in T : q = x \/ Table!Precedes(x, q)
  BY <1>4
<1>6. Table!Least(T) = CHOOSE x \in T : \A q \in T : q = x \/ Table!Precedes(x, q)
  BY DEF Table!Least
<1>. QED
  BY <1>5, <1>6, Zenon

LEMMA LeastUnique ==
  ASSUME NEW T, T \subseteq Pair, NEW p \in T, \A q \in T : q = p \/ Table!Precedes(p, q)
  PROVE  Table!Least(T) = p
<1>1. Table!Least(T) \in T /\ \A q \in T : q = Table!Least(T) \/ Table!Precedes(Table!Least(T), q)
  BY LeastExists
<1>2. p = Table!Least(T) \/ (Table!Precedes(p, Table!Least(T)) /\ Table!Precedes(Table!Least(T), p))
  BY <1>1
<1>3. p \in Pair /\ Table!Least(T) \in Pair
  BY <1>1
<1>4. ~(Table!Precedes(p, Table!Least(T)) /\ Table!Precedes(Table!Least(T), p))
  <2>. DEFINE l == Table!Least(T)
  <2>. SUFFICES ASSUME Table!Precedes(p, l), Table!Precedes(l, p) PROVE FALSE
    OBVIOUS
  <2>. HIDE DEF l
  <2>1. Table!Precedes(p, p)
    BY <1>3, Transitive DEF l
  <2>. QED
    BY <1>3, <2>1, Order
<1>. QED
  BY <1>2, <1>4, Zenon

LEMMA LeastEmpty == Table!Least({}) = Nil
  BY DEF Table!Least, Table!Nil, Nil

\* Which is which: nil if and only if there is none.
LEMMA LeastNil ==
  ASSUME NEW T, T \subseteq Pair
  PROVE  /\ Table!Least(T) = Nil <=> T = {}
         /\ Table!Least(T) # Nil => Table!Least(T) \in T /\ Table!Least(T) \in Pair
         /\ \A q \in T : q = Table!Least(T) \/ Table!Precedes(Table!Least(T), q)
<1>1. CASE T = {}
  BY <1>1, LeastEmpty
<1>2. CASE T # {}
  BY <1>2, LeastExists, Order
<1>. QED
  BY <1>1, <1>2
-----------------------------------------------------------------------------
(* What resolveCursorPriority makes of the two sides.                      *)

LEMMA Types ==
  ASSUME TypeOK
  PROVE  /\ mem \subseteq Pair /\ base \subseteq Pair /\ Visible \subseteq Pair
         /\ Effective \subseteq Pair /\ Keys \subseteq Pos /\ Values \subseteq Pos
         /\ ~dup => Single(mem) /\ Single(Visible) /\ Single(base)
<1>1. Keys \subseteq Pos /\ Values \subseteq Pos
  BY DEF TypeOK, ConstantsFit, Keys, Values, Pos
<1>2. Keys \X Values \subseteq Pair
  BY <1>1 DEF Pair
<1>. QED
  BY <1>1, <1>2 DEF TypeOK, Visible, Effective, Single

\* The range R of pairs goes on to the end (of the key, for "Dup"), and has all or nothing
\* of what hides each other.
Range(R, t) ==
    /\ R \subseteq Pair
    /\ \A q \in mem, c \in Visible : Hides(q, c) => (q \in R <=> c \in R)
    /\ \A x \in R, e \in Pair : Table!Precedes(x, e) /\ (t = "Dup" => e[1] = x[1]) => e \in R
    /\ t = "Dup" => dup /\ \A x, e \in R : x[1] = e[1]

\* getNextOnDb gives the next pair of the range.
LEMMA NextInRange ==
  ASSUME TypeOK, NEW t \in {"Normal", "Dup"}, NEW R, Range(R, t), NEW x \in R
  PROVE  GetNextOnDb(x, t) = Table!Least({e \in Visible \cap R : Table!Precedes(x, e)})
<1>. DEFINE later == Table!After(Visible, x)
            these == IF t = "Dup" THEN Table!OfKey(later, x[1]) ELSE later
<1>1. GetNextOnDb(x, t) = Table!Least(these)
  BY DEF GetNextOnDb, NextOf, Visible
<1>2. these = {e \in Visible \cap R : Table!Precedes(x, e)}
  <2>1. Visible \subseteq Pair
    BY Types
  <2>. QED
    BY <2>1 DEF Table!After, Table!OfKey, Range
<1>. QED
  BY <1>1, <1>2

\* One entry of the database hides behind one of memory just when it is skipped.
LEMMA SkipsIsHides ==
  ASSUME TypeOK, NEW t \in {"Normal", "Dup"}, t = "Dup" => dup,
         NEW m, NEW c, m \in Pair \/ m = Nil, c \in Pair \/ c = Nil, m # Nil \/ c # Nil
  PROVE  Skips(m, c, t) <=> (m # Nil /\ c # Nil /\ Hides(m, c))
<1>1. CASE m \in Pair /\ c \in Pair
  BY <1>1, Order DEF Skips, Hides, TypeOK
<1>2. CASE m \in Pair /\ c = Nil
  <2>1. m[1] \in Pos /\ c[1] = 0 /\ m # Nil
    BY <1>2, Order DEF Nil
  <2>. QED
    BY <1>2, <2>1 DEF Skips, Pos
<1>3. CASE m = Nil /\ c \in Pair
  <2>1. c[1] \in Pos /\ m[1] = 0 /\ c # Nil
    BY <1>3, Order DEF Nil
  <2>. QED
    BY <1>3, <2>1 DEF Skips, Pos
<1>. QED
  BY <1>1, <1>2, <1>3

\* The pairs of the table in a range.
LEMMA EffectiveInRange ==
  ASSUME TypeOK, ~cleared, NEW t, NEW R, Range(R, t)
  PROVE  \A e : e \in Effective \cap R <=>
                  \/ e \in mem \cap R
                  \/ e \in Visible \cap R /\ \A q \in mem \cap R : ~Hides(q, e)
<1>1. mem \subseteq Pair /\ Visible \subseteq Pair
  BY Types
<1>2. ASSUME NEW e \in Visible, e \in R, e \notin mem
      PROVE  (\A q \in mem \cap R : ~Hides(q, e)) <=> (dup \/ \A q \in mem : q[1] # e[1])
  <2>1. \A q \in mem : Hides(q, e) => q \in R
    BY <1>2 DEF Range
  <2>2. CASE dup
    <3>1. \A q \in mem : ~Hides(q, e)
      BY <1>1, <1>2, <2>2, Order DEF Hides
    <3>. QED
      BY <2>2, <3>1
  <2>3. CASE ~dup
    BY <2>1, <2>3 DEF Hides
  <2>. QED
    BY <2>2, <2>3
<1>. QED
  BY <1>2 DEF Effective, Visible

\* The heart of it.  Resolving the first entries that the two sides have in a range gives the
\* first pair of the table in that range, and leaves the cursor where it can go on.
LEMMA Resolved ==
  ASSUME TypeOK, NEW t \in {"Normal", "Dup"}, NEW R, Range(R, t), NEW how,
         how = IF t = "Dup" THEN "dups" ELSE "walk",
         Resolve(Table!Least(mem \cap R), Table!Least(Visible \cap R), t, how)
  PROVE  /\ out' = Table!Least(Effective \cap R)
         /\ mode' = IF out' = Nil THEN "none" ELSE how
         /\ UNCHANGED tables
         /\ CursorOK'
<1>. DEFINE M == mem \cap R
            C == Visible \cap R
            m == Table!Least(M)
            f == Table!Least(C)
            c == SkipIntersection(m, f, t)
            later == {e \in C : Table!Precedes(f, e)}
<1>0. /\ mem \subseteq Pair /\ Visible \subseteq Pair /\ M \subseteq Pair /\ C \subseteq Pair
      /\ Effective \subseteq Pair /\ Effective \cap R \subseteq Pair
      /\ ~dup => Single(mem) /\ Single(Visible)
      /\ later \subseteq C
  BY Types
<1>1. /\ m = Nil <=> M = {}
      /\ m # Nil => m \in M /\ m \in Pair
      /\ \A q \in M : q = m \/ Table!Precedes(m, q)
  BY <1>0, LeastNil
<1>2. /\ f = Nil <=> C = {}
      /\ f # Nil => f \in C /\ f \in Pair
      /\ \A q \in C : q = f \/ Table!Precedes(f, q)
  BY <1>0, LeastNil
<1>3. UNCHANGED tables /\ UNCHANGED Visible /\ UNCHANGED Effective
  <2>1. UNCHANGED tables
    BY DEF Resolve, Answer
  <2>. QED
    BY <2>1 DEF tables, Visible, Effective
<1>4. CASE cleared
  <2>1. out' = m /\ mode' = IF m = Nil THEN "none" ELSE how
    BY <1>4 DEF Resolve, Answer
  <2>2. Effective = mem
    BY <1>4 DEF Effective
  <2>3. CursorOK'
    BY <1>0, <1>1, <1>3, <1>4, <2>1, <2>2 DEF CursorOK, tables, Range
  <2>. QED
    BY <1>3, <2>1, <2>2, <2>3
<1>5. CASE ~cleared /\ m = Nil /\ f = Nil
  <2>1. out' = Nil /\ mode' = "none"
    BY <1>5 DEF Resolve, Answer
  <2>2. Effective \cap R = {}
    BY <1>1, <1>2, <1>5, EffectiveInRange
  <2>. QED
    BY <1>3, <2>1, <2>2, LeastEmpty DEF CursorOK
<1>6. CASE ~cleared /\ (m # Nil \/ f # Nil)
  <2>. DEFINE fromDb == c # Nil /\ (m = Nil \/ Table!Precedes(c, m))
              p == IF fromDb THEN c ELSE m
  <2>1. /\ out' = p /\ mode' = IF p = Nil THEN "none" ELSE how
        /\ p # Nil => cur'.db = c /\ cur'.mem = m /\ cur'.fromDb = fromDb /\ cur'.pair = p
    <3>. DEFINE r == ResolveCursorPriority(m, f, t)
    <3>1. r = [db |-> c, mem |-> m, fromDb |-> fromDb, pair |-> p]
      BY DEF ResolveCursorPriority
    <3>2. Answer(r, IF r.fromDb THEN r.db ELSE r.mem, how)
      BY <1>6, Zenon DEF Resolve
    <3>. HIDE DEF r, c, m, f
    <3>3. (IF r.fromDb THEN r.db ELSE r.mem) = p
      BY <3>1
    <3>4. how # "none"
      OBVIOUS
    <3>. QED
      BY <3>1, <3>2, <3>3, <3>4 DEF Answer
  <2>2. Skips(m, f, t) <=> (m # Nil /\ f # Nil /\ Hides(m, f))
    BY <1>1, <1>2, <1>6, SkipsIsHides DEF Range
  <2>3. Skips(m, f, t) => /\ c = Table!Least(later)
                          /\ c = Nil <=> later = {}
                          /\ c # Nil => c \in later
                          /\ \A q \in later : q = c \/ Table!Precedes(c, q)
    <3>1. Skips(m, f, t) => c = Table!Least(later)
      BY <1>2, <2>2, NextInRange DEF SkipIntersection
    <3>. QED
      BY <1>0, <3>1, LeastNil
  <2>4. ~Skips(m, f, t) => c = f
    BY DEF SkipIntersection
  <2>. HIDE DEF m, f, c
  <2>. HIDE DEF M, C, later
  <2>5. CASE fromDb
    <3>1. ~Skips(m, f, t) /\ c = f /\ f # Nil
      <4>1. SUFFICES ASSUME Skips(m, f, t) PROVE FALSE
        BY <2>4, <2>5
      <4>2. m \in Pair /\ f \in Pair /\ c \in Pair /\ Hides(m, f) /\ f \in C /\ c \in C
            /\ Table!Precedes(f, c) /\ Table!Precedes(c, m)
        BY <1>0, <1>1, <1>2, <2>2, <2>3, <2>5, <4>1 DEF later
      <4>3. CASE dup
        <5>1. m = f
          BY <4>2, <4>3, Order DEF Hides
        <5>. QED
          BY <4>2, <5>1, Order, Transitive
      <4>4. CASE ~dup
        <5>1. f[1] # c[1]
          BY <1>0, <4>2, <4>4, Order DEF Single, C
        <5>2. f[1] = m[1]
          BY <4>2 DEF Hides
        <5>3. f[1] < c[1] /\ (c[1] < m[1] \/ c[1] = m[1]) /\ f[1] \in Nat /\ c[1] \in Nat
          BY <4>2, <5>1, Order DEF Pos
        <5>. QED
          BY <5>2, <5>3
      <4>. QED
        BY <4>3, <4>4
    <3>2. c \in C /\ c \in R /\ c \in Pair /\ c \in Visible
      BY <1>2, <3>1 DEF C
    <3>3. \A q \in M : Table!Precedes(c, q) /\ ~Hides(q, c)
      <4>. SUFFICES ASSUME NEW q \in M PROVE Table!Precedes(c, q) /\ ~Hides(q, c)
        OBVIOUS
      <4>1. m \in Pair /\ q \in Pair /\ Table!Precedes(c, m) /\ (q = m \/ Table!Precedes(m, q))
        BY <1>0, <1>1, <2>5
      <4>2. Table!Precedes(c, q)
        BY <3>2, <4>1, Transitive
      <4>3. ~Hides(m, c)
        BY <1>1, <2>2, <3>1, <4>1, Order
      <4>4. ~Hides(q, c)
        BY <3>2, <4>1, <4>3, Order DEF Hides, Pos
      <4>. QED
        BY <4>2, <4>4
    <3>4. Table!Least(Effective \cap R) = c
      <4>1. c \in Effective \cap R
        BY <1>6, <3>2, <3>3, EffectiveInRange DEF M, C
      <4>2. \A q \in Effective \cap R : q \in M \/ q \in C
        BY <1>6, EffectiveInRange DEF M, C
      <4>3. \A q \in Effective \cap R : q = c \/ Table!Precedes(c, q)
        BY <1>2, <3>1, <3>3, <4>2
      <4>. QED
        BY <1>0, <4>1, <4>3, LeastUnique
    <3>5. out' = c /\ mode' = how /\ cur'.db = c /\ cur'.mem = m /\ cur'.fromDb /\ cur'.pair = c /\ c # Nil
      BY <2>1, <2>5, <3>1
    <3>6. mem \cap Onward' = M
      <4>1. ASSUME NEW e \in M PROVE e \in Onward'
        <5>1. e \in Pair /\ Table!Precedes(c, e) /\ ~Hides(e, c) /\ e \in R
          BY <1>0, <3>3, <4>1 DEF M
        <5>2. t = "Dup" => dup /\ e[1] = c[1]
          BY <3>2, <5>1 DEF Range
        <5>3. /\ dup' = dup
              /\ t = "Dup" => e[1] = c[1] /\ e[2] > c[2]
              /\ ~dup => e[1] > c[1]
          BY <1>3, <3>2, <5>1, <5>2, Order DEF tables, Hides, Pos
        <5>. QED
          BY <3>5, <5>1, <5>2, <5>3 DEF Onward
      <4>2. ASSUME NEW e \in mem, e \in Onward' PROVE e \in M
        <5>1. e \in Pair /\ dup' = dup
          BY <1>0, <1>3 DEF tables
        <5>2. Table!Precedes(c, e) /\ (t = "Dup" => e[1] = c[1])
          BY <3>2, <3>5, <4>2, <5>1, Order DEF Onward, Range
        <5>. QED
          BY <3>2, <5>1, <5>2 DEF Range, M
      <4>. QED
        BY <4>1, <4>2 DEF M
    <3>7. CursorOK'
      <4>1. c \in Effective
        BY <1>6, <3>2, <3>3, EffectiveInRange DEF M, C
      <4>2. mem' = mem
        BY <1>3 DEF tables
      <4>. QED
        BY <1>3, <3>2, <3>5, <3>6, <4>1, <4>2 DEF CursorOK, tables, Range, m
    <3>. QED
      BY <1>3, <3>4, <3>5, <3>7
  <2>6. CASE ~fromDb
    <3>1. m # Nil /\ m \in M /\ m \in Pair /\ m \in R /\ m \in mem
      BY <1>1, <1>6, <2>2, <2>4, <2>6 DEF M
    <3>2. out' = m /\ mode' = how /\ cur'.db = c /\ cur'.mem = m /\ ~cur'.fromDb /\ cur'.pair = m
      BY <2>1, <2>6, <3>1
    \* What the database has left.
    <3>. DEFINE L == IF Skips(m, f, t) THEN later ELSE C
    <3>3. /\ L \subseteq C /\ L \subseteq Pair /\ c = Table!Least(L)
          /\ \A e \in L : c # Nil /\ c \in Pair /\ (e = c \/ Table!Precedes(c, e))
      <4>1. CASE Skips(m, f, t)
        BY <1>0, <2>3, <4>1
      <4>2. CASE ~Skips(m, f, t)
        BY <1>0, <1>2, <2>4, <4>2 DEF f
      <4>. QED
        BY <4>1, <4>2
    <3>4. \A e \in L : Table!Precedes(m, e) /\ ~Hides(m, e)
      <4>. SUFFICES ASSUME NEW e \in L PROVE Table!Precedes(m, e) /\ ~Hides(m, e)
        OBVIOUS
      <4>1. /\ e \in C /\ e \in Pair /\ c # Nil /\ c \in Pair
            /\ e = c \/ Table!Precedes(c, e)
            /\ ~Table!Precedes(c, m)
        BY <2>6, <3>1, <3>3
      <4>2. CASE Skips(m, f, t)
        <5>1. f \in Pair /\ f \in C /\ Hides(m, f) /\ Table!Precedes(f, e)
          BY <1>2, <2>2, <4>2 DEF later
        <5>2. CASE dup
          BY <3>1, <4>1, <5>1, <5>2, Order DEF Hides
        <5>3. CASE ~dup
          <6>1. f[1] # e[1]
            BY <1>0, <4>1, <5>1, <5>3, Order DEF Single, C
          <6>2. m[1] < e[1] /\ m[1] \in Nat /\ e[1] \in Nat
            BY <3>1, <4>1, <5>1, <6>1, Order DEF Hides, Pos
          <6>. QED
            BY <3>1, <4>1, <6>2, Order DEF Hides
        <5>. QED
          BY <5>2, <5>3
      <4>3. CASE ~Skips(m, f, t)
        <5>1. c = f /\ ~Hides(m, c)
          BY <2>2, <2>4, <3>1, <4>1, <4>3
        <5>2. Table!Precedes(m, c)
          <6>1. m # c
            BY <5>1 DEF Hides
          <6>. QED
            BY <3>1, <4>1, <6>1, Order
        <5>3. Table!Precedes(m, e)
          BY <3>1, <4>1, <5>2, Transitive
        <5>4. ~Hides(m, e)
          BY <3>1, <4>1, <5>1, <5>2, <5>3, Order DEF Hides, Pos
        <5>. QED
          BY <5>3, <5>4
      <4>. QED
        BY <4>2, <4>3
    <3>5. Table!Least(Effective \cap R) = m
      <4>1. m \in Effective \cap R
        BY <1>6, <3>1, EffectiveInRange DEF M
      <4>2. \A q \in Effective \cap R : q \in M \/ (q \in C /\ ~Hides(m, q))
        BY <1>6, <3>1, EffectiveInRange DEF M, C
      <4>3. \A q \in C : ~Hides(m, q) => q \in L
        BY <1>2, <2>2 DEF later
      <4>4. \A q \in Effective \cap R : q = m \/ Table!Precedes(m, q)
        BY <1>1, <3>4, <4>2, <4>3
      <4>. QED
        BY <1>0, <4>1, <4>4, LeastUnique
    <3>6. Visible \cap Onward' = L
      <4>1. ASSUME NEW e \in L PROVE e \in Visible \cap Onward'
        <5>1. e \in Pair /\ Table!Precedes(m, e) /\ ~Hides(m, e) /\ e \in R /\ e \in Visible
          BY <1>0, <3>3, <3>4, <4>1 DEF C
        <5>2. t = "Dup" => dup /\ e[1] = m[1]
          BY <3>1, <5>1 DEF Range
        <5>3. /\ dup' = dup
              /\ t = "Dup" => e[1] = m[1] /\ e[2] > m[2]
              /\ ~dup => e[1] > m[1]
          BY <1>3, <3>1, <5>1, <5>2, Order DEF tables, Hides, Pos
        <5>. QED
          BY <3>2, <5>1, <5>2, <5>3 DEF Onward
      <4>2. ASSUME NEW e \in Visible, e \in Onward' PROVE e \in L
        <5>1. e \in Pair /\ dup' = dup
          BY <1>0, <1>3 DEF tables
        <5>2. Table!Precedes(m, e) /\ (t = "Dup" => e[1] = m[1]) /\ (~dup => e[1] # m[1])
          BY <3>1, <3>2, <4>2, <5>1, Order DEF Onward, Range, Pos
        <5>3. e \in C
          BY <3>1, <5>1, <5>2 DEF Range, C
        <5>4. e # m
          BY <5>1, <5>2, Order
        <5>5. ~Hides(m, e)
          BY <3>1, <5>1, <5>2, <5>4, Order DEF Hides
        <5>. QED
          BY <1>2, <2>2, <5>3, <5>5 DEF later
      <4>. QED
        BY <4>1, <4>2
    <3>7. CursorOK'
      <4>1. m \in Effective
        BY <1>6, <3>1, EffectiveInRange DEF M
      <4>2. mem' = mem
        BY <1>3 DEF tables
      <4>. QED
        BY <1>3, <3>1, <3>2, <3>3, <3>6, <4>1, <4>2 DEF CursorOK, tables, Range
    <3>. QED
      BY <1>3, <3>1, <3>2, <3>5, <3>7
  <2>. QED
    BY <2>5, <2>6
<1>. QED
  BY <1>4, <1>5, <1>6

\* The cursors are placed: a deleted entry of the database is passed over.
LEMMA Placed ==
  ASSUME TypeOK, NEW t \in {"Normal", "Dup"}, NEW R, Range(R, t), NEW how,
         how = IF t = "Dup" THEN "dups" ELSE "walk",
         Place(Table!Least(mem \cap R), Table!Least(base \cap R), t, how)
  PROVE  /\ out' = Table!Least(Effective \cap R)
         /\ mode' = IF out' = Nil THEN "none" ELSE how
         /\ UNCHANGED tables
         /\ CursorOK'
<1>. DEFINE B == base \cap R
            x == Table!Least(B)
            gone == x # Nil /\ x[1] \in deleted
            y == IF gone THEN GetNextOnDb(x, t) ELSE x
<1>1. base \subseteq Pair /\ B \subseteq Pair /\ Visible \subseteq Pair /\ Visible \cap R \subseteq Pair
  BY Types
<1>2. /\ x = Nil <=> B = {}
      /\ x # Nil => x \in B /\ x \in Pair
      /\ \A q \in B : q = x \/ Table!Precedes(x, q)
  BY <1>1, LeastNil
<1>3. Resolve(Table!Least(mem \cap R), y, t, how)
  BY DEF Place
<1>. HIDE DEF x
<1>4. y = Table!Least(Visible \cap R)
  <2>1. CASE gone
    <3>1. GetNextOnDb(x, t) = Table!Least({e \in Visible \cap R : Table!Precedes(x, e)})
      BY <1>2, <2>1, NextInRange
    <3>2. {e \in Visible \cap R : Table!Precedes(x, e)} = Visible \cap R
      BY <1>2, <2>1 DEF Visible
    <3>. QED
      BY <2>1, <3>1, <3>2
  <2>2. CASE x = Nil
    BY <1>2, <2>2, LeastEmpty DEF Visible
  <2>3. CASE x # Nil /\ x[1] \notin deleted
    <3>1. x \in Visible \cap R /\ \A q \in Visible \cap R : q = x \/ Table!Precedes(x, q)
      BY <1>2, <2>3 DEF Visible
    <3>2. Table!Least(Visible \cap R) = x
      BY <1>1, <3>1, LeastUnique
    <3>. QED
      BY <2>3, <3>2
  <2>. QED
    BY <2>1, <2>2, <2>3
<1>. QED
  BY <1>3, <1>4, Resolved

\* What is still to come is a range.
LEMMA OnwardIsRange ==
  ASSUME TypeOK, CursorOK, NEW t \in {"Normal", "Dup"},
         mode = IF t = "Dup" THEN "dups" ELSE "walk"
  PROVE  Range(Onward, t)
<1>1. out \in Pair /\ mem \subseteq Pair /\ Visible \subseteq Pair /\ Onward \subseteq Pair
  BY Types DEF CursorOK, Onward
<1>2. ASSUME NEW q \in mem, NEW c \in Visible, Hides(q, c) PROVE q \in Onward <=> c \in Onward
  <2>1. q \in Pair /\ c \in Pair
    BY <1>1
  <2>2. CASE dup
    BY <1>2, <2>1, <2>2, Order DEF Hides
  <2>3. CASE ~dup
    BY <1>2, <2>1, <2>3 DEF Hides, Onward, CursorOK
  <2>. QED
    BY <2>2, <2>3
<1>3. ASSUME NEW x \in Onward, NEW e \in Pair, Table!Precedes(x, e), t = "Dup" => e[1] = x[1]
      PROVE  e \in Onward
  <2>1. x \in Pair
    BY <1>1
  <2>2. CASE t = "Dup"
    BY <1>1, <1>3, <2>1, <2>2, Order DEF Onward, Pos
  <2>3. CASE t # "Dup" /\ dup
    BY <1>1, <1>3, <2>1, <2>3, Transitive DEF Onward
  <2>4. CASE t # "Dup" /\ ~dup
    BY <1>1, <1>3, <2>1, <2>4, Order DEF Onward, Pos
  <2>. QED
    BY <2>2, <2>3, <2>4
<1>4. t = "Dup" => dup /\ \A x, e \in Onward : x[1] = e[1]
  BY DEF CursorOK, Onward
<1>. QED
  BY <1>1, <1>2, <1>3, <1>4 DEF Range

\* A cursor of MDBX that is on the last answer goes on to the next pair that is still to come.
LEMMA NextOfOnward ==
  ASSUME TypeOK, CursorOK, NEW t \in {"Normal", "Dup"},
         mode = IF t = "Dup" THEN "dups" ELSE "walk",
         NEW T, T \subseteq Pair, out \in T, ~dup => Single(T)
  PROVE  NextOf(T, out, t) = Table!Least(T \cap Onward)
<1>. DEFINE these == IF t = "Dup" THEN Table!OfKey(Table!After(T, out), out[1])
                     ELSE Table!After(T, out)
<1>1. NextOf(T, out, t) = Table!Least(these)
  BY DEF NextOf
<1>2. ASSUME NEW e \in T PROVE e \in these <=> e \in Onward
  <2>1. out \in Pair /\ e \in Pair
    OBVIOUS
  <2>2. CASE t = "Dup"
    BY <2>1, <2>2, Order DEF Onward, Pos, Table!OfKey, Table!After
  <2>3. CASE t # "Dup" /\ dup
    BY <2>1, <2>3 DEF Onward, Table!After
  <2>4. CASE t # "Dup" /\ ~dup
    <3>1. e[1] = out[1] => e = out
      BY <2>4 DEF Single
    <3>. QED
      BY <2>1, <2>4, <3>1, Order DEF Onward, Pos, Table!After
  <2>. QED
    BY <2>2, <2>3, <2>4
<1>3. these \subseteq T
  BY DEF Table!OfKey, Table!After
<1>4. these = T \cap Onward
  BY <1>2, <1>3
<1>. QED
  BY <1>1, <1>4

\* Next and NextDup go on to the first pair of the table that is still to come.
LEMMA Advanced ==
  ASSUME TypeOK, CursorOK, NEW t \in {"Normal", "Dup"}, NEW how,
         how = IF t = "Dup" THEN "dups" ELSE "walk", Advance(t, how)
  PROVE  /\ out' = Table!Least(Effective \cap Onward)
         /\ mode' = IF out' = Nil THEN "none" ELSE how
         /\ UNCHANGED tables
         /\ CursorOK'
<1>1. mode = how /\ mode # "none" /\ out \in Effective
  BY DEF Advance, CursorOK
<1>2. Range(Onward, t)
  BY <1>1, OnwardIsRange
<1>3. mem \subseteq Pair /\ Visible \subseteq Pair /\ (~dup => Single(mem) /\ Single(Visible))
  BY Types
<1>4. Resolve(Table!Least(mem \cap Onward), Table!Least(Visible \cap Onward), t, how)
  <2>1. CASE cur.fromDb /\ ~cleared
    <3>1. out \in Visible /\ cur.db = out /\ cur.mem = Table!Least(mem \cap Onward)
      BY <1>1, <2>1 DEF CursorOK
    <3>2. NextOf(Visible, out, t) = Table!Least(Visible \cap Onward)
      BY <1>1, <1>3, <3>1, NextOfOnward
    <3>3. GetNextOnDb(cur.db, t) = Table!Least(Visible \cap Onward)
      BY <3>1, <3>2 DEF GetNextOnDb, Visible
    <3>. QED
      BY <2>1, <3>1, <3>3 DEF Advance
  <2>2. CASE ~cur.fromDb /\ ~cleared
    <3>1. out \in mem /\ cur.db = Table!Least(Visible \cap Onward)
      BY <1>1, <2>2 DEF CursorOK
    <3>2. NextOf(mem, out, t) = Table!Least(mem \cap Onward)
      BY <1>1, <1>3, <3>1, NextOfOnward
    <3>. QED
      BY <2>2, <3>1, <3>2 DEF Advance
  <2>3. CASE cleared
    <3>1. out \in mem
      BY <1>1, <2>3 DEF Effective
    <3>2. NextOf(mem, out, t) = Table!Least(mem \cap Onward)
      BY <1>1, <1>3, <3>1, NextOfOnward
    <3>. QED
      BY <2>3, <3>2 DEF Advance, Resolve
  <2>. QED
    BY <2>1, <2>2, <2>3
<1>. QED
  BY <1>2, <1>4, Resolved
-----------------------------------------------------------------------------
(* The steps, one by one: each is a step of the table and keeps Inv.       *)

\* The pairs of the table are pairs, one for a key unless it is DupSort.
LEMMA EffectiveType ==
  ASSUME TypeOK
  PROVE  Effective \subseteq Keys \X Values /\ (~dup => Single(Effective))
<1>1. Effective \subseteq Keys \X Values
  BY DEF TypeOK, Effective
<1>2. ASSUME ~dup PROVE Single(Effective)
  <2>1. Single(base) /\ Single(mem)
    BY <1>2 DEF TypeOK
  <2>. QED
    BY <1>2, <2>1 DEF Single, Effective
<1>. QED
  BY <1>1, <1>2

LEMMA EffectiveBounded == ASSUME TypeOK PROVE Bounded(Effective)
<1>1. Effective \subseteq mem \cup base
  BY DEF Effective
<1>2. PICK x \in Nat : \A p \in mem : p[1] <= x /\ p[2] <= x
  BY DEF TypeOK, Bounded
<1>3. PICK y \in Nat : \A p \in base : p[1] <= y /\ p[2] <= y
  BY DEF TypeOK, Bounded
<1>4. \A p \in Effective : p[1] \in Nat /\ p[2] \in Nat
  BY Types, Order DEF Pos
<1>5. x + y \in Nat /\ \A p \in Effective : p[1] <= x + y /\ p[2] <= x + y
  BY <1>1, <1>2, <1>3, <1>4
<1>. QED
  BY <1>5 DEF Bounded

\* A cursor that answers leaves the tables alone.
LEMMA AnswerKeeps ==
  ASSUME TypeOK, UNCHANGED tables
  PROVE  TypeOK' /\ UNCHANGED <<dup, Effective>>
BY DEF TypeOK, tables, Effective, ConstantsFit, Keys, Values, Single, Bounded

\* Going to a pair, seen as a step of the table.
LEMMA GotoStep ==
  ASSUME TypeOK, UNCHANGED tables, NEW p, NEW how \in {"walk", "dups"}, out' = p,
         mode' = IF out' = Nil THEN "none" ELSE how
  PROVE  Table!Goto(p, how)
<1>1. UNCHANGED <<dup, Effective>>
  BY AnswerKeeps
<1>2. (IF mode' = "none" THEN <<0, 0>> ELSE out') = p
  BY DEF Nil
<1>3. mode' = IF p = Table!Nil THEN "none" ELSE how
  BY DEF Nil, Table!Nil
<1>. QED
  BY <1>1, <1>2, <1>3 DEF Table!Goto

LEMMA FirstStep == ASSUME Inv, First PROVE Inv' /\ Table!First
<1>1. mem \subseteq Pair /\ base \subseteq Pair /\ Visible \subseteq Pair /\ Effective \subseteq Pair
  BY Types DEF Inv
<1>2. Range(Pair, "Normal")
  BY <1>1 DEF Range
<1>3. mem \cap Pair = mem /\ base \cap Pair = base /\ Effective \cap Pair = Effective
  BY <1>1
<1>4. Place(Table!Least(mem \cap Pair), Table!Least(base \cap Pair), "Normal", "walk")
  BY <1>3 DEF First
<1>5. /\ out' = Table!Least(Effective \cap Pair)
      /\ mode' = IF out' = Nil THEN "none" ELSE "walk"
      /\ UNCHANGED tables /\ CursorOK'
  BY <1>2, <1>4, Placed DEF Inv
<1>6. Table!Goto(Table!Least(Effective), "walk")
  BY <1>3, <1>5, GotoStep DEF Inv
<1>. QED
  BY <1>5, <1>6, AnswerKeeps DEF Inv, Table!First

LEMMA SeekStep == ASSUME Inv, Seek PROVE Inv' /\ Table!Seek
<1>1. PICK k \in Keys :
        Place(Table!Least(Table!From(mem, k)), Table!Least(Table!From(base, k)), "Normal", "walk")
  BY DEF Seek
<1>2. /\ mem \subseteq Pair /\ base \subseteq Pair /\ Visible \subseteq Pair /\ Effective \subseteq Pair
      /\ k \in Nat
  BY Types DEF Inv, Pos
<1>. DEFINE R == {e \in Pair : e[1] >= k}
<1>3. Range(R, "Normal")
  <2>1. \A q \in mem, c \in Visible : Hides(q, c) => (q \in R <=> c \in R)
    BY <1>2 DEF Hides
  <2>2. ASSUME NEW x \in R, NEW e \in Pair, Table!Precedes(x, e) PROVE e \in R
    BY <1>2, <2>2, Order DEF Pos
  <2>. QED
    BY <2>1, <2>2 DEF Range
<1>4. /\ mem \cap R = Table!From(mem, k) /\ base \cap R = Table!From(base, k)
      /\ Effective \cap R = Table!From(Effective, k)
  BY <1>2 DEF Table!From
<1>. HIDE DEF R
<1>5. /\ out' = Table!Least(Effective \cap R)
      /\ mode' = IF out' = Nil THEN "none" ELSE "walk"
      /\ UNCHANGED tables /\ CursorOK'
  <2>1. Place(Table!Least(mem \cap R), Table!Least(base \cap R), "Normal", "walk")
    BY <1>1, <1>4
  <2>. QED
    BY <1>3, <2>1, Placed DEF Inv
<1>6. Table!Goto(Table!Least(Table!From(Effective, k)), "walk")
  BY <1>4, <1>5, GotoStep DEF Inv
<1>. QED
  BY <1>5, <1>6, AnswerKeeps DEF Inv, Table!Seek

LEMMA SeekBothRangeStep == ASSUME Inv, SeekBothRange PROVE Inv' /\ Table!SeekBothRange
<1>. DEFINE At(T, k, v) == {p \in Table!OfKey(T, k) : p[2] >= v}
<1>1. PICK k \in Keys, v \in Values :
        dup /\ Place(Table!Least(At(mem, k, v)), Table!Least(At(base, k, v)), "Dup", "dups")
  BY DEF SeekBothRange
<1>2. /\ mem \subseteq Pair /\ base \subseteq Pair /\ Visible \subseteq Pair /\ Effective \subseteq Pair
      /\ k \in Nat /\ v \in Nat
  BY Types DEF Inv, Pos
<1>. DEFINE R == {e \in Pair : e[1] = k /\ e[2] >= v}
<1>3. Range(R, "Dup")
  <2>1. ASSUME NEW q \in mem, NEW c \in Visible, Hides(q, c) PROVE q \in R <=> c \in R
    <3>1. q \in Pair /\ c \in Pair
      BY <1>2
    <3>. QED
      BY <1>1, <2>1, <3>1, Order DEF Hides
  <2>2. ASSUME NEW x \in R, NEW e \in Pair, Table!Precedes(x, e), e[1] = x[1] PROVE e \in R
    BY <1>2, <2>2, Order DEF Pos
  <2>. QED
    BY <1>1, <2>1, <2>2 DEF Range
<1>4. /\ mem \cap R = At(mem, k, v) /\ base \cap R = At(base, k, v)
      /\ Effective \cap R = At(Effective, k, v)
  BY <1>2 DEF Table!OfKey
<1>. HIDE DEF R
<1>5. /\ out' = Table!Least(Effective \cap R)
      /\ mode' = IF out' = Nil THEN "none" ELSE "dups"
      /\ UNCHANGED tables /\ CursorOK'
  <2>1. Place(Table!Least(mem \cap R), Table!Least(base \cap R), "Dup", "dups")
    BY <1>1, <1>4
  <2>. QED
    BY <1>3, <2>1, Placed DEF Inv
<1>6. Table!Goto(Table!Least(At(Effective, k, v)), "dups")
  BY <1>4, <1>5, GotoStep DEF Inv
<1>. QED
  BY <1>1, <1>5, <1>6, AnswerKeeps DEF Inv, Table!SeekBothRange

\* Next and NextDup.
LEMMA AdvanceStep ==
  ASSUME Inv, NEW t \in {"Normal", "Dup"}, NEW how, how = IF t = "Dup" THEN "dups" ELSE "walk",
         Advance(t, how)
  PROVE  Inv' /\ (IF t = "Dup" THEN Table!NextDup ELSE Table!Next)
<1>1. /\ out' = Table!Least(Effective \cap Onward)
      /\ mode' = IF out' = Nil THEN "none" ELSE how
      /\ UNCHANGED tables /\ CursorOK'
  BY Advanced DEF Inv
<1>2. mode = how /\ mode # "none" /\ out \in Effective
  BY DEF Advance, Inv, CursorOK
<1>3. Effective \subseteq Pair /\ (~dup => Single(Effective))
  BY Types, EffectiveType DEF Inv
<1>4. NextOf(Effective, out, t) = Table!Least(Effective \cap Onward)
  BY <1>2, <1>3, NextOfOnward DEF Inv
<1>5. Table!Goto(NextOf(Effective, out, t), how)
  BY <1>1, <1>4, GotoStep DEF Inv
<1>6. (IF mode = "none" THEN <<0, 0>> ELSE out) = out
  BY <1>2
<1>7. CASE t = "Dup"
  BY <1>1, <1>2, <1>5, <1>6, <1>7, AnswerKeeps DEF Inv, Table!NextDup, NextOf
<1>8. CASE t # "Dup"
  BY <1>1, <1>2, <1>5, <1>6, <1>8, AnswerKeeps DEF Inv, Table!Next, NextOf
<1>. QED
  BY <1>7, <1>8

LEMMA SeekExactStep == ASSUME Inv, SeekExact PROVE Inv' /\ Table!SeekExact
<1>1. PICK k \in Keys : Answer(NoCursor, SeekExactPair(k), "none")
  BY DEF SeekExact
<1>2. out' = SeekExactPair(k) /\ mode' = "none" /\ UNCHANGED tables
  BY <1>1 DEF Answer
<1>3. TypeOK' /\ UNCHANGED <<dup, Effective>>
  BY <1>2, AnswerKeeps DEF Inv
<1>4. CursorOK'
  BY <1>2 DEF CursorOK
<1>. DEFINE M == Table!OfKey(mem, k)
            B == Table!OfKey(base, k)
            E == Table!OfKey(Effective, k)
<1>5. M \subseteq Pair /\ B \subseteq Pair
  BY Types DEF Inv, Table!OfKey
<1>6. /\ Table!Least(M) = Nil <=> M = {}
      /\ Table!Least(M) # Nil => Table!Least(M) \in M
      /\ Table!Least(B) = Nil <=> B = {}
      /\ Table!Least(B) # Nil => Table!Least(B) \in B
  BY <1>5, LeastNil
<1>7. IF E = {} THEN out' = Nil ELSE out' \in E
  <2>1. CASE M # {}
    <3>1. Table!Least(M) \in E
      BY <1>6, <2>1 DEF Effective, Table!OfKey
    <3>. QED
      BY <1>2, <1>6, <2>1, <3>1 DEF SeekExactPair
  <2>2. CASE M = {} /\ (cleared \/ k \in deleted)
    <3>1. E = {}
      BY <2>2 DEF Effective, Table!OfKey
    <3>. QED
      BY <1>2, <1>6, <2>2, <3>1 DEF SeekExactPair
  <2>3. CASE M = {} /\ ~cleared /\ k \notin deleted
    <3>1. E = B
      BY <2>3 DEF Effective, Table!OfKey
    <3>. QED
      BY <1>2, <1>6, <2>3, <3>1 DEF SeekExactPair
  <2>. QED
    BY <2>1, <2>2, <2>3
<1>. QED
  BY <1>2, <1>3, <1>4, <1>7 DEF Inv, Table!SeekExact, Table!Nil, Nil
-----------------------------------------------------------------------------
(* Last.                                                                   *)

\* A bounded set of naturals that is not empty has a largest member.
LEMMA LargestExists ==
  ASSUME NEW S, S \subseteq Nat, S # {}, NEW b \in Nat, \A i \in S : i <= b
  PROVE  \E j \in S : \A i \in S : i <= j
<1>. DEFINE Bounds == {n \in Nat : \A i \in S : i <= n}
<1>1. PICK n \in Bounds : \A i \in Bounds : n <= i
  <2>1. Bounds \subseteq Nat /\ Bounds # {}
    OBVIOUS
  <2>. QED
    BY <2>1, SmallestExists, Zenon
<1>2. n \in S
  <2>. SUFFICES ASSUME n \notin S PROVE FALSE
    OBVIOUS
  <2>1. \A i \in S : i <= n - 1
    BY <1>1
  <2>2. n - 1 \in Nat
    <3>1. PICK i \in S : TRUE
      OBVIOUS
    <3>2. i \in Nat /\ i <= n - 1 /\ n \in Nat
      BY <2>1, <3>1
    <3>. QED
      BY <3>2
  <2>3. n - 1 \in Bounds
    BY <2>1, <2>2
  <2>. QED
    BY <1>1, <2>2, <2>3
<1>. QED
  BY <1>1, <1>2

LEMMA GreatestExists ==
  ASSUME NEW T, T \subseteq Pair, Bounded(T), T # {}
  PROVE  /\ Table!Greatest(T) \in T
         /\ \A q \in T : q = Table!Greatest(T) \/ Table!Precedes(q, Table!Greatest(T))
<1>0. PICK b \in Nat : \A p \in T : p[1] <= b /\ p[2] <= b
  BY DEF Bounded
<1>. DEFINE Firsts == {p[1] : p \in T}
<1>1. PICK k \in Firsts : \A i \in Firsts : i <= k
  <2>1. Firsts \subseteq Nat /\ Firsts # {} /\ \A i \in Firsts : i <= b
    BY <1>0 DEF Pair, Pos
  <2>. QED
    BY <2>1, LargestExists, Zenon
<1>. DEFINE Seconds == {p[2] : p \in {r \in T : r[1] = k}}
<1>2. PICK v \in Seconds : \A i \in Seconds : i <= v
  <2>1. Seconds \subseteq Nat /\ Seconds # {} /\ \A i \in Seconds : i <= b
    BY <1>0 DEF Pair, Pos
  <2>. QED
    BY <2>1, LargestExists, Zenon
<1>3. PICK p \in T : p[1] = k /\ p[2] = v
  BY <1>2
<1>4. \A q \in T : q = p \/ Table!Precedes(q, p)
  <2>. SUFFICES ASSUME NEW q \in T PROVE q = p \/ Table!Precedes(q, p)
    OBVIOUS
  <2>1. q[1] <= p[1] /\ (q[1] = p[1] => q[2] <= p[2])
    BY <1>1, <1>2, <1>3
  <2>2. p \in Pair /\ q \in Pair
    OBVIOUS
  <2>. QED
    BY <2>1, <2>2, Order DEF Pos
<1>5. \E x \in T : \A q \in T : q = x \/ Table!Precedes(q, x)
  BY <1>4
<1>6. Table!Greatest(T) = CHOOSE x \in T : \A q \in T : q = x \/ Table!Precedes(q, x)
  BY DEF Table!Greatest
<1>. QED
  BY <1>5, <1>6, Zenon

LEMMA GreatestUnique ==
  ASSUME NEW T, T \subseteq Pair, Bounded(T), NEW p \in T, \A q \in T : q = p \/ Table!Precedes(q, p)
  PROVE  Table!Greatest(T) = p
<1>. DEFINE l == Table!Greatest(T)
<1>1. l \in T /\ \A q \in T : q = l \/ Table!Precedes(q, l)
  BY GreatestExists
<1>. HIDE DEF l
<1>2. l \in Pair /\ p \in Pair
  BY <1>1
<1>3. l = p \/ (Table!Precedes(l, p) /\ Table!Precedes(p, l))
  BY <1>1
<1>4. ~(Table!Precedes(l, p) /\ Table!Precedes(p, l))
  BY <1>2, Transitive, Order
<1>. QED
  BY <1>3, <1>4 DEF l

LEMMA GreatestNil ==
  ASSUME NEW T, T \subseteq Pair, Bounded(T)
  PROVE  /\ Table!Greatest(T) = Nil <=> T = {}
         /\ Table!Greatest(T) # Nil => Table!Greatest(T) \in T /\ Table!Greatest(T) \in Pair
         /\ \A q \in T : q = Table!Greatest(T) \/ Table!Precedes(q, Table!Greatest(T))
<1>1. CASE T = {}
  BY <1>1 DEF Table!Greatest, Table!Nil, Nil
<1>2. CASE T # {}
  BY <1>2, GreatestExists, Order
<1>. QED
  BY <1>1, <1>2

\* What Last answers is a pair of the table if there is one, and the last one unless the
\* last key of the database was deleted.
LEMMA LastIsThere ==
  ASSUME TypeOK, ~cleared
  PROVE  /\ LastPair \in Effective \cup {Nil}
         /\ LastDeleted \/ LastPair = Table!Greatest(Effective)
<1>. DEFINE m == Table!Greatest(mem)
            b == Table!Greatest(base)
            c == SkipIntersection(m, b, "Normal")
<1>1. /\ mem \subseteq Pair /\ base \subseteq Pair /\ Visible \subseteq Pair /\ Effective \subseteq Pair
      /\ Bounded(mem) /\ Bounded(base)
  BY Types DEF TypeOK
<1>2. /\ m = Nil <=> mem = {}
      /\ m # Nil => m \in mem /\ m \in Pair
      /\ \A q \in mem : q = m \/ Table!Precedes(q, m)
  BY <1>1, GreatestNil
<1>3. /\ b = Nil <=> base = {}
      /\ b # Nil => b \in base /\ b \in Pair
      /\ \A q \in base : q = b \/ Table!Precedes(q, b)
  BY <1>1, GreatestNil
<1>4. LastPair = IF c # Nil /\ c[1] \notin deleted /\ (m = Nil \/ Table!Precedes(m, c)) THEN c ELSE m
  BY DEF LastPair
<1>5. LastDeleted <=> (base # {} /\ b[1] \in deleted)
  BY DEF LastDeleted
<1>6. c = IF Skips(m, b, "Normal") THEN GetNextOnDb(b, "Normal") ELSE b
  BY DEF SkipIntersection
<1>. HIDE DEF m, b, c
<1>7. GetNextOnDb(b, "Normal") = Nil
  <2>1. GetNextOnDb(b, "Normal") = Table!Least(Table!After(Visible, b))
    BY DEF GetNextOnDb, NextOf, Visible
  <2>2. Table!After(Visible, b) = {}
    <3>. SUFFICES ASSUME NEW q \in Visible, Table!Precedes(b, q) PROVE FALSE
      BY DEF Table!After
    <3>1. q \in base /\ q \in Pair /\ b \in Pair
      BY <1>1, <1>3 DEF Visible
    <3>. QED
      BY <1>3, <3>1, Order, Transitive
  <2>. QED
    BY <2>1, <2>2, LeastEmpty
\* Who is in the table, of the two last ones.
<1>8. mem \subseteq Effective /\ Effective \subseteq mem \cup base
  BY DEF Effective
<1>9. Bounded(Effective)
  BY EffectiveBounded
<1>10. CASE c # Nil /\ c[1] \notin deleted /\ (m = Nil \/ Table!Precedes(m, c))
  <2>1. c = b /\ ~Skips(m, b, "Normal") /\ b \in base /\ b \in Pair
    BY <1>3, <1>6, <1>7, <1>10
  <2>2. b \in Effective
    <3>1. CASE dup \/ m = Nil
      BY <1>2, <1>10, <2>1, <3>1 DEF Effective
    <3>2. CASE ~dup /\ m # Nil
      <4>1. m[1] < b[1]
        BY <1>2, <1>10, <2>1, <3>2, Order DEF Skips, Pos
      <4>2. \A q \in mem : q[1] <= m[1]
        BY <1>1, <1>2, <3>2, Order DEF Pos
      <4>3. \A q \in mem : q[1] # b[1]
        BY <1>1, <1>2, <2>1, <3>2, <4>1, <4>2, Order DEF Pos
      <4>. QED
        BY <1>10, <2>1, <4>3 DEF Effective
    <3>. QED
      BY <3>1, <3>2
  <2>3. \A q \in Effective : q = b \/ Table!Precedes(q, b)
    <3>. SUFFICES ASSUME NEW q \in mem PROVE q = b \/ Table!Precedes(q, b)
      BY <1>3, <1>8
    <3>1. m # Nil /\ m \in Pair /\ q \in Pair /\ Table!Precedes(m, b)
      BY <1>1, <1>2, <1>10, <2>1
    <3>. QED
      BY <1>2, <2>1, <3>1, Transitive
  <2>4. Table!Greatest(Effective) = b
    BY <1>1, <1>9, <2>2, <2>3, GreatestUnique
  <2>. QED
    BY <1>4, <1>10, <2>1, <2>2, <2>4
<1>11. CASE ~(c # Nil /\ c[1] \notin deleted /\ (m = Nil \/ Table!Precedes(m, c)))
  <2>1. LastPair = m
    BY <1>4, <1>11
  <2>2. m \in Effective \cup {Nil}
    BY <1>2, <1>8
  <2>3. ASSUME ~LastDeleted PROVE Table!Greatest(Effective) = m
    <3>1. b = Nil \/ b[1] \notin deleted
      BY <1>3, <1>5, <2>3
    <3>2. CASE m = Nil /\ b = Nil
      <4>1. Effective = {}
        BY <1>2, <1>3, <1>8, <3>2
      <4>. QED
        BY <3>2, <4>1 DEF Table!Greatest, Table!Nil, Nil
    <3>3. CASE m = Nil /\ b # Nil
      <4>1. b \in Pair /\ ~Skips(m, b, "Normal")
        BY <1>3, <3>3, SkipsIsHides
      <4>. QED
        BY <1>6, <1>11, <3>1, <3>3, <4>1
    <3>4. CASE m # Nil
      <4>1. m \in Effective /\ m \in Pair
        BY <1>2, <1>8, <3>4
      <4>2. ASSUME NEW q \in Effective, q \notin mem PROVE Table!Precedes(q, m)
        <5>1. q \in base /\ q \in Pair /\ b # Nil /\ b \in Pair /\ b[1] \notin deleted
          BY <1>1, <1>3, <1>8, <3>1, <4>2
        <5>2. q = b \/ Table!Precedes(q, b)
          BY <1>3, <5>1
        <5>3. CASE ~Skips(m, b, "Normal")
          <6>1. ~Table!Precedes(m, b)
            BY <1>6, <1>11, <5>1, <5>3
          <6>2. b = m \/ Table!Precedes(b, m)
            BY <4>1, <5>1, <6>1, Order
          <6>. QED
            BY <4>1, <4>2, <5>1, <5>2, <6>2, <1>2, <3>4, Transitive
        <5>4. CASE Skips(m, b, "Normal")
          <6>1. Hides(m, b)
            BY <4>1, <5>1, <5>4, SkipsIsHides
          <6>2. CASE dup
            <7>1. m = b
              BY <4>1, <5>1, <6>1, <6>2, Order DEF Hides
            <7>. QED
              BY <1>2, <3>4, <4>2, <5>2, <7>1
          <6>3. CASE ~dup
            <7>1. q[1] # m[1]
              BY <1>2, <3>4, <4>2, <6>3 DEF Effective
            <7>2. q[1] <= b[1] /\ b[1] = m[1]
              BY <5>1, <5>2, <6>1, Order DEF Hides, Pos
            <7>. QED
              BY <4>1, <5>1, <7>1, <7>2, Order DEF Pos
          <6>. QED
            BY <6>2, <6>3 DEF TypeOK
        <5>. QED
          BY <5>3, <5>4
      <4>3. \A q \in Effective : q = m \/ Table!Precedes(q, m)
        BY <1>2, <4>2
      <4>. QED
        BY <1>1, <1>9, <4>1, <4>3, GreatestUnique
    <3>. QED
      BY <3>2, <3>3, <3>4
  <2>. QED
    BY <2>1, <2>2, <2>3
<1>. QED
  BY <1>10, <1>11

LEMMA LastStep ==
  ASSUME Inv, Last
  PROVE  Inv' /\ Table!Last /\ (LastDeleted \/ out' = Table!Greatest(Effective))
<1>1. out' = (IF cleared THEN Table!Greatest(mem) ELSE LastPair) /\ mode' = "none" /\ UNCHANGED tables
  BY DEF Last, Answer
<1>2. TypeOK' /\ UNCHANGED <<dup, Effective>>
  BY <1>1, AnswerKeeps DEF Inv
<1>3. CursorOK'
  BY <1>1 DEF CursorOK
<1>4. CASE cleared
  <2>1. Effective = mem
    BY <1>4 DEF Effective
  <2>2. mem \subseteq Pair /\ Bounded(mem)
    BY Types DEF Inv, TypeOK
  <2>3. Table!Greatest(mem) \in mem \cup {Nil}
    BY <2>2, GreatestNil
  <2>. QED
    BY <1>1, <1>2, <1>3, <1>4, <2>1, <2>3 DEF Inv, Table!Last, Nil, Table!Nil
<1>5. CASE ~cleared
  <2>1. /\ LastPair \in Effective \cup {Nil}
        /\ LastDeleted \/ LastPair = Table!Greatest(Effective)
    BY <1>5, LastIsThere DEF Inv
  <2>. QED
    BY <1>1, <1>2, <1>3, <1>5, <2>1 DEF Inv, Table!Last, Nil, Table!Nil
<1>. QED
  BY <1>4, <1>5
-----------------------------------------------------------------------------
(* The writes.                                                             *)

\* A write, seen as a step of the table.
LEMMA WriteStep ==
  ASSUME Written, NEW T, Effective' = T
  PROVE  Table!Write(T) /\ CursorOK'
<1>1. mode' = "none" /\ out' = Nil /\ dup' = dup
  BY DEF Written
<1>2. (IF mode' = "none" THEN <<0, 0>> ELSE out') = Table!Nil
  BY <1>1 DEF Table!Nil
<1>3. CursorOK'
  BY <1>1 DEF CursorOK
<1>. QED
  BY <1>1, <1>2, <1>3 DEF Table!Write, Table!Nil, Nil

LEMMA PutStep == ASSUME Inv, Put PROVE Inv' /\ Table!Put
<1>1. PICK w \in Puts : /\ mem' = Table!Set(mem, w.key, w.value)
                        /\ UNCHANGED <<base, deleted, cleared>> /\ Written
  BY DEF Put
<1>. DEFINE k == w.key
            v == w.value
<1>2. k \in Keys /\ v \in Values /\ k \in Nat /\ v \in Nat
  BY DEF Keys, Values, Inv, TypeOK, ConstantsFit
<1>. HIDE DEF k, v
<1>3. dup' = dup /\ dup \in BOOLEAN /\ mem' = Table!Set(mem, k, v)
  BY <1>1 DEF Written, Inv, TypeOK, k, v
<1>4. mem \subseteq Pair /\ base \subseteq Pair
  BY Types DEF Inv
<1>5. Effective' = Table!Set(Effective, k, v)
  <2>1. CASE dup
    BY <1>1, <1>3, <2>1 DEF Effective, Table!Set
  <2>2. CASE ~dup
    <3>1. mem' = (mem \ {p \in mem : p[1] = k}) \cup {<<k, v>>}
      BY <1>3, <2>2 DEF Table!Set, Table!OfKey
    <3>2. Table!Set(Effective, k, v) = (Effective \ {p \in Effective : p[1] = k}) \cup {<<k, v>>}
      BY <2>2 DEF Table!Set, Table!OfKey
    <3>3. CASE cleared
      BY <1>1, <3>1, <3>2, <3>3 DEF Effective
    <3>4. CASE ~cleared
      <4>1. ASSUME NEW p \in base
            PROVE  (\A q \in mem' : q[1] # p[1]) <=> (p[1] # k /\ \A q \in mem : q[1] # p[1])
        <5>1. <<k, v>>[1] = k
          OBVIOUS
        <5>2. \A q : q \in mem' <=> (q \in mem /\ q[1] # k) \/ q = <<k, v>>
          BY <3>1
        <5>. QED
          BY <5>1, <5>2, Zenon
      <4>2. Effective' = mem' \cup {p \in base : p[1] \notin deleted /\ \A q \in mem' : q[1] # p[1]}
        BY <1>1, <1>3, <2>2, <3>4 DEF Effective
      <4>3. Effective = mem \cup {p \in base : p[1] \notin deleted /\ \A q \in mem : q[1] # p[1]}
        BY <2>2, <3>4 DEF Effective
      <4>. QED
        BY <3>1, <3>2, <4>1, <4>2, <4>3
    <3>. QED
      BY <3>3, <3>4
  <2>. QED
    BY <2>1, <2>2
<1>6. TypeOK'
  <2>1. mem' \subseteq mem \cup {<<k, v>>}
    BY <1>3 DEF Table!Set
  <2>2. mem' \subseteq Keys \X Values
    BY <1>2, <2>1 DEF Inv, TypeOK
  <2>3. dup \/ Single(mem')
    <3>. SUFFICES ASSUME ~dup PROVE Single(mem')
      OBVIOUS
    <3>1. mem' = (mem \ {p \in mem : p[1] = k}) \cup {<<k, v>>} /\ Single(mem)
      BY <1>3 DEF Table!Set, Table!OfKey, Inv, TypeOK
    <3>. QED
      BY <3>1 DEF Single
  <2>4. Bounded(mem')
    <3>1. PICK b \in Nat : \A p \in mem : p[1] <= b /\ p[2] <= b
      BY DEF Inv, TypeOK, Bounded
    <3>2. \A p \in mem : p[1] \in Nat /\ p[2] \in Nat
      BY <1>4, Order DEF Pos
    <3>3. b + k + v \in Nat /\ \A p \in mem' : p[1] <= b + k + v /\ p[2] <= b + k + v
      BY <1>2, <2>1, <3>1, <3>2
    <3>. QED
      BY <3>3 DEF Bounded
  <2>5. TypeOK /\ UNCHANGED <<dup, base, cleared>>
    BY <1>1, <1>3 DEF Inv
  <2>. QED
    BY <2>2, <2>3, <2>4, <2>5 DEF TypeOK, Single, Bounded, ConstantsFit, Keys, Values
<1>7. CursorOK' /\ Table!Write(Table!Set(Effective, k, v))
  BY <1>1, <1>5, WriteStep
<1>. QED
  BY <1>2, <1>6, <1>7 DEF Inv, Table!Put

LEMMA DeleteKeyStep ==
  ASSUME Inv, NEW k \in Keys, DeleteKey(k)
  PROVE  Inv' /\ Table!Delete
<1>1. /\ mem' = mem \ {p \in mem : p[1] = k} /\ deleted' = deleted \cup {k}
      /\ UNCHANGED <<dup, base, cleared>> /\ Written
  BY DEF DeleteKey, Table!Unset, Table!OfKey, Written
<1>2. Effective' = Table!Unset(Effective, k)
  <2>1. Table!Unset(Effective, k) = {p \in Effective : p[1] # k}
    BY DEF Table!Unset, Table!OfKey
  <2>2. CASE cleared
    BY <1>1, <2>1, <2>2 DEF Effective
  <2>3. CASE ~cleared
    <3>1. ASSUME NEW p \in base, p[1] # k
          PROVE  (\A q \in mem' : q[1] # p[1]) <=> (\A q \in mem : q[1] # p[1])
      BY <1>1, <3>1
    <3>. QED
      BY <1>1, <2>1, <2>3, <3>1 DEF Effective
  <2>. QED
    BY <2>2, <2>3
<1>3. TypeOK'
  BY <1>1 DEF Inv, TypeOK, Single, Bounded, ConstantsFit, Keys, Values
<1>4. CursorOK' /\ Table!Write(Table!Unset(Effective, k))
  BY <1>1, <1>2, WriteStep
<1>. QED
  BY <1>3, <1>4 DEF Inv, Table!Delete

\* The cursor is on a pair of the table, of which DeleteCurrentDuplicates deletes the key.
LEMMA DeleteCurrentStep ==
  ASSUME Inv, DeleteCurrentDuplicates
  PROVE  Inv' /\ Table!Delete
<1>1. mode # "none" /\ DeleteKey(Current[1])
  BY DEF DeleteCurrentDuplicates
<1>2. Current = out /\ out \in Effective
  BY <1>1 DEF Inv, CursorOK, Current
<1>3. Current[1] \in Keys
  BY <1>2, EffectiveType DEF Inv
<1>. QED
  BY <1>1, <1>3, DeleteKeyStep

LEMMA ClearBucketStep == ASSUME Inv, ClearBucket PROVE Inv' /\ Table!ClearBucket
<1>1. cleared' = TRUE /\ mem' = {} /\ UNCHANGED <<dup, base, deleted>> /\ Written
  BY DEF ClearBucket, Written
<1>2. Effective' = {}
  BY <1>1 DEF Effective
<1>3. Single(mem') /\ Bounded(mem')
  BY <1>1 DEF Single, Bounded
<1>4. TypeOK'
  BY <1>1, <1>3 DEF Inv, TypeOK, Single, Bounded, ConstantsFit, Keys, Values
<1>. QED
  BY <1>1, <1>2, <1>4, WriteStep DEF Inv, Table!ClearBucket

\* Flush leaves the table as it was seen.
LEMMA FlushStep == ASSUME Inv, Flush PROVE Inv' /\ Table!Flush
<1>1. base' = Flushed /\ mem' = {} /\ deleted' = {} /\ cleared' = FALSE /\ dup' = dup /\ Written
  BY DEF Flush, Written
<1>2. Flushed = Effective
  BY DEF Flushed, Effective
<1>3. Effective' = Effective
  BY <1>1, <1>2 DEF Effective
<1>4. TypeOK'
  <2>1. Effective \subseteq Keys \X Values /\ (dup \/ Single(Effective))
    BY EffectiveType DEF Inv
  <2>2. Bounded(Effective)
    BY EffectiveBounded DEF Inv
  <2>3. Single(mem') /\ Bounded(mem')
    BY <1>1 DEF Single, Bounded
  <2>. QED
    BY <1>1, <1>2, <2>1, <2>2, <2>3 DEF Inv, TypeOK, Single, Bounded, ConstantsFit, Keys, Values
<1>. QED
  BY <1>1, <1>3, <1>4, WriteStep DEF Inv, Table!Flush
-----------------------------------------------------------------------------
(* The theorems.                                                           *)

LEMMA InvInit == Init => Inv /\ Table!Init
<1>. SUFFICES ASSUME Init PROVE Inv /\ Table!Init
  OBVIOUS
<1>1. Effective = {}
  BY DEF Init, Effective
<1>2. Single({}) /\ Bounded({})
  BY DEF Single, Bounded
<1>3. Inv
  BY <1>2 DEF Init, Inv, TypeOK, CursorOK
<1>4. Table!IsTable({}) /\ {} \in SUBSET Table!Pairs
  BY DEF Table!IsTable
<1>5. Table!Init
  BY <1>1, <1>4 DEF Init, Table!Init, Nil, Table!Nil
<1>. QED
  BY <1>3, <1>5

LEMMA InvStep == Inv /\ [Step]_vars => Inv' /\ [Table!Step]_(Table!vars)
<1>. SUFFICES ASSUME Inv, [Step]_vars PROVE Inv' /\ [Table!Step]_(Table!vars)
  OBVIOUS
<1>1. CASE Put
  BY <1>1, PutStep DEF Table!Step
<1>2. CASE Delete
  BY <1>2, DeleteKeyStep DEF Delete, Table!Step
<1>3. CASE DeleteCurrentDuplicates
  BY <1>3, DeleteCurrentStep DEF Table!Step
<1>4. CASE ClearBucket
  BY <1>4, ClearBucketStep DEF Table!Step
<1>5. CASE First
  BY <1>5, FirstStep DEF Table!Step
<1>6. CASE Seek
  BY <1>6, SeekStep DEF Table!Step
<1>7. CASE Next
  BY <1>7, AdvanceStep DEF Next, Table!Step
<1>8. CASE SeekBothRange
  BY <1>8, SeekBothRangeStep DEF Table!Step
<1>9. CASE NextDup
  BY <1>9, AdvanceStep DEF NextDup, Table!Step
<1>10. CASE SeekExact
  BY <1>10, SeekExactStep DEF Table!Step
<1>11. CASE Last
  BY <1>11, LastStep DEF Table!Step
<1>12. CASE Flush
  BY <1>12, FlushStep DEF Table!Step
<1>13. CASE UNCHANGED vars
  <2>1. UNCHANGED tables /\ UNCHANGED <<cur, mode, out>>
    BY <1>13 DEF vars, tables
  <2>2. TypeOK' /\ UNCHANGED <<dup, Effective>>
    BY <2>1, AnswerKeeps DEF Inv
  <2>3. UNCHANGED Onward /\ UNCHANGED Visible
    BY <1>13 DEF vars, Onward, Visible
  <2>4. CursorOK'
    BY <1>13, <2>2, <2>3 DEF vars, Inv, CursorOK
  <2>. QED
    BY <2>1, <2>2, <2>4 DEF Inv, Table!vars
<1>. QED
  BY <1>1, <1>2, <1>3, <1>4, <1>5, <1>6, <1>7, <1>8, <1>9, <1>10, <1>11, <1>12, <1>13 DEF Step

\* memory_mutation.go, memory_mutation_cursor.go: whatever was put, deleted, cleared and
\* flushed before, the cursor meets the pairs of one table, in order, each of them and no
\* other, and GetOne finds what is there.
THEOREM ViewIsATable == Spec => RefinesTable
<1>1. Inv /\ [Step]_vars => Inv' /\ [Table!Step]_(Table!vars)
  BY InvStep
<1>. QED
  BY <1>1, InvInit, PTL DEF Spec, RefinesTable, Table!Spec

\* memoryMutationCursor.Last: it answers the last pair of the table unless the last key of
\* the database was deleted.
THEOREM LastAnswersLast == Spec => LastIsLast
<1>1. Inv /\ [Step]_vars => Inv' /\ [Last => LastDeleted \/ out' = Table!Greatest(Effective)]_vars
  BY InvStep, LastStep
<1>2. Init => Inv
  BY InvInit
<1>. QED
  BY <1>1, <1>2, PTL DEF Spec, LastIsLast
=============================================================================
