--------------------------- MODULE RemoteKvProofs ---------------------------
(***************************************************************************)
(* Remote reads are right for any number of clients, keys, commits and     *)
(* renewals: RemoteKv.RemoteReads.                                         *)
(*                                                                         *)
(* A walk: as long as no tick has found the cursor on no key, the cursor   *)
(* is on the last key the walk was given (WalkOK), and the transaction     *)
(* behind it sees every key that was stored all the time (TxOK).  The      *)
(* transactions: only the one in s.txs is live, and whatever a request or  *)
(* a Range call may use is live unless mayDie (TxOK).                      *)
(***************************************************************************)
EXTENDS RemoteKv, TLAPS, FiniteSetTheorems, SequenceTheorems, WellFoundedInduction

Object == [snap : SUBSET Keys, live : BOOLEAN]
Objects == Seq(Object)
Walks == Seq(Nat)

\* The live ones among the objects of a client.
LiveOf(o) == {i \in 1 .. Len(o) : o[i].live}
Holders == {c \in Clients : call[c] \in {"acquired", "open"}}

TypeOK ==
  /\ ConstantsFit
  /\ stored \subseteq Keys
  /\ call \in [Clients -> {"idle", "acquired", "open", "over"}]
  /\ stream \in [Clients -> {"none", "serving", "broken"}]
  /\ objects \in [Clients -> Objects] /\ entry \in [Clients -> Nat]
  /\ cursor \in [Clients -> 0 .. End] /\ unary \in [Clients -> Nat]
  /\ got \in [Clients -> Walks] /\ steady \in [Clients -> SUBSET Keys]
  /\ slipped \in [Clients -> BOOLEAN] /\ dead \in BOOLEAN /\ mayDie \in BOOLEAN

TxOK(c) ==
  /\ call[c] \in {"idle", "acquired"} =>
       unary[c] = 0 /\ stream[c] = "none" /\ got[c] = <<>> /\ cursor[c] = 0
  /\ entry[c] # 0 <=> stream[c] # "none"
  /\ entry[c] # 0 => entry[c] = Len(objects[c]) /\ steady[c] \subseteq objects[c][entry[c]].snap
  /\ steady[c] \subseteq stored
  /\ unary[c] <= Len(objects[c])
  /\ LiveOf(objects[c]) \subseteq {entry[c]}
  /\ entry[c] # 0 /\ entry[c] \notin LiveOf(objects[c]) => mayDie
  /\ unary[c] # 0 /\ unary[c] \notin LiveOf(objects[c]) => mayDie

\* The walk w goes up and has all of K up to its last key, or is at an end.
Rises(w) == \A i \in 1 .. Len(w) - 1 : w[i] < w[i + 1]
Has(w, K) == \A k \in K : k <= w[Len(w)] => \E i \in 1 .. Len(w) : w[i] = k
Goes(w, K) == Rises(w) /\ (w = <<End>> \/ Has(w, K))

WalkOK(c) ==
  ~slipped[c] =>
    /\ got[c] = <<>> => cursor[c] = 0
    /\ got[c] # <<>> => /\ Goes(got[c], steady[c])
                        /\ got[c] = <<End>> \/ cursor[c] = got[c][Len(got[c])]

Inv ==
  /\ TypeOK /\ slots = Cardinality(Holders) /\ NoneUsedDead
  /\ \A c \in Clients : TxOK(c) /\ WalkOK(c)
-----------------------------------------------------------------------------
(* Keys.                                                                   *)

LEMMA KeysBelow ==
  ASSUME ConstantsFit
  PROVE  End \in Nat /\ End > 0 /\ Keys \subseteq Nat /\ \A k \in Keys : 0 < k /\ k < End
BY DEF ConstantsFit, End

LEMMA LeastExists ==
  ASSUME NEW S, S \subseteq Nat, S # {}
  PROVE  \E j \in S : \A i \in S : j <= i
<1>1. PICK j \in S : \A i \in S : <<i, j>> \notin OpToRel(<, Nat)
  BY NatLessThanWellFounded, WFMin, Zenon
<1>2. \A i \in S : ~(i < j)
  BY <1>1, Zenon DEF OpToRel
<1>. QED
  BY <1>2

LEMMA Least ==
  ASSUME ConstantsFit, NEW S, S \subseteq Keys
  PROVE  /\ S = {} => LeastOf(S) = End
         /\ S # {} => LeastOf(S) \in S /\ \A j \in S : LeastOf(S) <= j
         /\ LeastOf(S) \in 0 .. End /\ LeastOf(S) # 0
<1>1. End \in Nat /\ End > 0 /\ S \subseteq Nat /\ \A k \in S : 0 < k /\ k < End
  BY KeysBelow
<1>2. CASE S = {}
  BY <1>1, <1>2 DEF LeastOf
<1>3. CASE S # {}
  <2>3. \E k \in S : \A i \in S : k <= i
    BY <1>1, <1>3, LeastExists, Zenon
  <2>4. LeastOf(S) = CHOOSE k \in S : \A i \in S : k <= i
    BY <1>3 DEF LeastOf
  <2>5. LeastOf(S) \in S /\ \A i \in S : LeastOf(S) <= i
    BY <2>3, <2>4, Zenon
  <2>6. LeastOf(S) \in 0 .. End /\ LeastOf(S) # 0
    <3>1. \A k \in S : k \in 0 .. End /\ k # 0
      BY <1>1
    <3>. QED
      BY <2>5, <3>1, Zenon
  <2>. QED
    BY <1>3, <2>5, <2>6, Zenon
<1>. QED
  BY <1>2, <1>3

LEMMA GreatestInRange ==
  ASSUME ConstantsFit, NEW S, S \subseteq Keys
  PROVE  GreatestOf(S) \in 0 .. End
<1>1. End \in Nat /\ End > 0 /\ S \subseteq 0 .. End /\ S \subseteq Nat
  BY KeysBelow
<1>2. CASE S = {}
  BY <1>1, <1>2 DEF GreatestOf
<1>3. CASE S # {}
  <2>. DEFINE D == {End - k : k \in S}
  <2>1. D \subseteq Nat /\ D # {}
    <3>1. \A k \in S : End - k \in Nat
      BY <1>1
    <3>. QED
      BY <1>3, <3>1, Zenon
  <2>3. PICK j \in D : \A i \in D : j <= i
    BY <2>1, LeastExists, Zenon
  <2>4. PICK k \in S : j = End - k
    BY <2>3
  <2>5. \A i \in S : End - i \in D
    OBVIOUS
  <2>6. \A i \in S : k >= i
    BY <1>1, <2>3, <2>4, <2>5
  <2>7. \E g \in S : \A i \in S : g >= i
    BY <2>6
  <2>8. GreatestOf(S) = CHOOSE g \in S : \A i \in S : g >= i
    BY <1>3 DEF GreatestOf
  <2>9. GreatestOf(S) \in S
    BY <2>7, <2>8, Zenon
  <2>. QED
    BY <1>1, <2>9, Zenon
<1>. QED
  BY <1>2, <1>3
-----------------------------------------------------------------------------
(* Objects.                                                                *)

LEMMA Fields ==
  ASSUME NEW x \in Object
  PROVE  /\ x.snap \subseteq Keys
         /\ [x EXCEPT !.live = FALSE] \in Object /\ [x EXCEPT !.live = FALSE].snap = x.snap
         /\ ~[x EXCEPT !.live = FALSE].live
  BY Zenon DEF Object

LEMMA OneMore == \A m, n \in Nat : m <= n => m <= n + 1 /\ n + 1 # 0
OBVIOUS

LEMMA NewObject ==
  ASSUME NEW S, S \subseteq Keys, NEW x, x = [snap |-> S, live |-> TRUE]
  PROVE  /\ x \in Object /\ x.snap = S /\ x.live
         /\ <<x>> \in Objects /\ Len(<<x>>) = 1 /\ <<x>>[1] = x /\ LiveOf(<<x>>) = {1}
<1>1. x \in Object /\ x.snap = S /\ x.live
  BY DEF Object
<1>2. <<x>> \in Objects /\ Len(<<x>>) = 1 /\ <<x>>[1] = x
  BY <1>1 DEF Objects
<1>3. LiveOf(<<x>>) = {1}
  BY <1>1, <1>2 DEF LiveOf
<1>. QED
  BY <1>1, <1>2, <1>3, Zenon

Put(o, e, y) == [o EXCEPT ![e] = y]

LEMMA Replaced ==
  ASSUME NEW o \in Objects, NEW e \in 1 .. Len(o), NEW y \in Object
  PROVE  /\ Put(o, e, y) \in Objects /\ Len(Put(o, e, y)) = Len(o)
         /\ \A j \in 1 .. Len(o) : Put(o, e, y)[j] = IF j = e THEN y ELSE o[j]
BY ExceptSeq DEF Put, Objects

\* One of them is rolled back.
LEMMA Killed ==
  ASSUME NEW o \in Objects, NEW e \in 1 .. Len(o), NEW p, p = [o EXCEPT ![e].live = FALSE]
  PROVE  /\ p \in Objects /\ Len(p) = Len(o) /\ LiveOf(p) = LiveOf(o) \ {e}
         /\ p[e].snap = o[e].snap
<1>. DEFINE y == [o[e] EXCEPT !.live = FALSE]
<1>1. o[e] \in Object
  BY ElementOfSeq DEF Objects
<1>2. y \in Object /\ y.snap = o[e].snap /\ ~y.live
  BY <1>1, Fields
<1>3. p = Put(o, e, y)
  BY DEF Put
<1>. HIDE DEF y
<1>4. /\ p \in Objects /\ Len(p) = Len(o)
      /\ \A j \in 1 .. Len(o) : p[j] = IF j = e THEN y ELSE o[j]
  <2>1. /\ Put(o, e, y) \in Objects /\ Len(Put(o, e, y)) = Len(o)
        /\ \A j \in 1 .. Len(o) : Put(o, e, y)[j] = IF j = e THEN y ELSE o[j]
    <3>1. o \in Objects /\ e \in 1 .. Len(o) /\ y \in Object
      BY <1>2
    <3>. QED
      BY ONLY <3>1, Replaced, SMT
  <2>. QED
    BY <1>3, <2>1, Zenon
<1>5. p[e] = y /\ \A j \in 1 .. Len(o) : j # e => p[j] = o[j]
  BY <1>4
<1>6. LiveOf(p) = LiveOf(o) \ {e}
  BY <1>2, <1>4, <1>5, Zenon DEF LiveOf
<1>. QED
  BY <1>2, <1>4, <1>5, <1>6, Zenon

\* And one that is new comes after it.
LEMMA Reopened ==
  ASSUME NEW p \in Objects, NEW x \in Object, x.live, NEW q, q = Append(p, x)
  PROVE  /\ q \in Objects /\ Len(q) = Len(p) + 1 /\ LiveOf(q) = LiveOf(p) \cup {Len(p) + 1}
         /\ q[Len(p) + 1] = x
<1>1. /\ q \in Objects /\ Len(q) = Len(p) + 1 /\ q[Len(p) + 1] = x
      /\ \A i \in 1 .. Len(p) : q[i] = p[i]
  BY AppendProperties DEF Objects
<1>2. Len(p) \in Nat
  BY LenProperties DEF Objects
<1>3. 1 .. Len(q) = (1 .. Len(p)) \cup {Len(p) + 1}
  BY <1>1, <1>2
<1>4. LiveOf(q) = LiveOf(p) \cup {Len(p) + 1}
  BY <1>1, <1>3, Zenon DEF LiveOf
<1>. QED
  BY <1>1, <1>4

LEMMA LiveType ==
  ASSUME NEW o \in Objects
  PROVE  Len(o) \in Nat /\ LiveOf(o) \subseteq 1 .. Len(o) /\ LiveOf(<<>>) = {} /\ <<>> \in Objects
         /\ Len(<<>>) = 0 /\ \A i \in 1 .. Len(o) : o[i].snap \subseteq Keys
<1>1. Len(o) \in Nat
  BY LenProperties DEF Objects
<1>2. \A i \in 1 .. Len(o) : o[i] \in Object
  BY ElementOfSeq DEF Objects
<1>3. <<>> \in Objects /\ Len(<<>>) = 0
  BY EmptySeq DEF Objects
<1>4. LiveOf(<<>>) = {}
  BY <1>3 DEF LiveOf
<1>5. \A i \in 1 .. Len(o) : o[i].snap \subseteq Keys
  BY <1>2, Fields, Zenon
<1>. QED
  BY <1>1, <1>3, <1>4, <1>5 DEF LiveOf
-----------------------------------------------------------------------------
(* Walks.                                                                  *)

LEMMA WalkType ==
  ASSUME NEW w \in Walks
  PROVE  Len(w) \in Nat /\ DOMAIN w = 1 .. Len(w) /\ (\A i \in 1 .. Len(w) : w[i] \in Nat)
         /\ (w # <<>> => Len(w) >= 1) /\ <<>> \in Walks
<1>1. Len(w) \in Nat /\ DOMAIN w = 1 .. Len(w)
  BY LenProperties DEF Walks
<1>2. \A i \in 1 .. Len(w) : w[i] \in Nat
  BY ElementOfSeq DEF Walks
<1>3. w # <<>> => Len(w) # 0
  BY EmptySeq DEF Walks
<1>4. <<>> \in Walks
  BY EmptySeq DEF Walks
<1>. QED
  BY <1>1, <1>2, <1>3, <1>4

LEMMA OneKey ==
  ASSUME NEW k \in Nat
  PROVE  <<k>> \in Walks /\ Len(<<k>>) = 1 /\ <<k>>[1] = k /\ <<k>> # <<>>
  BY DEF Walks

LEMMA WalkEnds ==
  ASSUME End \in Nat, NEW K
  PROVE  Goes(<<End>>, K)
<1>1. Len(<<End>>) = 1
  BY OneKey
<1>. QED
  BY <1>1 DEF Goes, Rises, Has

LEMMA WalkStarts ==
  ASSUME ConstantsFit, NEW S, S \subseteq Keys, NEW K, K \subseteq S, NEW k, k = LeastOf(S)
  PROVE  k \in Nat /\ Goes(<<k>>, K)
<1>1. End \in Nat /\ Keys \subseteq Nat
  BY KeysBelow
<1>2. k \in Nat /\ (S = {} => k = End) /\ (S # {} => \A j \in S : k <= j)
  BY <1>1, Least, Zenon
<1>3. <<k>> \in Walks /\ Len(<<k>>) = 1 /\ <<k>>[1] = k
  BY <1>2, OneKey
<1>4. \A j \in K : j <= k => j = k
  BY <1>1, <1>2
<1>5. \A j \in K : j <= <<k>>[Len(<<k>>)] => \E i \in 1 .. Len(<<k>>) : <<k>>[i] = j
  <2>. SUFFICES ASSUME NEW j \in K, j <= k PROVE \E i \in 1 .. 1 : <<k>>[i] = j
    BY <1>3
  <2>1. 1 \in 1 .. 1 /\ <<k>>[1] = j
    BY <1>3, <1>4
  <2>. QED
    BY <2>1
<1>. QED
  BY <1>2, <1>3, <1>5 DEF Goes, Rises, Has

\* The walk w after NEXT on a transaction that sees S.
Above(S, p) == {j \in S : j > p}
NextKey(w, S) == LeastOf(Above(S, w[Len(w)]))
Longer(w, S) == Append(w, NextKey(w, S))

LEMMA WalkGoes ==
  ASSUME ConstantsFit, NEW S, S \subseteq Keys, NEW K, K \subseteq S,
         NEW w \in Walks, w # <<>>, Rises(w), Has(w, K), w[Len(w)] < End
  PROVE  /\ Longer(w, S) # <<>> /\ Longer(w, S)[Len(Longer(w, S))] = NextKey(w, S)
         /\ Goes(Longer(w, S), K)
<1>. DEFINE p == w[Len(w)]
            k == NextKey(w, S)
            v == Longer(w, S)
            T == Above(S, p)
<1>0. p = w[Len(w)] /\ p < End /\ k = LeastOf(T) /\ v = Append(w, k)
  BY DEF Longer, NextKey
<1>. HIDE DEF k, v
<1>1. End \in Nat /\ Keys \subseteq Nat /\ T \subseteq Keys
  BY KeysBelow DEF Above
<1>2. /\ Len(w) \in Nat /\ Len(w) >= 1 /\ p \in Nat /\ \A i \in 1 .. Len(w) : w[i] \in Nat
  BY WalkType
<1>3. k \in Nat /\ p < k /\ \A j \in T : k <= j
  <2>1. (T = {} => k = End) /\ (T # {} => k \in T /\ \A j \in T : k <= j)
    BY <1>0, <1>1, Least
  <2>. QED
    BY <1>0, <1>1, <1>2, <2>1, Zenon DEF Above
<1>4. /\ v \in Walks /\ v # <<>> /\ Len(v) = Len(w) + 1 /\ v[Len(w) + 1] = k
      /\ \A i \in 1 .. Len(w) : v[i] = w[i]
  BY <1>0, <1>3, AppendProperties DEF Walks
<1>5. \A i \in 1 .. Len(v) - 1 : v[i] < v[i + 1]
  <2>. SUFFICES ASSUME NEW i \in 1 .. Len(v) - 1 PROVE v[i] < v[i + 1]
    OBVIOUS
  <2>1. i \in 1 .. Len(w) /\ v[i] = w[i]
    BY <1>2, <1>4
  <2>2. CASE i = Len(w)
    BY <1>3, <1>4, <2>1, <2>2
  <2>3. CASE i # Len(w)
    <3>1. i \in 1 .. Len(w) - 1 /\ i + 1 \in 1 .. Len(w)
      BY <1>2, <2>1, <2>3
    <3>. QED
      BY <1>4, <2>1, <3>1 DEF Goes, Rises, Has
  <2>. QED
    BY <2>2, <2>3
<1>6. ASSUME NEW j \in K, j <= k PROVE \E i \in 1 .. Len(v) : v[i] = j
  <2>0. j \in Nat /\ j \in S
    BY <1>1
  <2>1. CASE j <= p
    <3>1. PICK i \in 1 .. Len(w) : w[i] = j
      BY <2>1 DEF Goes, Rises, Has
    <3>2. i \in 1 .. Len(v) /\ v[i] = j
      BY <1>2, <1>4, <3>1
    <3>. QED
      BY <3>2
  <2>2. CASE ~(j <= p)
    <3>1. j = k
      BY <1>2, <1>3, <1>6, <2>0, <2>2 DEF Above
    <3>2. Len(w) + 1 \in 1 .. Len(v)
      BY <1>2, <1>4
    <3>. QED
      BY <1>4, <3>1, <3>2
  <2>. QED
    BY <2>1, <2>2
<1>7. Goes(v, K) /\ v # <<>> /\ v[Len(v)] = k
  BY <1>4, <1>5, <1>6 DEF Goes, Rises, Has
<1>. QED
  BY <1>7 DEF k, v

\* Keys that are no longer stored are not looked for.
LEMMA WalkOfFewer ==
  ASSUME NEW w, NEW K, NEW L, L \subseteq K, Goes(w, K)
  PROVE  Goes(w, L)
BY DEF Goes, Rises, Has
-----------------------------------------------------------------------------
(* Steps.                                                                  *)

\* Nothing happens to client d.
Same(d) ==
  /\ call'[d] = call[d] /\ stream'[d] = stream[d] /\ objects'[d] = objects[d]
  /\ entry'[d] = entry[d] /\ cursor'[d] = cursor[d] /\ unary'[d] = unary[d]
  /\ got'[d] = got[d] /\ steady'[d] = steady[d] /\ slipped'[d] = slipped[d]

LEMMA SameKeeps ==
  ASSUME NEW d, Same(d), TxOK(d), WalkOK(d), stored' = stored, mayDie => mayDie'
  PROVE  TxOK(d)' /\ WalkOK(d)'
<1>1. TxOK(d)'
  BY DEF Same, TxOK
<1>2. WalkOK(d)'
  BY DEF Same, WalkOK
<1>. QED
  BY <1>1, <1>2

\* A step of one client.
LEMMA ClientStep ==
  ASSUME Inv, NEW c \in Clients, \A d \in Clients \ {c} : Same(d), stored' = stored,
         mayDie => mayDie', TypeOK', slots' = Cardinality(Holders'), NoneUsedDead',
         TxOK(c)', WalkOK(c)'
  PROVE  Inv'
<1>1. ASSUME NEW d \in Clients PROVE TxOK(d)' /\ WalkOK(d)'
  <2>1. CASE d = c
    BY <2>1, Zenon
  <2>2. CASE d # c
    <3>1. Same(d) /\ TxOK(d) /\ WalkOK(d)
      BY <2>2, Zenon DEF Inv
    <3>. QED
      BY <3>1, SameKeeps
  <2>. QED
    BY <2>1, <2>2
<1>. QED
  BY <1>1, Zenon DEF Inv

\* The limiter.
LEMMA SlotsKept ==
  ASSUME Inv, call' = call, slots' = slots
  PROVE  slots' = Cardinality(Holders')
BY DEF Inv, Holders

LEMMA SlotTaken ==
  ASSUME Inv, NEW c \in Clients, call[c] = "idle", call' = [call EXCEPT ![c] = "acquired"],
         slots' = slots + 1
  PROVE  slots' = Cardinality(Holders')
<1>1. IsFiniteSet(Holders) /\ slots = Cardinality(Holders) /\ c \notin Holders
  <2>1. IsFiniteSet(Clients) /\ Holders \subseteq Clients
    BY DEF Inv, TypeOK, ConstantsFit, Holders
  <2>. QED
    BY <2>1, FS_Subset DEF Inv, Holders
<1>2. Holders' = Holders \cup {c}
  BY DEF Holders, Inv, TypeOK
<1>. QED
  BY <1>1, <1>2, FS_AddElement, Zenon

LEMMA SlotGiven ==
  ASSUME Inv, NEW c \in Clients, call[c] \in {"acquired", "open"},
         call' = [call EXCEPT ![c] = "over"], slots' = slots - 1
  PROVE  slots' = Cardinality(Holders')
<1>1. IsFiniteSet(Holders) /\ slots = Cardinality(Holders) /\ c \in Holders
  <2>1. IsFiniteSet(Clients) /\ Holders \subseteq Clients
    BY DEF Inv, TypeOK, ConstantsFit, Holders
  <2>. QED
    BY <2>1, FS_Subset DEF Inv, Holders
<1>2. Holders' = Holders \ {c}
  BY DEF Holders, Inv, TypeOK
<1>. QED
  BY <1>1, <1>2, FS_RemoveElement, Zenon

LEMMA SlotMoves ==
  ASSUME Inv, NEW c \in Clients, NEW v,
         \/ call[c] = "idle" /\ v = "over"
         \/ call[c] = "acquired" /\ v = "open",
         call' = [call EXCEPT ![c] = v], slots' = slots
  PROVE  slots' = Cardinality(Holders')
<1>1. Holders' = Holders
  BY DEF Holders, Inv, TypeOK
<1>. QED
  BY <1>1 DEF Inv

\* What the invariant says of one client.
LEMMA OfClient ==
  ASSUME Inv, NEW c \in Clients
  PROVE  /\ TxOK(c) /\ WalkOK(c) /\ ConstantsFit /\ End \in Nat /\ End > 0
         /\ objects[c] \in Objects /\ Len(objects[c]) \in Nat
         /\ LiveOf(objects[c]) \subseteq 1 .. Len(objects[c])
         /\ entry[c] \in Nat /\ unary[c] \in Nat /\ cursor[c] \in 0 .. End /\ got[c] \in Walks
         /\ steady[c] \subseteq Keys /\ slipped[c] \in BOOLEAN
         /\ entry[c] # 0 => /\ entry[c] \in 1 .. Len(objects[c])
                            /\ objects[c][entry[c]].snap \subseteq Keys
<1>1. TxOK(c) /\ WalkOK(c) /\ TypeOK
  BY DEF Inv
<1>2. /\ ConstantsFit /\ objects[c] \in Objects /\ entry[c] \in Nat /\ unary[c] \in Nat
      /\ cursor[c] \in 0 .. End /\ got[c] \in Walks /\ steady[c] \subseteq Keys
      /\ slipped[c] \in BOOLEAN
  BY <1>1 DEF TypeOK
<1>3. /\ Len(objects[c]) \in Nat /\ LiveOf(objects[c]) \subseteq 1 .. Len(objects[c])
      /\ \A i \in 1 .. Len(objects[c]) : objects[c][i].snap \subseteq Keys
  BY <1>2, LiveType
<1>4. entry[c] # 0 => entry[c] \in 1 .. Len(objects[c])
  BY <1>1, <1>2, <1>3 DEF TxOK
<1>. QED
  BY <1>1, <1>2, <1>3, <1>4, KeysBelow

\* rollback.
LEMMA RolledBack ==
  ASSUME Inv, NEW c \in Clients, rollback(c)
  PROVE  /\ objects' \in [Clients -> Objects] /\ entry' \in [Clients -> Nat]
         /\ stream' \in [Clients -> {"none", "serving", "broken"}] /\ mayDie' \in BOOLEAN
         /\ \A d \in Clients \ {c} :
              objects'[d] = objects[d] /\ entry'[d] = entry[d] /\ stream'[d] = stream[d]
         /\ entry'[c] = 0 /\ stream'[c] = "none" /\ LiveOf(objects'[c]) = {}
         /\ Len(objects'[c]) = Len(objects[c])
         /\ mayDie => mayDie'
         /\ unary[c] # 0 => mayDie'
<1>0. TypeOK /\ TxOK(c)
  BY DEF Inv
<1>1. /\ entry' \in [Clients -> Nat] /\ stream' \in [Clients -> {"none", "serving", "broken"}]
      /\ \A d \in Clients \ {c} : entry'[d] = entry[d] /\ stream'[d] = stream[d]
      /\ entry'[c] = 0 /\ stream'[c] = "none"
  BY <1>0 DEF TypeOK, rollback
<1>2. mayDie' \in BOOLEAN /\ (mayDie => mayDie') /\ (unary[c] # 0 => mayDie')
  BY Zenon DEF rollback
<1>3. /\ objects' \in [Clients -> Objects] /\ LiveOf(objects'[c]) = {}
      /\ Len(objects'[c]) = Len(objects[c])
      /\ \A d \in Clients \ {c} : objects'[d] = objects[d]
  <2>1. CASE entry[c] = 0
    <3>1. objects' = objects
      BY <2>1 DEF rollback
    <3>2. LiveOf(objects[c]) = {}
      BY <1>0, <2>1, OfClient DEF TxOK
    <3>. QED
      BY <1>0, <3>1, <3>2 DEF TypeOK
  <2>2. CASE entry[c] # 0
    <3>. DEFINE p == [objects[c] EXCEPT ![entry[c]].live = FALSE]
    <3>1. objects' = [objects EXCEPT ![c] = p]
      BY <2>2 DEF rollback
    <3>2. p \in Objects /\ Len(p) = Len(objects[c]) /\ LiveOf(p) = LiveOf(objects[c]) \ {entry[c]}
      <4>. DEFINE o == objects[c]
                  e == entry[c]
      <4>1. o \in Objects /\ e \in 1 .. Len(o) /\ p = [o EXCEPT ![e].live = FALSE]
        BY <2>2, OfClient
      <4>. HIDE DEF o, e, p
      <4>2. p \in Objects /\ Len(p) = Len(o) /\ LiveOf(p) = LiveOf(o) \ {e}
        BY <4>1, Killed, Zenon
      <4>. QED
        BY <4>2 DEF o, e
    <3>3. LiveOf(p) = {}
      BY <1>0, <3>2 DEF TxOK
    <3>. HIDE DEF p
    <3>. QED
      BY <1>0, <3>1, <3>2, <3>3 DEF TypeOK
  <2>. QED
    BY <2>1, <2>2
<1>. QED
  BY <1>1, <1>2, <1>3

\* begin.
LEMMA Begun ==
  ASSUME Inv, NEW c \in Clients, begin(c)
  PROVE  /\ objects' \in [Clients -> Objects] /\ entry' \in [Clients -> Nat]
         /\ stream' \in [Clients -> {"none", "serving", "broken"}]
         /\ steady' \in [Clients -> SUBSET Keys]
         /\ \A d \in Clients \ {c} : /\ objects'[d] = objects[d] /\ entry'[d] = entry[d]
                                     /\ stream'[d] = stream[d] /\ steady'[d] = steady[d]
         /\ entry'[c] = 1 /\ stream'[c] = "serving" /\ steady'[c] = stored
         /\ Len(objects'[c]) = 1 /\ LiveOf(objects'[c]) = {1} /\ objects'[c][1].snap = stored
<1>0. TypeOK
  BY DEF Inv
<1>. DEFINE x == [snap |-> stored, live |-> TRUE]
<1>1. objects' = [objects EXCEPT ![c] = <<x>>]
  BY DEF begin
<1>2. /\ x.snap = stored /\ <<x>> \in Objects /\ Len(<<x>>) = 1 /\ <<x>>[1] = x
      /\ LiveOf(<<x>>) = {1}
  <2>1. stored \subseteq Keys /\ x = [snap |-> stored, live |-> TRUE]
    BY <1>0 DEF TypeOK
  <2>. HIDE DEF x
  <2>. QED
    BY <2>1, NewObject
<1>. HIDE DEF x
<1>. DEFINE o == <<x>>
<1>3. o \in Objects /\ Len(o) = 1 /\ o[1].snap = stored /\ LiveOf(o) = {1}
  BY <1>2
<1>4. objects' = [objects EXCEPT ![c] = o]
  BY <1>1
<1>. HIDE DEF o
<1>. QED
  <2>1. /\ objects' \in [Clients -> Objects] /\ objects'[c] = o
        /\ \A d \in Clients \ {c} : objects'[d] = objects[d]
    BY <1>0, <1>3, <1>4 DEF TypeOK
  <2>2. /\ entry' \in [Clients -> Nat] /\ entry'[c] = 1
        /\ \A d \in Clients \ {c} : entry'[d] = entry[d]
    BY <1>0 DEF TypeOK, begin
  <2>3. /\ stream' \in [Clients -> {"none", "serving", "broken"}] /\ stream'[c] = "serving"
        /\ \A d \in Clients \ {c} : stream'[d] = stream[d]
    BY <1>0 DEF TypeOK, begin
  <2>4. /\ steady' \in [Clients -> SUBSET Keys] /\ steady'[c] = stored
        /\ \A d \in Clients \ {c} : steady'[d] = steady[d]
    BY <1>0 DEF TypeOK, begin
  <2>. QED
    BY <1>3, <2>1, <2>2, <2>3, <2>4
-----------------------------------------------------------------------------
(* Every step keeps Inv.                                                   *)

LEMMA InitInv == Init => Inv
<1>. SUFFICES ASSUME Init PROVE Inv
  OBVIOUS
<1>1. <<>> \in Objects /\ <<>> \in Walks /\ Len(<<>>) = 0 /\ LiveOf(<<>>) = {}
  <2>1. <<>> \in Objects /\ <<>> \in Walks /\ Len(<<>>) = 0
    BY EmptySeq DEF Objects, Walks
  <2>. QED
    BY <2>1 DEF LiveOf
<1>2. End \in Nat
  BY KeysBelow DEF Init
<1>3. TypeOK
  <2>1. objects \in [Clients -> Objects] /\ got \in [Clients -> Walks]
    BY <1>1, Zenon DEF Init
  <2>2. cursor \in [Clients -> 0 .. End]
    BY <1>2 DEF Init
  <2>. QED
    BY <2>1, <2>2, Zenon DEF Init, TypeOK
<1>4. Holders = {}
  BY DEF Init, Holders
<1>5. slots = Cardinality(Holders)
  BY <1>4, FS_EmptySet DEF Init
<1>6. \A c \in Clients : TxOK(c) /\ WalkOK(c)
  BY <1>1 DEF Init, TxOK, WalkOK
<1>7. NoneUsedDead
  BY DEF Init, NoneUsedDead
<1>. QED
  BY <1>3, <1>5, <1>6, <1>7 DEF Inv

LEMMA CommitStep ==
  ASSUME Inv, NEW k \in Keys, Commits(k)
  PROVE  Inv'
<1>0. TypeOK
  BY DEF Inv
<1>1. stored' \subseteq Keys
  BY <1>0 DEF Commits, TypeOK
<1>2. /\ steady' \in [Clients -> SUBSET Keys]
      /\ \A c \in Clients : steady'[c] \subseteq steady[c] /\ steady'[c] \subseteq stored'
  BY <1>0, <1>1 DEF Commits, TypeOK
<1>3. TypeOK'
  BY <1>0, <1>1, <1>2 DEF Commits, TypeOK
<1>4. slots' = Cardinality(Holders')
  BY SlotsKept DEF Commits
<1>5. ASSUME NEW c \in Clients PROVE TxOK(c)' /\ WalkOK(c)'
  <2>1. TxOK(c) /\ WalkOK(c)
    BY DEF Inv
  <2>2. TxOK(c)'
    BY <1>2, <2>1 DEF Commits, TxOK
  <2>3. \A w : Goes(w, steady[c]) => Goes(w, steady'[c])
    BY <1>2, WalkOfFewer
  <2>4. WalkOK(c)'
    <3>1. \A w, K : Goes(w, K)' <=> Goes(w, K')
      BY DEF Goes, Rises, Has, End
    <3>. QED
      BY <2>1, <2>3, <3>1, Zenon DEF Commits, WalkOK, End
  <2>. QED
    BY <2>2, <2>4
<1>6. NoneUsedDead'
  BY DEF Inv, NoneUsedDead, Commits
<1>. QED
  BY <1>3, <1>4, <1>5, <1>6 DEF Inv

LEMMA BeginRoStep ==
  ASSUME Inv, NEW c \in Clients, BeginRo(c)
  PROVE  Inv'
<1>0. TypeOK /\ TxOK(c) /\ WalkOK(c)
  BY DEF Inv
<1>1. /\ call' \in [Clients -> {"idle", "acquired", "open", "over"}]
      /\ \A d \in Clients \ {c} : call'[d] = call[d]
      /\ call[c] = "idle"
  BY <1>0 DEF BeginRo, TypeOK
<1>2. TypeOK'
  BY <1>0, <1>1 DEF BeginRo, TypeOK
<1>3. \A d \in Clients \ {c} : Same(d)
  BY <1>1 DEF BeginRo, Same
<1>4. slots' = Cardinality(Holders')
  BY <1>1, SlotTaken, SlotMoves DEF BeginRo
<1>5. TxOK(c)'
  BY <1>0, <1>1 DEF BeginRo, TxOK
<1>6. WalkOK(c)'
  BY <1>0 DEF BeginRo, WalkOK
<1>7. NoneUsedDead'
  BY DEF Inv, NoneUsedDead, BeginRo
<1>8. stored' = stored /\ mayDie' = mayDie
  BY DEF BeginRo
<1>. QED
  BY <1>2, <1>3, <1>4, <1>5, <1>6, <1>7, <1>8, ClientStep

LEMMA OpenStreamStep ==
  ASSUME Inv, NEW c \in Clients, OpenStream(c)
  PROVE  Inv'
<1>0. TypeOK /\ TxOK(c) /\ WalkOK(c)
  BY DEF Inv
<1>1. /\ call' \in [Clients -> {"idle", "acquired", "open", "over"}]
      /\ \A d \in Clients \ {c} : call'[d] = call[d]
      /\ call[c] = "acquired" /\ call'[c] \in {"open", "over"}
      /\ stored' = stored /\ mayDie' = mayDie
  BY <1>0 DEF OpenStream, TypeOK
<1>2. NoneUsedDead'
  BY DEF Inv, NoneUsedDead, OpenStream
<1>3. CASE begin(c) /\ call' = [call EXCEPT ![c] = "open"] /\ UNCHANGED slots
  <2>1. TypeOK'
    BY <1>0, <1>1, <1>3, Begun DEF OpenStream, TypeOK
  <2>2. \A d \in Clients \ {c} : Same(d)
    BY <1>1, <1>3, Begun DEF OpenStream, Same
  <2>3. slots' = Cardinality(Holders')
    BY <1>1, <1>3, SlotMoves, Zenon
  <2>4. TxOK(c)'
    <3>1. /\ entry'[c] = 1 /\ stream'[c] = "serving" /\ steady'[c] = stored
          /\ Len(objects'[c]) = 1 /\ LiveOf(objects'[c]) = {1} /\ objects'[c][1].snap = stored
      BY <1>3, Begun, Zenon
    <3>2. unary'[c] = 0 /\ call'[c] = "open"
      BY <1>0, <1>1, <1>3, Zenon DEF OpenStream, TxOK, TypeOK
    <3>. QED
      BY <1>1, <3>1, <3>2 DEF TxOK
  <2>5. WalkOK(c)'
    BY <1>0, <1>1, Zenon DEF OpenStream, WalkOK, TxOK
  <2>. QED
    BY <1>1, <1>2, <2>1, <2>2, <2>3, <2>4, <2>5, ClientStep, Zenon
<1>4. CASE /\ call' = [call EXCEPT ![c] = "over"] /\ slots' = slots - 1
           /\ UNCHANGED <<objects, entry, stream, steady>>
  <2>1. TypeOK'
    BY <1>0, <1>1, <1>4 DEF OpenStream, TypeOK
  <2>2. \A d \in Clients \ {c} : Same(d)
    BY <1>1, <1>4 DEF OpenStream, Same
  <2>3. slots' = Cardinality(Holders')
    BY <1>1, <1>4, SlotGiven, Zenon
  <2>4. TxOK(c)'
    BY <1>0, <1>1, <1>4, Zenon DEF OpenStream, TxOK
  <2>5. WalkOK(c)'
    BY <1>0, <1>1, <1>4 DEF OpenStream, WalkOK
  <2>. QED
    BY <1>1, <1>2, <2>1, <2>2, <2>3, <2>4, <2>5, ClientStep
<1>. QED
  BY <1>3, <1>4 DEF OpenStream

LEMMA RollbackStep ==
  ASSUME Inv, NEW c \in Clients, Rollback(c)
  PROVE  Inv'
<1>0. TypeOK /\ TxOK(c) /\ NoneUsedDead
  BY DEF Inv
<1>1. /\ call' \in [Clients -> {"idle", "acquired", "open", "over"}]
      /\ cursor' \in [Clients -> 0 .. End] /\ got' \in [Clients -> Walks]
      /\ steady' \in [Clients -> SUBSET Keys] /\ slipped' \in [Clients -> BOOLEAN]
      /\ call[c] = "open" /\ call'[c] = "over" /\ cursor'[c] = 0 /\ got'[c] = <<>>
      /\ steady'[c] = {} /\ stored' = stored /\ dead' = dead /\ unary' = unary
  <2>1. 0 \in 0 .. End /\ <<>> \in Walks
    BY OfClient, WalkType
  <2>. QED
    BY <1>0, <2>1 DEF Rollback, TypeOK
<1>2. \A d \in Clients \ {c} : /\ call'[d] = call[d] /\ cursor'[d] = cursor[d]
                               /\ unary'[d] = unary[d] /\ got'[d] = got[d]
                               /\ steady'[d] = steady[d] /\ slipped'[d] = slipped[d]
  BY <1>0 DEF Rollback, TypeOK
<1>3. slots' = Cardinality(Holders')
  BY <1>1, SlotGiven, Zenon DEF Rollback
<1>4. WalkOK(c)'
  BY <1>1 DEF WalkOK
<1>5. CASE rollback(c)
  <2>1. TypeOK'
    BY <1>0, <1>1, <1>5, RolledBack DEF TypeOK
  <2>2. \A d \in Clients \ {c} : Same(d)
    BY <1>2, <1>5, RolledBack DEF Same
  <2>3. TxOK(c)'
    BY <1>0, <1>1, <1>5, RolledBack, Zenon DEF TxOK
  <2>4. NoneUsedDead' /\ (mayDie => mayDie')
    BY <1>0, <1>1, <1>5, RolledBack, Zenon DEF NoneUsedDead
  <2>. QED
    BY <1>1, <1>3, <1>4, <2>1, <2>2, <2>3, <2>4, ClientStep
<1>6. CASE /\ stream[c] = "serving" /\ stream' = [stream EXCEPT ![c] = "broken"]
           /\ UNCHANGED <<objects, entry, mayDie>>
  <2>1. TypeOK'
    BY <1>0, <1>1, <1>6, Zenon DEF TypeOK
  <2>2. \A d \in Clients \ {c} : Same(d)
    BY <1>0, <1>2, <1>6, Zenon DEF Same, TypeOK
  <2>3. TxOK(c)'
    BY <1>0, <1>1, <1>6 DEF TxOK, TypeOK
  <2>4. NoneUsedDead' /\ (mayDie => mayDie')
    BY <1>0, <1>1, <1>6 DEF NoneUsedDead
  <2>. QED
    BY <1>1, <1>3, <1>4, <2>1, <2>2, <2>3, <2>4, ClientStep
<1>. QED
  BY <1>5, <1>6 DEF Rollback

LEMMA StreamEndsStep ==
  ASSUME Inv, NEW c \in Clients, StreamEnds(c)
  PROVE  Inv'
<1>0. TypeOK /\ TxOK(c) /\ WalkOK(c) /\ NoneUsedDead /\ rollback(c) /\ call' = call
  BY DEF Inv, StreamEnds
<1>1. TypeOK'
  BY <1>0, RolledBack DEF TypeOK, StreamEnds
<1>2. \A d \in Clients \ {c} : Same(d)
  BY <1>0, RolledBack DEF Same, StreamEnds
<1>3. TxOK(c)'
  BY <1>0, RolledBack, Zenon DEF TxOK, StreamEnds
<1>4. NoneUsedDead' /\ (mayDie => mayDie')
  BY <1>0, RolledBack DEF NoneUsedDead, StreamEnds
<1>5. WalkOK(c)'
  BY <1>0 DEF WalkOK, StreamEnds
<1>6. slots' = Cardinality(Holders') /\ stored' = stored
  BY SlotsKept, Zenon DEF StreamEnds
<1>. QED
  BY <1>1, <1>2, <1>3, <1>4, <1>5, <1>6, ClientStep

LEMMA RangeLooksUpStep ==
  ASSUME Inv, NEW c \in Clients, RangeLooksUp(c)
  PROVE  Inv'
<1>0. TypeOK /\ TxOK(c) /\ WalkOK(c) /\ NoneUsedDead
  BY DEF Inv
<1>1. /\ unary' \in [Clients -> Nat] /\ unary'[c] = entry[c]
      /\ \A d \in Clients \ {c} : unary'[d] = unary[d]
  BY <1>0 DEF RangeLooksUp, TypeOK
<1>2. TypeOK'
  BY <1>0, <1>1, Zenon DEF TypeOK, RangeLooksUp
<1>3. \A d \in Clients \ {c} : Same(d)
  BY <1>1, Zenon DEF Same, RangeLooksUp
<1>4. TxOK(c)'
  BY <1>0, <1>1, OfClient DEF TxOK, RangeLooksUp
<1>5. NoneUsedDead' /\ (mayDie => mayDie')
  BY <1>0 DEF NoneUsedDead, RangeLooksUp
<1>6. WalkOK(c)'
  BY <1>0, Zenon DEF WalkOK, RangeLooksUp
<1>7. slots' = Cardinality(Holders') /\ stored' = stored
  BY SlotsKept, Zenon DEF RangeLooksUp
<1>. QED
  BY <1>2, <1>3, <1>4, <1>5, <1>6, <1>7, ClientStep

LEMMA RangeReadsStep ==
  ASSUME Inv, NEW c \in Clients, RangeReads(c)
  PROVE  Inv'
<1>0. TypeOK /\ TxOK(c) /\ WalkOK(c) /\ NoneUsedDead
  BY DEF Inv
<1>1. /\ unary' \in [Clients -> Nat] /\ unary'[c] = 0
      /\ \A d \in Clients \ {c} : unary'[d] = unary[d]
  BY <1>0 DEF RangeReads, TypeOK
<1>2. dead' \in BOOLEAN
  BY Zenon DEF RangeReads
<1>3. TypeOK'
  BY <1>0, <1>1, <1>2, Zenon DEF TypeOK, RangeReads
<1>4. \A d \in Clients \ {c} : Same(d)
  BY <1>1, Zenon DEF Same, RangeReads
<1>5. TxOK(c)'
  BY <1>0, <1>1, OfClient DEF TxOK, RangeReads
<1>6. ~objects[c][unary[c]].live => mayDie
  <2>1. unary[c] # 0 /\ unary[c] \in 1 .. Len(objects[c])
    BY <1>0, OfClient DEF TxOK, RangeReads
  <2>2. unary[c] \in LiveOf(objects[c]) => objects[c][unary[c]].live
    BY DEF LiveOf
  <2>. QED
    BY <1>0, <2>1, <2>2, Zenon DEF TxOK
<1>7. NoneUsedDead' /\ (mayDie => mayDie')
  BY <1>0, <1>6, Zenon DEF NoneUsedDead, RangeReads
<1>8. WalkOK(c)'
  BY <1>0 DEF WalkOK, RangeReads
<1>9. slots' = Cardinality(Holders') /\ stored' = stored
  BY SlotsKept DEF RangeReads
<1>. QED
  BY <1>3, <1>4, <1>5, <1>7, <1>8, <1>9, ClientStep

\* Where the cursor goes is a place.
LEMMA MovedType ==
  ASSUME ConstantsFit, NEW S, S \subseteq Keys, NEW p \in 0 .. End,
         NEW op \in {"FIRST", "LAST", "NEXT", "CURRENT"}
  PROVE  Moved(op, S, p) \in 0 .. End
<1>1. LeastOf(S) \in 0 .. End /\ GreatestOf(S) \in 0 .. End
  BY Least, GreatestInRange
<1>2. LeastOf({k \in S : k > p}) \in 0 .. End
  <2>1. {k \in S : k > p} \subseteq Keys
    OBVIOUS
  <2>. QED
    BY <2>1, Least
<1>3. End \in 0 .. End
  BY KeysBelow
<1>. QED
  BY <1>1, <1>2, <1>3 DEF Moved, first, last, next, getCurrent

\* A request keeps the walk right, on a transaction that sees all that is steady.
LEMMA ServedWalk ==
  ASSUME Inv, NEW c \in Clients, NEW op \in {"FIRST", "LAST", "NEXT", "CURRENT"},
         op = "NEXT" => ~Over(got[c]), entry[c] # 0,
         NEW S, S = Seen(c), NEW k, k = Moved(op, S, cursor[c]),
         NEW w, w = Walked(got[c], op, k), op # "FIRST" => ~slipped[c]
  PROVE  /\ w = <<>> => k = 0
         /\ w # <<>> => Goes(w, steady[c]) /\ (w = <<End>> \/ k = w[Len(w)])
<1>0. /\ TxOK(c) /\ WalkOK(c) /\ ConstantsFit /\ got[c] \in Walks /\ cursor[c] \in 0 .. End
      /\ S \subseteq Keys /\ steady[c] \subseteq S /\ End \in Nat /\ Keys \subseteq Nat
  BY OfClient, KeysBelow, Zenon DEF TxOK, Seen
<1>1. CASE op = "FIRST"
  <2>1. k = LeastOf(S) /\ w = <<k>>
    BY <1>1, Zenon DEF Moved, Walked, first
  <2>2. k \in Nat /\ Goes(<<k>>, steady[c])
    BY <1>0, <2>1, WalkStarts, Zenon
  <2>. QED
    BY <2>1, <2>2, OneKey, Zenon
<1>2. CASE op = "LAST"
  <2>1. w = <<End>>
    BY <1>2 DEF Walked
  <2>. QED
    BY <1>0, <2>1, WalkEnds, OneKey
<1>3. CASE op = "CURRENT"
  <2>1. k = cursor[c] /\ w = got[c]
    BY <1>3, Zenon DEF Moved, Walked, getCurrent
  <2>. QED
    BY <1>0, <1>3, <2>1, Zenon DEF WalkOK
<1>4. CASE op = "NEXT"
  <2>1. k = next(S, cursor[c]) /\ w = Append(got[c], k)
    BY <1>4 DEF Moved, Walked
  <2>2. CASE got[c] = <<>>
    <3>1. cursor[c] = 0
      BY <1>0, <1>4, <2>2, Zenon DEF WalkOK
    <3>2. {j \in S : j > 0} = S /\ End # 0
      <4>1. \A j \in S : j > 0
        BY <1>0, KeysBelow, Zenon
      <4>2. End # 0
        BY <1>0, KeysBelow
      <4>. QED
        BY <4>1, <4>2, Zenon
    <3>3. k = LeastOf(S)
      BY <2>1, <3>1, <3>2, Zenon DEF next
    <3>4. k \in Nat /\ Goes(<<k>>, steady[c])
      BY <1>0, <3>3, WalkStarts, Zenon
    <3>5. w = <<k>>
      BY <2>1, <2>2
    <3>. QED
      BY <3>4, <3>5, OneKey, Zenon
  <2>3. CASE got[c] # <<>>
    <3>. DEFINE g == got[c]
                p == cursor[c]
    <3>1. g \in Walks /\ g # <<>> /\ Goes(g, steady[c]) /\ g[Len(g)] # End
      BY <1>0, <1>4, <2>3, Zenon DEF WalkOK, Over
    <3>2. g # <<End>>
      BY <1>0, <3>1, OneKey, Zenon
    <3>3. p = g[Len(g)] /\ p < End
      BY <1>0, <1>4, <2>3, <3>1, <3>2, SMTT(30) DEF WalkOK
    <3>4. k = LeastOf({j \in S : j > p}) /\ w = Append(g, k)
      BY <1>0, <2>1, <3>3 DEF next
    <3>. DEFINE K == steady[c]
    <3>5. K \subseteq S /\ Goes(g, K) /\ k = LeastOf(Above(S, p))
      BY <1>0, <3>1, <3>4, Zenon DEF Above
    <3>. HIDE DEF K, g, p
    <3>6. w # <<>> /\ w[Len(w)] = k /\ Goes(w, K)
      <4>1. /\ ConstantsFit /\ S \subseteq Keys /\ K \subseteq S /\ g \in Walks /\ g # <<>>
            /\ Rises(g) /\ Has(g, K) /\ g[Len(g)] < End
        BY <1>0, <3>1, <3>2, <3>3, <3>5, Zenon DEF Goes
      <4>2. k = NextKey(g, S) /\ w = Longer(g, S)
        BY <3>3, <3>4, <3>5 DEF NextKey, Longer
      <4>3. /\ Longer(g, S) # <<>> /\ Longer(g, S)[Len(Longer(g, S))] = NextKey(g, S)
            /\ Goes(Longer(g, S), K)
        BY ONLY <4>1, WalkGoes, Zenon
      <4>. QED
        BY <4>2, <4>3, Zenon
    <3>. QED
      BY <3>6, Zenon DEF K
  <2>. QED
    BY <2>2, <2>3
<1>. QED
  BY <1>1, <1>2, <1>3, <1>4, Zenon

LEMMA WalkedType ==
  ASSUME End \in Nat, NEW w \in Walks, NEW k \in Nat,
         NEW op \in {"FIRST", "LAST", "NEXT", "CURRENT"}
  PROVE  Walked(w, op, k) \in Walks
<1>1. Append(w, k) \in Walks
  BY AppendProperties DEF Walks
<1>. QED
  BY <1>1, OneKey DEF Walked

LEMMA ServeStep ==
  ASSUME Inv, NEW c \in Clients, NEW op \in {"FIRST", "LAST", "NEXT", "CURRENT"}, Serve(c, op)
  PROVE  Inv'
<1>0. TypeOK /\ TxOK(c) /\ WalkOK(c) /\ NoneUsedDead
  BY Zenon DEF Inv
<1>1. /\ stored' = stored /\ mayDie' = mayDie /\ call' = call /\ stream' = stream
      /\ objects' = objects /\ entry' = entry /\ unary' = unary /\ steady' = steady
      /\ slots' = slots /\ entry[c] # 0
  BY <1>0 DEF Serve, TxOK
<1>2. slots' = Cardinality(Holders')
  BY <1>1, SlotsKept
<1>3. CASE Alive(c)
  <2>. DEFINE k == Moved(op, Seen(c), cursor[c])
              w == Walked(got[c], op, k)
              b == slipped[c] /\ op # "FIRST"
  <2>1. /\ cursor' = [cursor EXCEPT ![c] = k] /\ got' = [got EXCEPT ![c] = w]
        /\ slipped' = [slipped EXCEPT ![c] = b] /\ dead' = dead
        /\ op = "NEXT" => ~Over(got[c])
    BY <1>3 DEF Serve
  <2>2. k \in 0 .. End /\ k \in Nat
    <3>1. Seen(c) \subseteq Keys /\ ConstantsFit /\ cursor[c] \in 0 .. End /\ End \in Nat
      BY <1>1, OfClient DEF Seen
    <3>2. k \in 0 .. End
      BY <3>1, MovedType
    <3>. QED
      BY <3>1, <3>2, SMTT(30)
  <2>3. w \in Walks
    BY <2>2, OfClient, WalkedType, Zenon
  <2>4. b \in BOOLEAN
    BY Zenon
  <2>5. ~b => /\ w = <<>> => k = 0
              /\ w # <<>> => Goes(w, steady[c]) /\ (w = <<End>> \/ k = w[Len(w)])
    BY <1>1, <2>1, ServedWalk
  <2>. HIDE DEF k, w, b
  <2>6. TypeOK'
    BY <1>0, <1>1, <2>1, <2>2, <2>3, <2>4, Zenon DEF TypeOK
  <2>7. \A d \in Clients \ {c} : Same(d)
    BY <1>0, <1>1, <2>1, Zenon DEF Same, TypeOK
  <2>8. cursor'[c] = k /\ got'[c] = w /\ slipped'[c] = b /\ steady'[c] = steady[c]
    BY <1>0, <1>1, <2>1, Zenon DEF TypeOK
  <2>9. WalkOK(c)'
    BY <2>5, <2>8, Zenon DEF WalkOK
  <2>10. TxOK(c)'
    <3>1. call[c] = "open"
      BY Zenon DEF Serve
    <3>. QED
      BY <1>0, <1>1, <3>1, Zenon DEF TxOK
  <2>11. NoneUsedDead'
    BY <1>0, <1>1, <2>1 DEF NoneUsedDead
  <2>. QED
    BY <1>1, <1>2, <2>6, <2>7, <2>9, <2>10, <2>11, ClientStep, SMTT(30)
<1>4. CASE ~Alive(c)
  <2>1. dead' = TRUE /\ cursor' = cursor /\ got' = got /\ slipped' = slipped
    BY <1>4, Zenon DEF Serve
  <2>2. mayDie
    <3>1. entry[c] \notin LiveOf(objects[c])
      BY <1>4 DEF LiveOf, Alive
    <3>. QED
      BY <1>0, <1>1, <3>1 DEF TxOK
  <2>3. TypeOK'
    BY <1>0, <1>1, <2>1, Zenon DEF TypeOK
  <2>4. \A d \in Clients \ {c} : Same(d)
    BY <1>1, <2>1 DEF Same
  <2>5. TxOK(c)' /\ WalkOK(c)'
    <3>1. Same(c)
      BY <1>1, <2>1 DEF Same
    <3>. QED
      BY <1>0, <1>1, <3>1, SameKeeps
  <2>6. NoneUsedDead'
    BY <1>1, <2>2 DEF NoneUsedDead
  <2>. QED
    BY <1>1, <1>2, <2>3, <2>4, <2>5, <2>6, ClientStep, Zenon
<1>. QED
  BY <1>3, <1>4

\* The cursor is put back on its key when that is still stored.
LEMMA PutBack ==
  ASSUME ConstantsFit, NEW S, S \subseteq Keys, NEW p \in 0 .. End
  PROVE  Restored(S, p) \in 0 .. End /\ (p \in S => Restored(S, p) = p)
<1>. DEFINE T == {j \in S : j >= p}
<1>1. /\ End \in Nat /\ T \subseteq Keys /\ Keys \subseteq Nat /\ \A k \in Keys : 0 < k /\ k < End
  BY KeysBelow
<1>2. LeastOf(S) \in 0 .. End /\ LeastOf(T) \in 0 .. End
  BY <1>1, Least, Zenon
<1>3. ASSUME p \in S PROVE Restored(S, p) = p
  <2>1. p \in T /\ p \notin {0, End}
    BY <1>1, <1>3
  <2>2. LeastOf(T) \in T /\ LeastOf(T) <= p
    BY <1>1, <2>1, Least
  <2>3. LeastOf(T) = p
    <3>1. LeastOf(T) \in Nat /\ LeastOf(T) >= p
      BY <1>1, <2>2, Zenon
    <3>. QED
      BY <1>1, <2>2, <3>1
  <2>. QED
    BY <2>1, <2>3 DEF Restored, SeekTo
<1>. QED
  BY <1>2, <1>3 DEF Restored, SeekTo

LEMMA RenewStep ==
  ASSUME Inv, NEW c \in Clients, Renew(c)
  PROVE  Inv'
<1>0. TypeOK /\ TxOK(c) /\ WalkOK(c) /\ NoneUsedDead
  BY DEF Inv
<1>1. /\ stored' = stored /\ call' = call /\ unary' = unary /\ got' = got /\ steady' = steady
      /\ slots' = slots /\ dead' = dead /\ call[c] = "open" /\ stream[c] = "serving"
      /\ entry[c] # 0
  BY <1>0 DEF Renew, TxOK
<1>2. slots' = Cardinality(Holders')
  BY <1>1, SlotsKept
<1>. DEFINE o == objects[c]
            e == entry[c]
            p == [o EXCEPT ![e].live = FALSE]
<1>3. /\ o \in Objects /\ e \in 1 .. Len(o) /\ e = Len(o) /\ Len(o) \in Nat
      /\ p \in Objects /\ Len(p) = Len(o) /\ LiveOf(p) = {} /\ p[e].snap = o[e].snap
  <2>1. o \in Objects /\ e \in 1 .. Len(o) /\ e = Len(o) /\ Len(o) \in Nat
    BY <1>0, <1>1, OfClient DEF TxOK
  <2>2. /\ p \in Objects /\ Len(p) = Len(o) /\ LiveOf(p) = LiveOf(o) \ {e}
        /\ p[e].snap = o[e].snap
    BY <2>1, Killed
  <2>. QED
    BY <1>0, <2>1, <2>2, Zenon DEF TxOK
<1>. HIDE DEF p
<1>4. CASE /\ objects' = [objects EXCEPT ![c] =
                Append([@ EXCEPT ![entry[c]].live = FALSE], [snap |-> stored, live |-> TRUE])]
           /\ entry' = [entry EXCEPT ![c] = @ + 1]
           /\ cursor' = [cursor EXCEPT ![c] = Restored(stored, @)]
           /\ slipped' = [slipped EXCEPT ![c] = @ \/ cursor[c] \notin stored]
           /\ mayDie' = (mayDie \/ unary[c] # 0)
           /\ UNCHANGED stream
  <2>. DEFINE x == [snap |-> stored, live |-> TRUE]
              q == Append(p, x)
              k == Restored(stored, cursor[c])
              b == slipped[c] \/ cursor[c] \notin stored
  <2>1. x \in Object /\ x.live /\ x.snap = stored
    BY <1>0, NewObject, Zenon DEF TypeOK
  <2>2. /\ objects' = [objects EXCEPT ![c] = q] /\ entry' = [entry EXCEPT ![c] = e + 1]
        /\ cursor' = [cursor EXCEPT ![c] = k] /\ slipped' = [slipped EXCEPT ![c] = b]
        /\ stream' = stream
    BY <1>0, <1>4, Zenon DEF p, TypeOK
  <2>. HIDE DEF x
  <2>3. q \in Objects /\ Len(q) = e + 1 /\ LiveOf(q) = {e + 1} /\ q[e + 1].snap = stored
    <3>1. q \in Objects /\ Len(q) = Len(p) + 1 /\ q[Len(p) + 1] = x
          /\ LiveOf(q) = LiveOf(p) \cup {Len(p) + 1}
      BY <1>3, <2>1, Reopened, Zenon
    <3>2. Len(p) = e
      BY <1>3, Zenon
    <3>. HIDE DEF q, e
    <3>. QED
      BY <1>3, <2>1, <3>1, <3>2
  <2>. HIDE DEF q
  <2>4. k \in 0 .. End /\ (cursor[c] \in stored => k = cursor[c])
    BY <1>0, OfClient, PutBack, Zenon DEF TypeOK
  <2>5. b \in BOOLEAN /\ (~b => ~slipped[c] /\ cursor[c] \in stored)
    OBVIOUS
  <2>6. mayDie' \in BOOLEAN /\ (mayDie => mayDie') /\ (unary[c] # 0 => mayDie')
    BY <1>4, Zenon
  <2>. HIDE DEF k, b, o, e
  <2>7. e \in Nat /\ e = entry[c] /\ o = objects[c]
    BY <1>3, Zenon DEF e, o
  <2>8. TypeOK'
    BY <1>0, <1>1, <2>2, <2>3, <2>4, <2>5, <2>6, <2>7 DEF TypeOK
  <2>9. \A d \in Clients \ {c} : Same(d)
    BY <1>0, <1>1, <2>2, Zenon DEF Same, TypeOK
  <2>10. /\ cursor'[c] = k /\ slipped'[c] = b /\ objects'[c] = q /\ entry'[c] = e + 1
    BY <1>0, <2>2, Zenon DEF TypeOK
  <2>11. TxOK(c)'
    <3>1. unary[c] \in Nat /\ unary[c] <= Len(q) /\ e + 1 # 0
      <4>1. unary[c] \in Nat /\ unary[c] <= Len(objects[c])
        BY <1>0, OfClient, Zenon DEF TxOK
      <4>2. unary[c] <= e
        BY <1>3, <2>7, <4>1, Zenon
      <4>. QED
        BY <2>3, <2>7, <4>1, <4>2, OneMore, Zenon
    <3>. QED
      BY <1>0, <1>1, <2>2, <2>3, <2>6, <2>10, <3>1, Zenon DEF TxOK
  <2>12. WalkOK(c)'
    <3>1. ~b => k = cursor[c] /\ ~slipped[c]
      BY <2>4, <2>5
    <3>. QED
      BY <1>0, <1>1, <2>10, <3>1, Zenon DEF WalkOK
  <2>13. NoneUsedDead'
    BY <1>0, <1>1, <2>6 DEF NoneUsedDead
  <2>. QED
    BY <1>1, <1>2, <2>6, <2>8, <2>9, <2>11, <2>12, <2>13, ClientStep, Zenon
<1>5. CASE /\ objects' = [objects EXCEPT ![c][entry[c]].live = FALSE]
           /\ mayDie' = TRUE
           /\ UNCHANGED <<entry, cursor, slipped, stream>>
  <2>1. objects' = [objects EXCEPT ![c] = p]
    BY <1>5 DEF p
  <2>2. TypeOK'
    BY <1>0, <1>1, <1>3, <1>5, <2>1, Zenon DEF TypeOK
  <2>3. \A d \in Clients \ {c} : Same(d)
    BY <1>0, <1>1, <1>5, <2>1 DEF Same, TypeOK
  <2>4. TxOK(c)'
    <3>1. objects'[c] = p
      BY <1>0, <2>1 DEF TypeOK
    <3>. QED
      BY <1>0, <1>1, <1>3, <1>5, <3>1, Zenon DEF TxOK
  <2>5. WalkOK(c)'
    BY <1>0, <1>1, <1>5 DEF WalkOK
  <2>6. NoneUsedDead'
    BY <1>5, Zenon DEF NoneUsedDead
  <2>. QED
    BY <1>1, <1>2, <1>5, <2>2, <2>3, <2>4, <2>5, <2>6, ClientStep
<1>6. CASE cursor[c] \in {0, End} /\ rollback(c) /\ UNCHANGED <<cursor, slipped>>
  <2>1. TypeOK'
    BY <1>0, <1>1, <1>6, RolledBack, Zenon DEF TypeOK
  <2>2. \A d \in Clients \ {c} : Same(d)
    BY <1>1, <1>6, RolledBack DEF Same
  <2>3. TxOK(c)'
    BY <1>0, <1>1, <1>6, RolledBack, Zenon DEF TxOK
  <2>4. NoneUsedDead' /\ (mayDie => mayDie')
    BY <1>0, <1>1, <1>6, RolledBack, Zenon DEF NoneUsedDead
  <2>5. WalkOK(c)'
    BY <1>0, <1>1, <1>6 DEF WalkOK
  <2>. QED
    BY <1>1, <1>2, <2>1, <2>2, <2>3, <2>4, <2>5, ClientStep, Zenon
<1>. QED
  BY <1>4, <1>5, <1>6, Zenon DEF Renew
-----------------------------------------------------------------------------
LEMMA InvSays == Inv => RemoteReads
<1>. SUFFICES ASSUME Inv PROVE RemoteReads
  BY Zenon
<1>1. WalkGoesOn
  <2>. SUFFICES ASSUME NEW c \in Clients, ~slipped[c], got[c] # <<>>
                PROVE  /\ \A i \in 1 .. Len(got[c]) - 1 : got[c][i] < got[c][i + 1]
                       /\ \/ got[c] = <<End>>
                          \/ \A k \in steady[c] : k <= got[c][Len(got[c])] =>
                               \E i \in DOMAIN got[c] : got[c][i] = k
    BY Zenon DEF WalkGoesOn
  <2>1. DOMAIN got[c] = 1 .. Len(got[c])
    BY OfClient, WalkType
  <2>2. Goes(got[c], steady[c])
    BY DEF Inv, WalkOK
  <2>. QED
    BY <2>1, <2>2, Zenon DEF Goes, Rises, Has
<1>2. ASSUME NEW c \in Clients
      PROVE  /\ (entry[c] # 0) = (stream[c] # "none")
             /\ entry[c] = 0 => \A i \in DOMAIN objects[c] : ~objects[c][i].live
             /\ Cardinality({i \in DOMAIN objects[c] : objects[c][i].live}) <= 1
  <2>1. /\ TxOK(c) /\ objects[c] \in Objects
        /\ LiveOf(objects[c]) \subseteq 1 .. Len(objects[c])
    BY OfClient
  <2>2. DOMAIN objects[c] = 1 .. Len(objects[c])
    BY <2>1, LenProperties DEF Objects
  <2>3. {i \in DOMAIN objects[c] : objects[c][i].live} = LiveOf(objects[c])
    BY <2>2 DEF LiveOf
  <2>4. LiveOf(objects[c]) \subseteq {entry[c]}
    BY <2>1 DEF TxOK
  <2>5. Cardinality(LiveOf(objects[c])) <= 1
    <3>1. IsFiniteSet({entry[c]}) /\ Cardinality({entry[c]}) = 1
      BY FS_Singleton, Zenon
    <3>2. Cardinality(LiveOf(objects[c])) <= Cardinality({entry[c]})
      BY <2>4, <3>1, FS_Subset
    <3>. QED
      BY <3>1, <3>2
  <2>6. entry[c] = 0 => \A i \in DOMAIN objects[c] : ~objects[c][i].live
    <3>. SUFFICES ASSUME entry[c] = 0, NEW i \in 1 .. Len(objects[c]), objects[c][i].live
                  PROVE  FALSE
      BY <2>2
    <3>1. i \in LiveOf(objects[c])
      BY DEF LiveOf
    <3>2. i = 0
      BY <2>4, <3>1
    <3>. QED
      BY <3>2
  <2>7. (entry[c] # 0) = (stream[c] # "none")
    BY <2>1, Zenon DEF TxOK
  <2>. QED
    BY <2>3, <2>5, <2>6, <2>7, Zenon
<1>3. slots = Cardinality({c \in Clients : call[c] \in {"acquired", "open"}})
  BY DEF Inv, Holders
<1>. QED
  BY <1>1, <1>2, <1>3, Zenon DEF Inv, RemoteReads, NothingKept

LEMMA NextInv == Inv /\ [Next]_vars => Inv'
<1>. SUFFICES ASSUME Inv, [Next]_vars PROVE Inv'
  OBVIOUS
<1>1. CASE Next
  <2>1. ASSUME NEW k \in Keys, Commits(k) PROVE Inv'
    BY <2>1, CommitStep
  <2>2. ASSUME NEW c \in Clients,
               \/ BeginRo(c) \/ OpenStream(c)
               \/ \E op \in {"FIRST", "LAST", "NEXT", "CURRENT"} : Serve(c, op)
               \/ Renew(c) \/ RangeLooksUp(c) \/ RangeReads(c) \/ Rollback(c) \/ StreamEnds(c)
        PROVE  Inv'
    BY <2>2, BeginRoStep, OpenStreamStep, ServeStep, RenewStep, RangeLooksUpStep,
       RangeReadsStep, RollbackStep, StreamEndsStep, Zenon
  <2>. QED
    BY <1>1, <2>1, <2>2, Zenon DEF Next
<1>2. CASE UNCHANGED vars
  <2>1. TypeOK' /\ NoneUsedDead' /\ slots' = Cardinality(Holders')
    BY <1>2 DEF vars, Inv, TypeOK, NoneUsedDead, Holders
  <2>2. ASSUME NEW c \in Clients PROVE TxOK(c)' /\ WalkOK(c)'
    <3>1. Same(c) /\ stored' = stored /\ mayDie' = mayDie
      BY <1>2 DEF vars, Same
    <3>. QED
      BY <3>1, SameKeeps, Zenon DEF Inv
  <2>. QED
    BY <2>1, <2>2, Zenon DEF Inv
<1>. QED
  BY <1>1, <1>2

\* Remote reads are right (kv/remotedb, kv/remotedbserver), for any number of clients, keys,
\* commits and renewals: a walk goes up and misses no key that was stored all the time,
\* unless a tick found its cursor on no key; no rolled back transaction is used, unless a
\* Range call held it or a renewal failed; and neither slots of the limiter nor transactions
\* of the server are left over.
THEOREM RemoteReadsRight == Spec => []RemoteReads
<1>1. Spec => []Inv
  BY InitInv, NextInv, PTL DEF Spec
<1>. QED
  BY <1>1, InvSays, PTL
=============================================================================
