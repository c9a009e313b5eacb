------------------------- MODULE SubscriptionsProofs -------------------------
(***************************************************************************)
(* State changes reach every subscriber in order, and however slow it is   *)
(* the newest one is never lost: Subscriptions.ChangesDelivered, for any   *)
(* number of subscribers and messages and any capacities (a subscription's *)
(* channel holds two messages or more).                                    *)
(*                                                                         *)
(* The argument is about OnItsWay, the received messages with those in the *)
(* stream, in the server's hands and in the channel: Take, StreamSend and  *)
(* Recv leave it as it is, Put appends to it, Drain cuts a piece out of    *)
(* it, and Remove cuts off the end.                                        *)
(***************************************************************************)
EXTENDS Subscriptions, TLAPS, SequenceTheorems

Numbers == Seq(Nat)

\* The sequence w goes up, from above lo to hi at most.
GoesUp(w, lo, hi) ==
  /\ \A i \in 1 .. Len(w) : w[i] \in Nat /\ lo < w[i] /\ w[i] <= hi
  /\ \A i, j \in 1 .. Len(w) : i < j => w[i] < w[j]

TypeOK ==
  /\ ConstantsFit
  /\ published \in Nat /\ todo \subseteq Clients /\ drained \subseteq Clients
  /\ subs \in [Clients -> {"none", "subscribed", "leaving", "removed"}]
  /\ since \in [Clients -> Nat] /\ dropped \in [Clients -> Nat]
  /\ ch \in [Clients -> Numbers] /\ holding \in [Clients -> Numbers]
  /\ stream \in [Clients -> Numbers] /\ received \in [Clients -> Numbers]

\* The last message that c has got, or will have lost.
Latest(c) == IF c \in todo THEN published - 1 ELSE published

ClientOK(c) ==
  /\ since[c] <= published /\ GoesUp(OnItsWay(c), since[c], Latest(c))
  /\ subs[c] = "none" => /\ ch[c] = <<>> /\ holding[c] = <<>> /\ stream[c] = <<>>
                         /\ received[c] = <<>> /\ dropped[c] = 0
  /\ c \in todo => c \in Registered /\ since[c] < published
  /\ c \in Registered =>
       /\ Len(OnItsWay(c)) + dropped[c] = Latest(c) - since[c]
       /\ (c \notin todo /\ published > since[c]) =>
            Len(OnItsWay(c)) # 0 /\ OnItsWay(c)[Len(OnItsWay(c))] = published

Inv == TypeOK /\ PublisherFree /\ \A c \in Clients : ClientOK(c)
-----------------------------------------------------------------------------
(* Sequences of numbers.                                                   *)

LEMMA Elements ==
  ASSUME NEW s \in Numbers
  PROVE  Len(s) \in Nat /\ (\A i \in 1 .. Len(s) : s[i] \in Nat) /\ (Len(s) = 0 <=> s = <<>>)
<1>1. Len(s) \in Nat /\ s \in [1 .. Len(s) -> Nat]
  BY LenProperties DEF Numbers
<1>2. \A i \in 1 .. Len(s) : s[i] \in Nat
  BY ElementOfSeq DEF Numbers
<1>3. Len(s) = 0 <=> s = <<>>
  BY EmptySeq DEF Numbers
<1>. QED
  BY <1>1, <1>2, <1>3

LEMMA Empty == <<>> \in Numbers /\ Len(<<>>) = 0
  BY EmptySeq DEF Numbers

LEMMA Single == ASSUME NEW n \in Nat PROVE <<n>> \in Numbers /\ Len(<<n>>) = 1
  BY DEF Numbers

LEMMA Concat ==
  ASSUME NEW s \in Numbers, NEW t \in Numbers
  PROVE  /\ s \o t \in Numbers /\ Len(s \o t) = Len(s) + Len(t)
         /\ \A i \in 1 .. Len(s) : (s \o t)[i] = s[i]
         /\ \A i \in 1 .. Len(t) : (s \o t)[Len(s) + i] = t[i]
         /\ s \o <<>> = s
<1>1. /\ s \o t \in Numbers /\ Len(s \o t) = Len(s) + Len(t)
      /\ \A i \in 1 .. Len(s) + Len(t) : (s \o t)[i] = IF i <= Len(s) THEN s[i] ELSE t[i - Len(s)]
  BY ConcatProperties DEF Numbers
<1>2. s \o <<>> = s
  BY ConcatEmptySeq DEF Numbers
<1>3. Len(s) \in Nat /\ Len(t) \in Nat
  BY Elements
<1>4. \A i \in 1 .. Len(s) : (s \o t)[i] = s[i]
  BY <1>1, <1>3
<1>5. \A i \in 1 .. Len(t) : (s \o t)[Len(s) + i] = t[i]
  <2>. SUFFICES ASSUME NEW i \in 1 .. Len(t) PROVE (s \o t)[Len(s) + i] = t[i]
    OBVIOUS
  <2>1. Len(s) + i \in 1 .. Len(s) + Len(t) /\ ~(Len(s) + i <= Len(s)) /\ (Len(s) + i) - Len(s) = i
    BY <1>3
  <2>. QED
    BY <1>1, <2>1
<1>. QED
  BY <1>1, <1>2, <1>4, <1>5

LEMMA SeqAssociative ==
  ASSUME NEW s \in Seq(Nat), NEW t \in Seq(Nat), NEW u \in Seq(Nat)
  PROVE  (s \o t) \o u = s \o (t \o u)
<1>. DEFINE L == (s \o t) \o u
            R == s \o (t \o u)
<1>1. L \in Seq(Nat) /\ R \in Seq(Nat) /\ Len(L) = Len(s) + Len(t) + Len(u) /\ Len(R) = Len(L)
  OBVIOUS
<1>2. ASSUME NEW i \in 1 .. Len(L)
      PROVE  L[i] = R[i]
  <2>1. CASE i <= Len(s)
    BY <2>1
  <2>2. CASE Len(s) < i /\ i <= Len(s) + Len(t)
    BY <2>2
  <2>3. CASE Len(s) + Len(t) < i
    BY <2>3
  <2>. QED
    BY <2>1, <2>2, <2>3
<1>. HIDE DEF L, R
<1>3. L = R
  BY <1>1, <1>2
<1>. QED
  BY <1>3 DEF L, R

LEMMA Associative ==
  ASSUME NEW s \in Numbers, NEW t \in Numbers, NEW u \in Numbers
  PROVE  (s \o t) \o u = s \o (t \o u)
BY SeqAssociative, Zenon DEF Numbers

\* The first of t moves to the end of s.
LEMMA MoveOne ==
  ASSUME NEW s \in Numbers, NEW t \in Numbers, t # <<>>
  PROVE  /\ Head(t) \in Nat /\ Tail(t) \in Numbers /\ <<Head(t)>> \in Numbers
         /\ Append(s, Head(t)) \in Numbers /\ Append(s, Head(t)) = s \o <<Head(t)>>
         /\ (s \o <<Head(t)>>) \o Tail(t) = s \o t
<1>1. Head(t) \in Nat /\ Tail(t) \in Numbers /\ t = <<Head(t)>> \o Tail(t)
  BY HeadTailProperties DEF Numbers
<1>2. <<Head(t)>> \in Numbers
  BY <1>1, Single
<1>3. Append(s, Head(t)) = s \o <<Head(t)>>
  BY <1>1, AppendIsConcat DEF Numbers
<1>4. s \o <<Head(t)>> \in Numbers
  BY <1>2, Concat
<1>5. (s \o <<Head(t)>>) \o Tail(t) = s \o (<<Head(t)>> \o Tail(t))
  BY <1>1, <1>2, Associative
<1>. QED
  BY <1>1, <1>2, <1>3, <1>4, <1>5

\* A newer message at the end.
LEMMA GoesUpAppend ==
  ASSUME NEW w \in Numbers, NEW lo \in Nat, NEW n \in Nat, lo < n, GoesUp(w, lo, n - 1)
  PROVE  /\ w \o <<n>> \in Numbers /\ Len(w \o <<n>>) = Len(w) + 1 /\ (w \o <<n>>)[Len(w) + 1] = n
         /\ GoesUp(w \o <<n>>, lo, n)
<1>. DEFINE v == w \o <<n>>
<1>1. <<n>> \in Numbers /\ Len(<<n>>) = 1 /\ <<n>>[1] = n
  BY Single
<1>2. /\ v \in Numbers /\ Len(v) = Len(w) + Len(<<n>>)
      /\ \A i \in 1 .. Len(w) : v[i] = w[i]
      /\ \A i \in 1 .. Len(<<n>>) : v[Len(w) + i] = <<n>>[i]
  BY <1>1, Concat
<1>3. Len(w) \in Nat
  BY Elements
<1>4. Len(v) = Len(w) + 1 /\ v[Len(w) + 1] = n
  BY <1>1, <1>2
<1>. HIDE DEF v
<1>5. \A i \in 1 .. Len(v) : i \in 1 .. Len(w) \/ i = Len(w) + 1
  BY <1>3, <1>4
<1>6. \A i \in 1 .. Len(v) : v[i] \in Nat /\ lo < v[i] /\ v[i] <= n
  BY <1>2, <1>4, <1>5 DEF GoesUp
<1>7. \A i, j \in 1 .. Len(v) : i < j => v[i] < v[j]
  <2>. SUFFICES ASSUME NEW i \in 1 .. Len(v), NEW j \in 1 .. Len(v), i < j PROVE v[i] < v[j]
    OBVIOUS
  <2>1. i \in 1 .. Len(w) /\ v[i] = w[i] /\ w[i] \in Nat /\ w[i] <= n - 1
    BY <1>2, <1>3, <1>4 DEF GoesUp
  <2>2. CASE j \in 1 .. Len(w)
    BY <1>2, <2>1, <2>2 DEF GoesUp
  <2>3. CASE j = Len(w) + 1
    BY <1>4, <2>1, <2>3
  <2>. QED
    BY <1>5, <2>2, <2>3
<1>. QED
  BY <1>2, <1>4, <1>6, <1>7 DEF GoesUp, v

\* A piece cut out of the middle.
LEMMA GoesUpCut ==
  ASSUME NEW p \in Numbers, NEW q \in Numbers, NEW k \in Nat, k <= Len(q), NEW lo, NEW hi,
         GoesUp(p \o q, lo, hi), NEW r, r = SubSeq(q, 1 + k, Len(q))
  PROVE  /\ r \in Numbers /\ Len(r) = Len(q) - k /\ Len(p \o r) = Len(p \o q) - k
         /\ GoesUp(p \o r, lo, hi)
<1>. DEFINE f(i) == IF i <= Len(p) THEN i ELSE i + k
<1>1. Len(p) \in Nat /\ Len(q) \in Nat /\ \A i \in 1 .. Len(q) : q[i] \in Nat
  BY Elements
<1>2. /\ r \in Numbers /\ Len(r) = Len(q) - k
      /\ \A i \in 1 .. Len(r) : r[i] = q[k + i]
  <2>1. \A i \in 1 + k .. Len(q) : q[i] \in Nat
    BY <1>1
  <2>2. 1 + k \in Int /\ Len(q) \in Int
    BY <1>1
  <2>3. /\ r \in Seq(Nat) /\ Len(r) = IF 1 + k <= Len(q) THEN Len(q) - (1 + k) + 1 ELSE 0
        /\ \A i \in 1 .. Len(q) - (1 + k) + 1 : r[i] = q[1 + k + i - 1]
    BY <2>1, <2>2, SubSeqProperties
  <2>4. Len(r) = Len(q) - k
    BY <1>1, <2>3
  <2>5. \A i \in 1 .. Len(r) : r[i] = q[k + i]
    <3>. SUFFICES ASSUME NEW i \in 1 .. Len(r) PROVE r[i] = q[k + i]
      OBVIOUS
    <3>1. i \in 1 .. Len(q) - (1 + k) + 1 /\ 1 + k + i - 1 = k + i
      BY <1>1, <2>4
    <3>. QED
      BY <2>3, <3>1
  <2>. QED
    BY <2>3, <2>4, <2>5 DEF Numbers
<1>3. /\ Len(p \o q) = Len(p) + Len(q)
      /\ \A i \in 1 .. Len(p) : (p \o q)[i] = p[i]
      /\ \A i \in 1 .. Len(q) : (p \o q)[Len(p) + i] = q[i]
  BY Concat
<1>4. /\ Len(p \o r) = Len(p) + Len(r)
      /\ \A i \in 1 .. Len(p) : (p \o r)[i] = p[i]
      /\ \A i \in 1 .. Len(r) : (p \o r)[Len(p) + i] = r[i]
  BY <1>2, Concat
<1>5. ASSUME NEW i \in 1 .. Len(p \o r)
      PROVE  f(i) \in 1 .. Len(p \o q) /\ (p \o r)[i] = (p \o q)[f(i)]
  <2>1. CASE i <= Len(p)
    <3>1. i \in 1 .. Len(p) /\ i \in 1 .. Len(p \o q) /\ f(i) = i
      BY <1>1, <1>3, <2>1
    <3>. QED
      BY <1>3, <1>4, <3>1
  <2>2. CASE ~(i <= Len(p))
    <3>. DEFINE d == i - Len(p)
    <3>1. d \in 1 .. Len(r) /\ k + d \in 1 .. Len(q) /\ i = Len(p) + d /\ f(i) = Len(p) + (k + d)
      BY <1>1, <1>2, <1>4, <2>2
    <3>. HIDE DEF d, f
    <3>2. (p \o r)[i] = r[d] /\ r[d] = q[k + d] /\ (p \o q)[Len(p) + (k + d)] = q[k + d]
      BY <1>2, <1>3, <1>4, <3>1
    <3>3. Len(p) + (k + d) \in 1 .. Len(p \o q)
      BY <1>1, <1>3, <3>1
    <3>. QED
      BY <3>1, <3>2, <3>3
  <2>. QED
    BY <2>1, <2>2
<1>6. \A i, j \in 1 .. Len(p \o r) : i < j => f(i) < f(j)
  BY <1>1, <1>2, <1>4
<1>. HIDE DEF f
<1>7. GoesUp(p \o r, lo, hi)
  BY <1>5, <1>6 DEF GoesUp
<1>8. Len(p \o r) = Len(p \o q) - k
  <2>1. \A x, y \in Nat : x + (y - k) = (x + y) - k
    OBVIOUS
  <2>. QED
    BY <1>1, <1>2, <1>3, <1>4, <2>1, Zenon
<1>. QED
  BY <1>2, <1>7, <1>8

\* The end cut off.
LEMMA GoesUpPrefix ==
  ASSUME NEW p \in Numbers, NEW q \in Numbers, NEW lo, NEW hi, GoesUp(p \o q, lo, hi)
  PROVE  GoesUp(p, lo, hi)
<1>1. Len(p) \in Nat /\ Len(q) \in Nat
  BY Elements
<1>2. Len(p \o q) = Len(p) + Len(q) /\ \A i \in 1 .. Len(p) : (p \o q)[i] = p[i]
  BY Concat
<1>3. \A i \in 1 .. Len(p) : i \in 1 .. Len(p \o q)
  BY <1>1, <1>2
<1>. QED
  BY <1>2, <1>3 DEF GoesUp
-----------------------------------------------------------------------------
(* The steps.                                                              *)

\* What stands before the channel.
Ahead(c) == (received[c] \o stream[c]) \o holding[c]

LEMMA WayType ==
  ASSUME TypeOK, NEW c \in Clients
  PROVE  /\ received[c] \in Numbers /\ stream[c] \in Numbers /\ holding[c] \in Numbers
         /\ ch[c] \in Numbers /\ received[c] \o stream[c] \in Numbers /\ Ahead(c) \in Numbers
         /\ OnItsWay(c) \in Numbers /\ OnItsWay(c) = Ahead(c) \o ch[c]
         /\ Len(OnItsWay(c)) \in Nat
<1>1. /\ received[c] \in Numbers /\ stream[c] \in Numbers /\ holding[c] \in Numbers
      /\ ch[c] \in Numbers
  BY DEF TypeOK
<1>2. received[c] \o stream[c] \in Numbers
  BY <1>1, Concat
<1>3. Ahead(c) \in Numbers
  BY <1>1, <1>2, Concat DEF Ahead
<1>4. OnItsWay(c) = Ahead(c) \o ch[c]
  BY DEF OnItsWay, Ahead
<1>5. OnItsWay(c) \in Numbers
  BY <1>1, <1>3, <1>4, Concat
<1>. QED
  BY <1>1, <1>2, <1>3, <1>4, <1>5, Elements

\* A client that nothing happens to.
LEMMA SameClient ==
  ASSUME NEW c \in Clients, ClientOK(c), published' = published, (c \in todo') = (c \in todo),
         OnItsWay(c)' = OnItsWay(c), subs'[c] = subs[c], since'[c] = since[c], dropped'[c] = dropped[c],
         subs[c] = "none" => /\ ch'[c] = ch[c] /\ holding'[c] = holding[c] /\ stream'[c] = stream[c]
                             /\ received'[c] = received[c]
  PROVE  ClientOK(c)'
BY DEF ClientOK, Latest, Registered

\* A step of one client, who may be struck off Pub's list, leaves the others alone.
LEMMA OneClient ==
  ASSUME Inv, TypeOK', PublisherFree', NEW c \in Clients, published' = published,
         todo' \in {todo, todo \ {c}}, ClientOK(c)',
         \A d \in Clients \ {c} :
           /\ subs'[d] = subs[d] /\ since'[d] = since[d] /\ dropped'[d] = dropped[d] /\ ch'[d] = ch[d]
           /\ holding'[d] = holding[d] /\ stream'[d] = stream[d] /\ received'[d] = received[d]
  PROVE  Inv'
<1>1. ASSUME NEW d \in Clients, d # c PROVE ClientOK(d)'
  <2>1. (d \in todo') = (d \in todo)
    BY <1>1
  <2>2. OnItsWay(d)' = OnItsWay(d)
    BY <1>1 DEF OnItsWay
  <2>3. ClientOK(d)
    BY DEF Inv
  <2>. QED
    BY <1>1, <2>1, <2>2, <2>3, SameClient
<1>. QED
  BY <1>1 DEF Inv

LEMMA InvInit == Init => Inv
<1>. SUFFICES ASSUME Init PROVE Inv
  OBVIOUS
<1>1. <<>> \in Numbers /\ Len(<<>>) = 0 /\ <<>> \o <<>> = <<>>
  BY Empty, Concat
<1>2. TypeOK
  BY <1>1 DEF Init, TypeOK
<1>3. PublisherFree
  BY DEF Init, PublisherFree
<1>4. ASSUME NEW c \in Clients PROVE ClientOK(c)
  <2>1. /\ received[c] = <<>> /\ stream[c] = <<>> /\ holding[c] = <<>> /\ ch[c] = <<>>
        /\ subs[c] = "none" /\ since[c] = 0 /\ dropped[c] = 0 /\ todo = {} /\ published = 0
    BY DEF Init
  <2>2. OnItsWay(c) = <<>>
    BY <1>1, <2>1 DEF OnItsWay
  <2>. QED
    BY <1>1, <2>1, <2>2 DEF ClientOK, GoesUp, Registered
<1>. QED
  BY <1>2, <1>3, <1>4 DEF Inv

LEMMA SubStep == ASSUME Inv, NEW c \in Clients, Sub(c) PROVE Inv'
<1>1. TypeOK'
  BY DEF Inv, TypeOK, Sub, ConstantsFit
<1>2. PublisherFree'
  BY DEF Inv, PublisherFree, Sub
<1>3. \A d \in Clients \ {c} :
        /\ subs'[d] = subs[d] /\ since'[d] = since[d] /\ dropped'[d] = dropped[d] /\ ch'[d] = ch[d]
        /\ holding'[d] = holding[d] /\ stream'[d] = stream[d] /\ received'[d] = received[d]
  BY DEF Inv, TypeOK, Sub
<1>4. /\ subs'[c] = "subscribed" /\ since'[c] = published /\ dropped'[c] = 0 /\ todo' = {}
      /\ published' = published /\ published \in Nat /\ todo' = todo
      /\ ch'[c] = <<>> /\ holding'[c] = <<>> /\ stream'[c] = <<>> /\ received'[c] = <<>>
  BY DEF Inv, TypeOK, ClientOK, Sub
<1>5. OnItsWay(c)' = <<>> /\ Len(<<>>) = 0
  BY <1>4, Empty, Concat DEF OnItsWay
<1>6. ClientOK(c)'
  BY <1>4, <1>5 DEF ClientOK, GoesUp, Latest
<1>. QED
  BY <1>1, <1>2, <1>3, <1>4, <1>6, OneClient

LEMMA PubStep == ASSUME Inv, Pub PROVE Inv'
<1>1. TypeOK'
  BY DEF Inv, TypeOK, Pub, ConstantsFit, Registered
<1>2. PublisherFree'
  BY DEF Inv, PublisherFree, Pub
<1>3. ASSUME NEW c \in Clients PROVE ClientOK(c)'
  <2>1. /\ published' = published + 1 /\ published \in Nat /\ since[c] \in Nat /\ todo = {}
        /\ todo' = Registered /\ Registered' = Registered
    BY DEF Inv, TypeOK, Pub, Registered
  <2>2. ClientOK(c)
    BY DEF Inv
  <2>3. OnItsWay(c)' = OnItsWay(c)
    BY DEF Pub, OnItsWay
  <2>4. Latest(c) = published /\ Latest(c)' \in {published, published + 1}
    BY <2>1 DEF Latest
  <2>5. GoesUp(OnItsWay(c), since[c], Latest(c)')
    <3>. DEFINE w == OnItsWay(c)
    <3>1. GoesUp(w, since[c], published)
      BY <2>2, <2>4 DEF ClientOK
    <3>. HIDE DEF w
    <3>2. \A n \in Nat : n <= published => n <= Latest(c)'
      BY <2>1, <2>4
    <3>3. GoesUp(w, since[c], Latest(c)')
      BY <3>1, <3>2 DEF GoesUp
    <3>. QED
      BY <3>3 DEF w
  <2>6. /\ subs' = subs /\ since' = since /\ dropped' = dropped /\ ch' = ch /\ holding' = holding
        /\ stream' = stream /\ received' = received
    BY DEF Pub
  <2>7. since'[c] <= published' /\ GoesUp(OnItsWay(c)', since'[c], Latest(c)')
    BY <2>1, <2>2, <2>3, <2>5, <2>6 DEF ClientOK
  <2>8. c \in todo' => c \in Registered' /\ since'[c] < published'
    BY <2>1, <2>2, <2>6 DEF ClientOK
  <2>9. c \in Registered' => Len(OnItsWay(c)') + dropped'[c] = Latest(c)' - since'[c]
    BY <2>1, <2>2, <2>3, <2>4, <2>6 DEF ClientOK, Latest
  <2>. QED
    BY <2>1, <2>2, <2>6, <2>7, <2>8, <2>9 DEF ClientOK
<1>. QED
  BY <1>1, <1>2, <1>3 DEF Inv

LEMMA DrainStep == ASSUME Inv, NEW c \in Clients, Drain(c) PROVE Inv'
<1>. DEFINE half == Cap \div 2
            rest == SubSeq(ch[c], 1 + half, Len(ch[c]))
<1>1. Cap \in Nat /\ Cap >= 2 /\ half \in Nat /\ half >= 1 /\ half <= Cap
  BY DEF Inv, TypeOK, ConstantsFit
<1>2. TypeOK /\ ClientOK(c) /\ Len(ch[c]) = Cap
  BY DEF Inv, Drain
<1>3. /\ ch[c] \in Numbers /\ Ahead(c) \in Numbers /\ OnItsWay(c) = Ahead(c) \o ch[c]
      /\ GoesUp(Ahead(c) \o ch[c], since[c], Latest(c))
  BY <1>2, WayType DEF ClientOK
<1>4. /\ rest \in Numbers /\ Len(rest) = Cap - half
      /\ Len(Ahead(c) \o rest) = Len(Ahead(c) \o ch[c]) - half
      /\ GoesUp(Ahead(c) \o rest, since[c], Latest(c))
  <2>1. half \in Nat /\ half <= Len(ch[c]) /\ rest = SubSeq(ch[c], 1 + half, Len(ch[c]))
    BY <1>1, <1>2
  <2>. HIDE DEF half, rest
  <2>2. /\ rest \in Numbers /\ Len(rest) = Len(ch[c]) - half
        /\ Len(Ahead(c) \o rest) = Len(Ahead(c) \o ch[c]) - half
        /\ GoesUp(Ahead(c) \o rest, since[c], Latest(c))
    <3>. DEFINE p == Ahead(c)
                q == ch[c]
                lo == since[c]
                hi == Latest(c)
    <3>1. p \in Numbers /\ q \in Numbers /\ half <= Len(q) /\ GoesUp(p \o q, lo, hi)
          /\ rest = SubSeq(q, 1 + half, Len(q))
      BY <1>3, <2>1
    <3>. HIDE DEF p, q, lo, hi
    <3>2. /\ rest \in Numbers /\ Len(rest) = Len(q) - half /\ Len(p \o rest) = Len(p \o q) - half
          /\ GoesUp(p \o rest, lo, hi)
      BY <2>1, <3>1, GoesUpCut
    <3>. QED
      BY <3>2 DEF p, q, lo, hi
  <2>. QED
    BY <1>2, <2>2
<1>5. /\ ch' = [ch EXCEPT ![c] = rest] /\ dropped' = [dropped EXCEPT ![c] = @ + half]
      /\ drained' = {c} /\ published' = published /\ todo' = todo /\ subs' = subs /\ since' = since
      /\ holding' = holding /\ stream' = stream /\ received' = received /\ c \in todo
  BY <1>2 DEF Drain
<1>. HIDE DEF half, rest
<1>6. TypeOK'
  BY <1>1, <1>2, <1>4, <1>5 DEF TypeOK, ConstantsFit
<1>7. /\ ch'[c] = rest /\ dropped'[c] = dropped[c] + half /\ dropped[c] \in Nat
      /\ \A d \in Clients \ {c} : ch'[d] = ch[d] /\ dropped'[d] = dropped[d]
  BY <1>2, <1>5 DEF TypeOK
<1>8. PublisherFree'
  BY <1>1, <1>4, <1>5, <1>7 DEF PublisherFree
<1>9. OnItsWay(c)' = Ahead(c) \o rest
  BY <1>5, <1>7 DEF OnItsWay, Ahead
<1>10. Latest(c)' = Latest(c) /\ Registered' = Registered
  BY <1>5 DEF Latest, Registered
<1>11. Len(OnItsWay(c)') + dropped'[c] = Len(OnItsWay(c)) + dropped[c]
  <2>1. \A x, y \in Nat : (x - half) + (y + half) = x + y
    BY <1>1
  <2>2. Len(OnItsWay(c)) \in Nat
    BY <1>2, WayType
  <2>3. Len(OnItsWay(c)') = Len(OnItsWay(c)) - half
    BY <1>3, <1>4, <1>9, Zenon
  <2>. QED
    BY <1>7, <2>1, <2>2, <2>3, Zenon
<1>12. ClientOK(c)'
  <2>1. /\ subs[c] # "none" /\ c \in todo /\ since[c] < published
    BY <1>2, <1>5 DEF ClientOK, Registered
  <2>. QED
    BY <1>2, <1>4, <1>5, <1>7, <1>9, <1>10, <1>11, <2>1 DEF ClientOK
<1>. QED
  BY <1>5, <1>6, <1>7, <1>8, <1>12, OneClient

LEMMA PutStep == ASSUME Inv, NEW c \in Clients, Put(c) PROVE Inv'
<1>1. TypeOK /\ ClientOK(c)
  BY DEF Inv
<1>2. /\ ch[c] \in Numbers /\ Ahead(c) \in Numbers /\ OnItsWay(c) = Ahead(c) \o ch[c]
      /\ OnItsWay(c) \in Numbers /\ Len(OnItsWay(c)) \in Nat
  BY <1>1, WayType
<1>3. /\ published' = published /\ todo' = todo \ {c} /\ drained' = {} /\ subs' = subs
      /\ since' = since /\ dropped' = dropped /\ holding' = holding /\ stream' = stream
      /\ received' = received /\ c \in todo /\ ch' = [ch EXCEPT ![c] = Append(ch[c], published)]
  BY DEF Put
<1>4. /\ published \in Nat /\ since[c] \in Nat /\ dropped[c] \in Nat /\ since[c] < published
      /\ Latest(c) = published - 1 /\ Latest(c)' = published /\ c \in Registered
      /\ Registered' = Registered /\ c \notin todo'
  BY <1>1, <1>3 DEF TypeOK, ClientOK, Latest, Registered
<1>5. /\ <<published>> \in Numbers /\ Append(ch[c], published) = ch[c] \o <<published>>
      /\ ch[c] \o <<published>> \in Numbers
  <2>1. <<published>> \in Numbers
    BY <1>4, Single
  <2>2. Append(ch[c], published) = ch[c] \o <<published>>
    BY <1>2, <1>4, AppendIsConcat DEF Numbers
  <2>. QED
    BY <1>2, <2>1, <2>2, Concat
<1>6. TypeOK'
  BY <1>1, <1>3, <1>5 DEF TypeOK, ConstantsFit
<1>7. /\ ch'[c] = ch[c] \o <<published>> /\ \A d \in Clients \ {c} : ch'[d] = ch[d]
  BY <1>1, <1>3, <1>5 DEF TypeOK
<1>8. PublisherFree'
  BY <1>3 DEF PublisherFree
<1>9. OnItsWay(c)' = OnItsWay(c) \o <<published>>
  <2>1. OnItsWay(c)' = Ahead(c) \o (ch[c] \o <<published>>)
    BY <1>3, <1>7 DEF OnItsWay, Ahead
  <2>2. (Ahead(c) \o ch[c]) \o <<published>> = Ahead(c) \o (ch[c] \o <<published>>)
    BY <1>2, <1>5, Associative
  <2>. QED
    BY <1>2, <2>1, <2>2
<1>10. GoesUp(OnItsWay(c), since[c], published - 1)
  BY <1>1, <1>4 DEF ClientOK
<1>11. /\ GoesUp(OnItsWay(c)', since[c], published)
       /\ Len(OnItsWay(c)') = Len(OnItsWay(c)) + 1
       /\ OnItsWay(c)'[Len(OnItsWay(c)) + 1] = published
  <2>. DEFINE w == OnItsWay(c)
              lo == since[c]
              n == published
  <2>1. w \in Numbers /\ lo \in Nat /\ n \in Nat /\ lo < n /\ GoesUp(w, lo, n - 1)
    BY <1>2, <1>4, <1>10
  <2>. HIDE DEF w, lo, n
  <2>2. /\ w \o <<n>> \in Numbers /\ Len(w \o <<n>>) = Len(w) + 1 /\ (w \o <<n>>)[Len(w) + 1] = n
        /\ GoesUp(w \o <<n>>, lo, n)
    BY <2>1, GoesUpAppend
  <2>. QED
    BY <1>9, <2>2 DEF w, lo, n
<1>12. Len(OnItsWay(c)) + dropped[c] = published - 1 - since[c]
  BY <1>1, <1>4 DEF ClientOK
<1>13. Len(OnItsWay(c)') + dropped'[c] = published - since[c] /\ Len(OnItsWay(c)') # 0
  <2>1. \A x, y \in Nat : x + y = published - 1 - since[c] => (x + 1) + y = published - since[c] /\ x + 1 # 0
    BY <1>4
  <2>. QED
    BY <1>2, <1>3, <1>4, <1>11, <1>12, <2>1, Zenon
<1>14. ClientOK(c)'
  <2>1. subs'[c] # "none"
    BY <1>3, <1>4 DEF Registered
  <2>2. since'[c] = since[c] /\ since[c] <= published
    BY <1>3, <1>4
  <2>. QED
    BY <1>3, <1>4, <1>11, <1>13, <2>1, <2>2 DEF ClientOK
<1>. QED
  BY <1>3, <1>6, <1>7, <1>8, <1>14, OneClient

\* A message that a client's goroutines pass on stays where it is in the order.
LEMMA PassedOn ==
  ASSUME Inv, TypeOK', PublisherFree', NEW c \in Clients, subs[c] # "none",
         published' = published, todo' = todo, subs' = subs, since' = since, dropped' = dropped,
         OnItsWay(c)' = OnItsWay(c),
         \A d \in Clients \ {c} : /\ ch'[d] = ch[d] /\ holding'[d] = holding[d]
                                  /\ stream'[d] = stream[d] /\ received'[d] = received[d]
  PROVE  Inv'
<1>1. ClientOK(c)
  BY DEF Inv
<1>2. (c \in todo') = (c \in todo)
  OBVIOUS
<1>3. ClientOK(c)'
  BY <1>1, <1>2, SameClient
<1>4. \A d \in Clients \ {c} :
        /\ subs'[d] = subs[d] /\ since'[d] = since[d] /\ dropped'[d] = dropped[d] /\ ch'[d] = ch[d]
        /\ holding'[d] = holding[d] /\ stream'[d] = stream[d] /\ received'[d] = received[d]
  OBVIOUS
<1>. QED
  BY <1>3, <1>4, OneClient

LEMMA TakeStep == ASSUME Inv, NEW c \in Clients, Take(c) PROVE Inv'
<1>. DEFINE s == received[c] \o stream[c]
            t == ch[c]
<1>1. TypeOK
  BY DEF Inv
<1>2. s \in Numbers /\ t \in Numbers /\ t # <<>> /\ subs[c] = "subscribed" /\ holding[c] = <<>>
  BY <1>1, WayType DEF Take
<1>3. /\ holding' = [holding EXCEPT ![c] = <<Head(t)>>] /\ ch' = [ch EXCEPT ![c] = Tail(t)]
      /\ published' = published /\ todo' = todo /\ drained' = drained /\ subs' = subs
      /\ since' = since /\ dropped' = dropped /\ stream' = stream /\ received' = received
  BY DEF Take
<1>4. OnItsWay(c) = (s \o holding[c]) \o t
  BY DEF OnItsWay
<1>. HIDE DEF s, t
<1>5. /\ <<Head(t)>> \in Numbers /\ Tail(t) \in Numbers
      /\ (s \o <<Head(t)>>) \o Tail(t) = s \o t
  BY <1>2, MoveOne
<1>6. Len(Tail(t)) = Len(t) - 1 /\ Len(t) \in Nat
  BY <1>2, HeadTailProperties, Elements DEF Numbers
<1>7. TypeOK'
  BY <1>1, <1>3, <1>5 DEF TypeOK, ConstantsFit
<1>8. /\ ch'[c] = Tail(t) /\ holding'[c] = <<Head(t)>> /\ stream'[c] = stream[c]
      /\ received'[c] = received[c]
      /\ \A d \in Clients \ {c} : /\ ch'[d] = ch[d] /\ holding'[d] = holding[d]
                                  /\ stream'[d] = stream[d] /\ received'[d] = received[d]
  BY <1>1, <1>3 DEF TypeOK
<1>9. PublisherFree'
  <2>. SUFFICES ASSUME NEW d \in drained PROVE Len(ch'[d]) < Cap
    BY <1>3 DEF PublisherFree
  <2>1. Len(ch[d]) < Cap /\ d \in Clients /\ Cap \in Nat
    BY DEF Inv, PublisherFree, TypeOK, ConstantsFit
  <2>2. CASE d = c
    <3>1. Len(t) < Cap
      BY <2>1, <2>2 DEF t
    <3>2. Len(Tail(t)) < Cap
      BY <1>6, <2>1, <3>1
    <3>. QED
      BY <1>8, <2>2, <3>2, Zenon
  <2>3. CASE d # c
    BY <1>8, <2>1, <2>3
  <2>. QED
    BY <2>2, <2>3
<1>10. OnItsWay(c)' = (s \o <<Head(t)>>) \o Tail(t)
  BY <1>8 DEF OnItsWay, s
<1>11. s \o <<>> = s
  BY <1>2, Concat
<1>12. OnItsWay(c)' = OnItsWay(c)
  BY <1>2, <1>4, <1>5, <1>10, <1>11
<1>. QED
  BY <1>2, <1>3, <1>7, <1>8, <1>9, <1>12, PassedOn

LEMMA StreamSendStep == ASSUME Inv, NEW c \in Clients, StreamSend(c) PROVE Inv'
<1>. DEFINE r == received[c]
            s == stream[c]
            h == holding[c]
<1>1. TypeOK /\ ClientOK(c)
  BY DEF Inv
<1>2. r \in Numbers /\ s \in Numbers /\ h \in Numbers /\ <<>> \in Numbers
  BY <1>1, WayType, Empty
<1>3. /\ holding' = [holding EXCEPT ![c] = <<>>] /\ stream' = [stream EXCEPT ![c] = s \o h]
      /\ published' = published /\ todo' = todo /\ drained' = drained /\ subs' = subs
      /\ since' = since /\ dropped' = dropped /\ ch' = ch /\ received' = received
  BY DEF StreamSend
<1>4. subs[c] # "none"
  BY <1>1 DEF ClientOK, StreamSend
<1>5. OnItsWay(c) = ((r \o s) \o h) \o ch[c]
  BY DEF OnItsWay
<1>. HIDE DEF r, s, h
<1>6. s \o h \in Numbers /\ r \o (s \o h) \in Numbers
  BY <1>2, Concat
<1>7. (r \o s) \o h = (r \o (s \o h)) \o <<>>
  <2>1. (r \o s) \o h = r \o (s \o h)
    BY <1>2, Associative
  <2>2. (r \o (s \o h)) \o <<>> = r \o (s \o h)
    BY <1>6, Concat
  <2>. QED
    BY <2>1, <2>2
<1>8. TypeOK'
  BY <1>1, <1>2, <1>3, <1>6 DEF TypeOK, ConstantsFit
<1>9. PublisherFree'
  BY <1>3 DEF Inv, PublisherFree
<1>10. /\ ch'[c] = ch[c] /\ holding'[c] = <<>> /\ stream'[c] = s \o h /\ received'[c] = received[c]
       /\ \A d \in Clients \ {c} : /\ ch'[d] = ch[d] /\ holding'[d] = holding[d]
                                   /\ stream'[d] = stream[d] /\ received'[d] = received[d]
  BY <1>1, <1>3 DEF TypeOK
<1>11. OnItsWay(c)' = ((r \o (s \o h)) \o <<>>) \o ch[c]
  BY <1>10 DEF OnItsWay, r
<1>12. OnItsWay(c)' = OnItsWay(c)
  BY <1>5, <1>7, <1>11
<1>. QED
  BY <1>3, <1>4, <1>8, <1>9, <1>10, <1>12, PassedOn

LEMMA RecvStep == ASSUME Inv, NEW c \in Clients, Recv(c) PROVE Inv'
<1>. DEFINE s == received[c]
            t == stream[c]
<1>1. TypeOK /\ ClientOK(c)
  BY DEF Inv
<1>2. s \in Numbers /\ t \in Numbers /\ t # <<>>
  BY <1>1, WayType DEF Recv
<1>3. /\ received' = [received EXCEPT ![c] = Append(s, Head(t))]
      /\ stream' = [stream EXCEPT ![c] = Tail(t)]
      /\ published' = published /\ todo' = todo /\ drained' = drained /\ subs' = subs
      /\ since' = since /\ dropped' = dropped /\ ch' = ch /\ holding' = holding
  BY DEF Recv
<1>4. subs[c] # "none"
  BY <1>1, <1>2 DEF ClientOK
<1>5. OnItsWay(c) = ((s \o t) \o holding[c]) \o ch[c]
  BY DEF OnItsWay
<1>. HIDE DEF s, t
<1>6. /\ Tail(t) \in Numbers /\ Append(s, Head(t)) \in Numbers
      /\ Append(s, Head(t)) \o Tail(t) = s \o t
  <2>1. Tail(t) \in Numbers /\ Append(s, Head(t)) \in Numbers
    BY <1>2, MoveOne
  <2>2. Append(s, Head(t)) = s \o <<Head(t)>> /\ (s \o <<Head(t)>>) \o Tail(t) = s \o t
    BY <1>2, MoveOne
  <2>. QED
    BY <2>1, <2>2, Zenon
<1>7. TypeOK'
  BY <1>1, <1>3, <1>6 DEF TypeOK, ConstantsFit
<1>8. PublisherFree'
  BY <1>3 DEF Inv, PublisherFree
<1>9. /\ ch'[c] = ch[c] /\ holding'[c] = holding[c] /\ stream'[c] = Tail(t)
      /\ received'[c] = Append(s, Head(t))
      /\ \A d \in Clients \ {c} : /\ ch'[d] = ch[d] /\ holding'[d] = holding[d]
                                  /\ stream'[d] = stream[d] /\ received'[d] = received[d]
  BY <1>1, <1>3 DEF TypeOK
<1>10. OnItsWay(c)' = ((Append(s, Head(t)) \o Tail(t)) \o holding[c]) \o ch[c]
  BY <1>9, Zenon DEF OnItsWay
<1>11. OnItsWay(c)' = OnItsWay(c)
  BY <1>5, <1>6, <1>10
<1>. QED
  BY <1>3, <1>4, <1>7, <1>8, <1>9, <1>11, PassedOn

LEMMA LeaveStep == ASSUME Inv, NEW c \in Clients, Leave(c) PROVE Inv'
<1>1. TypeOK'
  BY DEF Inv, TypeOK, Leave, ConstantsFit
<1>2. PublisherFree'
  BY DEF Inv, PublisherFree, Leave
<1>3. /\ subs[c] = "subscribed" /\ subs'[c] = "leaving" /\ published' = published /\ todo' = todo
      /\ since' = since /\ dropped' = dropped
  BY DEF Inv, TypeOK, Leave
<1>4. OnItsWay(c)' = OnItsWay(c) /\ Latest(c)' = Latest(c)
  BY <1>3 DEF OnItsWay, Latest, Leave
<1>5. ClientOK(c)'
  BY <1>3, <1>4 DEF Inv, ClientOK, Registered
<1>6. \A d \in Clients \ {c} :
        /\ subs'[d] = subs[d] /\ since'[d] = since[d] /\ dropped'[d] = dropped[d] /\ ch'[d] = ch[d]
        /\ holding'[d] = holding[d] /\ stream'[d] = stream[d] /\ received'[d] = received[d]
  BY DEF Inv, TypeOK, Leave
<1>. QED
  BY <1>1, <1>2, <1>3, <1>5, <1>6, OneClient

LEMMA RemoveStep == ASSUME Inv, NEW c \in Clients, Remove(c) PROVE Inv'
<1>1. TypeOK /\ ClientOK(c) /\ <<>> \in Numbers /\ Len(<<>>) = 0
  BY Empty DEF Inv
<1>2. TypeOK'
  BY <1>1 DEF TypeOK, Remove, ConstantsFit
<1>3. /\ subs'[c] = "removed" /\ published' = published /\ todo' = todo /\ todo = {}
      /\ since' = since /\ dropped' = dropped /\ ch'[c] = <<>> /\ drained' = drained
      /\ \A d \in Clients \ {c} :
           /\ subs'[d] = subs[d] /\ since'[d] = since[d] /\ dropped'[d] = dropped[d]
           /\ ch'[d] = ch[d] /\ holding'[d] = holding[d] /\ stream'[d] = stream[d]
           /\ received'[d] = received[d]
  BY <1>1 DEF TypeOK, Remove
<1>4. PublisherFree'
  <2>. SUFFICES ASSUME NEW d \in drained PROVE Len(ch'[d]) < Cap
    BY <1>3 DEF PublisherFree
  <2>1. Len(ch[d]) < Cap /\ d \in Clients /\ 0 < Cap
    BY DEF Inv, PublisherFree, TypeOK, ConstantsFit
  <2>. QED
    BY <1>1, <1>3, <2>1
<1>5. OnItsWay(c)' = Ahead(c)
  <2>1. Ahead(c) \in Numbers
    BY <1>1, WayType
  <2>2. Ahead(c) \o <<>> = Ahead(c)
    BY <2>1, Concat
  <2>3. OnItsWay(c)' = Ahead(c) \o <<>>
    BY <1>3 DEF OnItsWay, Ahead, Remove
  <2>. QED
    BY <2>2, <2>3
<1>6. GoesUp(OnItsWay(c)', since'[c], Latest(c)')
  <2>. DEFINE p == Ahead(c)
              q == ch[c]
              lo == since[c]
              hi == Latest(c)
  <2>1. p \in Numbers /\ q \in Numbers /\ GoesUp(p \o q, lo, hi)
    BY <1>1, WayType DEF ClientOK
  <2>. HIDE DEF p, q, lo, hi
  <2>2. GoesUp(p, lo, hi)
    BY <2>1, GoesUpPrefix
  <2>3. since'[c] = lo /\ Latest(c)' = hi /\ OnItsWay(c)' = p
    BY <1>3, <1>5 DEF lo, hi, p, Latest
  <2>. QED
    BY <2>2, <2>3
<1>7. ClientOK(c)'
  BY <1>1, <1>3, <1>6 DEF ClientOK, Registered
<1>. QED
  BY <1>2, <1>3, <1>4, <1>7, OneClient

LEMMA CancelStep == ASSUME Inv, NEW c \in Clients, Cancel(c) PROVE Inv'
BY DEF Cancel, Inv, TypeOK, ConstantsFit, PublisherFree, ClientOK, OnItsWay, Latest, Registered

LEMMA InvStep == Inv /\ [Next]_vars => Inv'
<1>. SUFFICES ASSUME Inv, [Next]_vars PROVE Inv'
  OBVIOUS
<1>1. CASE Pub
  BY <1>1, PubStep
<1>2. ASSUME NEW c \in Clients,
             \/ Sub(c) \/ Drain(c) \/ Put(c) \/ Take(c) \/ StreamSend(c) \/ Leave(c)
             \/ Remove(c) \/ Recv(c) \/ Cancel(c)
      PROVE  Inv'
  BY <1>2, SubStep, DrainStep, PutStep, TakeStep, StreamSendStep, LeaveStep, RemoveStep,
     RecvStep, CancelStep
<1>3. CASE UNCHANGED vars
  BY <1>3 DEF vars, Inv, TypeOK, ConstantsFit, PublisherFree, ClientOK, OnItsWay, Latest, Registered
<1>. QED
  BY <1>1, <1>2, <1>3 DEF Next

LEMMA InvImplies == Inv => ChangesDelivered
<1>. SUFFICES ASSUME Inv, NEW c \in Clients
     PROVE  LET w == OnItsWay(c)
            IN  /\ \A i \in DOMAIN w : w[i] > IF i = 1 THEN since[c] ELSE w[i - 1]
                /\ (subs[c] = "subscribed" /\ c \notin todo) =>
                     /\ Len(w) + dropped[c] = published - since[c]
                     /\ published > since[c] => w[Len(w)] = published
  BY DEF Inv, ChangesDelivered, NewestKept
<1>. DEFINE w == OnItsWay(c)
<1>1. TypeOK /\ ClientOK(c)
  BY DEF Inv
<1>2. w \in Numbers /\ GoesUp(w, since[c], Latest(c)) /\ since[c] \in Nat
  BY <1>1, WayType DEF ClientOK, TypeOK
<1>3. (subs[c] = "subscribed" /\ c \notin todo) =>
        /\ Len(w) + dropped[c] = published - since[c]
        /\ published > since[c] => w[Len(w)] = published
  BY <1>1 DEF ClientOK, Registered, Latest
<1>. HIDE DEF w
<1>4. DOMAIN w = 1 .. Len(w) /\ Len(w) \in Nat
  BY <1>2, LenProperties DEF Numbers
<1>5. ASSUME NEW i \in DOMAIN w PROVE w[i] > IF i = 1 THEN since[c] ELSE w[i - 1]
  <2>1. i \in 1 .. Len(w) /\ w[i] \in Nat /\ since[c] < w[i]
    BY <1>2, <1>4 DEF GoesUp
  <2>2. CASE i = 1
    BY <1>2, <2>1, <2>2
  <2>3. CASE i # 1
    <3>1. i - 1 \in 1 .. Len(w) /\ i - 1 < i
      BY <1>4, <2>1, <2>3
    <3>2. w[i - 1] \in Nat /\ w[i - 1] < w[i]
      BY <1>2, <2>1, <3>1 DEF GoesUp
    <3>. QED
      BY <2>1, <2>3, <3>2
  <2>. QED
    BY <2>2, <2>3
<1>. QED
  BY <1>3, <1>5 DEF w

\* Subscriptions.ChangesDelivered: what StateChangePubSub sends reaches each subscriber in
\* order, none twice and none from before it subscribed; only PrioritizedSend's drain of a
\* full channel loses messages, never the newest; and the send after a drain has room.
THEOREM StateChangesReach == Spec => []ChangesDelivered
<1>1. Inv /\ [Next]_vars => Inv'
  BY InvStep
<1>. QED
  BY <1>1, InvInit, InvImplies, PTL DEF Spec
=============================================================================
