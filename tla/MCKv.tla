--------------------------------- MODULE MCKv ---------------------------------
(***************************************************************************)
(* Twelve components about tables and what is built on them, checked in    *)
(* one run; a behaviour is about one of them.  etl: up to three records in *)
(* a buffer of four bytes, every kind of buffer, into tables that are      *)
(* empty or not.  Cursors: byte strings of up to three bytes, of which     *)
(* long keys keep two.  Transactions: a walk in two chunks, two updates    *)
(* and a view with one slot for readers, and Close.  Iterators: pairs of   *)
(* streams of up to four keys that end or fail.  Bitmap index: numbers up  *)
(* to eleven in chunks of two. Fixed-size bitmaps: up to eight or ten bits *)
(* in words of four.  Transaction numbers: five blocks.  Batches: tables   *)
(* of three keys, or of two with duplicates.  Remote reads: two clients    *)
(* with one slot, two commits and a renewal.  Subscriptions: two clients,  *)
(* four messages, channels of two and one.  Gossip: two nodes of different *)
(* protocols and two transactions. Packets: every kind, with up to 57      *)
(* hashes and two transactions of three types.                             *)
(***************************************************************************)
EXTENDS Integers, Sequences, FiniteSets, TLC

CONSTANTS p1, p2, p3, c1, c2, n1, n2, tbl

VARIABLES
  active,  \* the component this behaviour is about
  job, buf, providers, flushed, heap, appending, prevK, table, collected,
  cursor, phase, kind, rows, closing, wg, slots, writer, stored, known,
  undone, handed, pc, calls, txOpen, early, work, did, from, steady, seen,
  stream, x, y, xNext, yNext, err, got, failed, chunks, held, shape, data,
  built, listed, dup, base, mem, deleted, cleared, cur, mode, out, commits,
  renews, call, objects, entry, unary, slipped, dead, mayDie, published, todo,
  drained, subs, since, ch, holding, closed, cancelled, received, dropped,
  state, started, ready, newTxs, conn, events, recent, toSend, net, missed,
  connects, faults, bounds, packet, wire

-----------------------------------------------------------------------------
MCRecords == {<<>>, <<0>>, <<1, 0>>}
Tables == {{}, {<<2, <<1>>>>, <<3, <<0>>>>}}
Job(bt, crit, load, table0, dups) ==
  [bufType |-> bt, critical |-> crit, loadFunc |-> load, table |-> table0, dupSort |-> dups,
   source |-> <<>>, startkey |-> 0, endkey |-> 0, extract |-> <<>>]
Transform(bt, first, last, table0) ==
  [bufType |-> bt, critical |-> FALSE, loadFunc |-> IF bt = "append" THEN "merge" ELSE "identity",
   table |-> table0, dupSort |-> FALSE, source |-> <<<<1, <<1>>>>, <<2, <<>>>>, <<3, <<0, 1>>>>>>,
   startkey |-> first, endkey |-> last, extract |-> <<3, 2, 2>>]
MCJobs ==
  {Job(bt, crit, "identity", t0, FALSE) :
     bt \in {"slice", "oldest"}, crit \in BOOLEAN, t0 \in Tables \union {{<<1, <<1>>>>}}}
  \union {Job(bt, crit, "merge", t0, FALSE) :
            bt \in {"slice", "append"}, crit \in BOOLEAN, t0 \in Tables}
  \union {Job("slice", FALSE, "identity", t0, TRUE) :
            t0 \in Tables \union {{<<1, <<0>>>>, <<1, <<1>>>>}}}
  \union {Transform(bt, first, last, t0) :
            bt \in {"slice", "append", "oldest"}, first \in {0, 2}, last \in {3, 9}, t0 \in Tables}

E == INSTANCE Collector WITH
  Keys <- {1, 2, 3}, Vals <- MCRecords, Jobs <- MCJobs, OptimalSize <- 4, MaxRecords <- 3

MCVals == {<<1>>, <<0, 1>>}
MCKeysOf ==
  [plain |-> {<<0>>, <<0, 1>>, <<0, 1, 1>>, <<1, 1>>},
   auto |-> {<<0, 0, 0>>, <<0, 0, 1>>, <<0, 1, 0>>, <<1, 0, 1>>, <<0>>, <<1>>, <<0, 1>>},
   dup |-> {<<0>>, <<0, 1>>, <<1, 1>>}]
MCSeeks == {<<>>, <<0>>, <<1>>, <<0, 0>>, <<0, 1>>, <<1, 1>>, <<0, 0, 1>>, <<0, 1, 1>>, <<1, 0, 1>>}

C == INSTANCE MdbxCursor WITH
  Kinds <- {"plain", "auto", "dup"}, DupFromLen <- 3, DupToLen <- 2, MaxByte <- 1,
  KeysOf <- MCKeysOf, Vals <- MCVals, Seeks <- MCSeeks, Limits <- {-1, 0, 1, 2}

MCScript == (p1 :> <<"walk", "walk">>) @@ (p2 :> <<"update", "update">>) @@ (p3 :> <<"view">>)

X == INSTANCE MdbxTx WITH
  Procs <- {p1, p2, p3}, Script <- MCScript, Limit <- 1, Keys <- {1, 2}, Deprecated <- tbl

Source(S, v) ==
  [items |-> [i \in 1..Cardinality(S) |-> <<CHOOSE k \in S : Cardinality({j \in S : j <= k}) = i, v>>],
   fails |-> FALSE]
EndsOrFails(s) == {s, [s EXCEPT !.fails = TRUE]}
Sources(v) == UNION {EndsOrFails(Source(S, v)) : S \in SUBSET (1..4)}
Pages(ps) == [items |-> ps, fails |-> FALSE]
PageA == <<<<1, 1>>, <<2, 1>>>>
PageB == <<<<3, 1>>>>
MCWanted(p) == p[1] \in {2, 3}
MCStreams ==
  [op : {"union", "unionKV", "intersect"}, x : Sources(1), y : Sources(2)]
  \union [op : {"filter", "transform"}, x : Sources(1), y : {Pages(<<>>)}]
  \union [op : {"paginate"}, x : {Pages(<<>>)},
          y : UNION {EndsOrFails(Pages(ps)) :
                       ps \in {<<>>, <<PageA>>, <<PageA, PageB>>, <<PageB, PageA, PageA>>}}
              \union {Pages(<<<<>>>>), Pages(<<PageA, PageB, <<>>>>)}]

I == INSTANCE Streams WITH
  Streams <- MCStreams, Wanted <- MCWanted

Intervals(S) == Cardinality({n \in S : n - 1 \notin S})
MCSizeOf(S) == IF Cardinality(S) < 2 * Intervals(S) THEN Cardinality(S) ELSE 2 * Intervals(S)
MCBatches == {{1, 2, 3, 4}, {1, 3, 5, 6}, {2}, {5, 7}, {6, 7, 8, 9}, {4, 6, 8, 10}, {8},
              {3, 4, 9, 10}, {10}}

B == INSTANCE BitmapIndex WITH
  Keys <- {1}, MaxNum <- 11, SizeOf <- MCSizeOf, ChunkLimit <- 2, Batches <- MCBatches



F == INSTANCE FixedBitmaps WITH
  WordBits <- 4, Shapes <- {<<3, 3>>, <<2, 4>>, <<5, 2>>, <<4, 2>>}, PageWords <- 2



N == INSTANCE TxNums WITH
  MaxBlock <- 5, MaxTxNum <- 12

SmallPuts == [dup : {FALSE}, key : {1, 2, 3}, value : {1, 2}]
        \union [dup : {TRUE}, key : {1, 2}, value : {1, 2}]

M == INSTANCE MemoryMutation WITH
  Puts <- SmallPuts



R == INSTANCE RemoteKv WITH
  Clients <- {c1, c2}, Limit <- 1, Keys <- {1, 2, 3}, MaxCommits <- 2, MaxRenews <- 1



U == INSTANCE Subscriptions WITH
  Clients <- {c1, c2}, Cap <- 2, StreamCap <- 1, MaxMessages <- 4

MCProtocol == (n1 :> 66) @@ (n2 :> 68)
MCPerPacket == (66 :> 2) @@ (68 :> 1)
AtFirst(S) == (n1 :> S) @@ (n2 :> {})
AtSecond(S) == (n1 :> {}) @@ (n2 :> S)
MCScenarios ==
  {[started |-> FALSE, pool |-> AtFirst({}), local |-> AtFirst({1}), connects |-> 2, faults |-> 1],
   [started |-> TRUE, pool |-> AtSecond({1, 2}), local |-> AtSecond({}), connects |-> 1, faults |-> 0]}

G == INSTANCE TxGossip WITH
  Nodes <- {n1, n2}, Txs <- {1, 2}, Protocol <- MCProtocol, PerPacket <- MCPerPacket,
  Scenarios <- MCScenarios

Times(b, n) == [i \in 1..n |-> b]
Size(n) == IF n = 0 THEN <<>> ELSE IF n < 256 THEN <<n>> ELSE <<n \div 256, n % 256>>
Nums == {<<>>, <<5>>, <<127>>, <<128>>, <<1, 0>>}
TxOf(t) ==
  [type |-> t, chain |-> <<5>>, nonce |-> <<1>>, tip |-> <<3>>, feeCap |-> <<7>>, gas |-> <<82, 8>>,
   to |-> Times(4, 20), value |-> <<9>>, data |-> <<0, 1>>, access |-> <<>>, replayable |-> FALSE,
   parity |-> 0, r |-> Times(33, 32), s |-> <<2>>]
Variants(tx) ==
  {tx, [tx EXCEPT !.to = <<>>], [tx EXCEPT !.replayable = TRUE], [tx EXCEPT !.parity = 1]}
  \union {[tx EXCEPT !.nonce = n] : n \in Nums \union {Times(255, 8)}}
  \union {[tx EXCEPT !.tip = n] : n \in Nums \union {Times(255, 32)}}
  \union {[tx EXCEPT !.chain = n] : n \in {<<>>, <<9>>}}
  \union {[tx EXCEPT !.s = n] : n \in {<<>>, Times(128, 32), Times(127, 32)}}
  \union {[tx EXCEPT !.data = Times(b, n)] : b \in {0, 200}, n \in {0, 1, 55, 57, 200}}
  \union {[tx EXCEPT !.access = a] : a \in IF tx.type = 0 THEN {} ELSE {<<0>>, <<2>>, <<1, 0, 2>>}}
TwoTxs == {<<TxOf(a), TxOf(b)>> : a, b \in 0..2}
Ids == {<<>>, <<1>>, <<200>>, Times(1, 8)}
HashLists == {[i \in 1..n |-> 3 * i] : n \in {0, 1, 2, 7, 8}}
Distinct(n) == [i \in 1..n |-> [type |-> i % 3, size |-> Size(90 * (i - 1)), hash |-> n - i]]
\* 56 announcements, or 56 bytes of data, are not among them: EncodeString.
MCPackets ==
  [kind : {"txs"}, txs : {<<tx>> : tx \in UNION {Variants(TxOf(t)) : t \in 0..2}} \union {<<>>}, known : {{}}]
  \union [kind : {"txs"}, txs : TwoTxs, known : SUBSET {1, 2}]
  \union [kind : {"pooled"}, id : Ids, txs : TwoTxs \union {<<>>}, known : {{}, {1}}]
  \union [kind : {"hashes"}, hashes : HashLists]
  \union [kind : {"get"}, id : Ids, hashes : HashLists]
  \union [kind : {"announce"},
          items : {Distinct(n) : n \in {0, 1, 2, 3, 55, 57}} \union {Distinct(2) \o Distinct(2)}]
  \union [kind : {"sender"}, nonce : Nums, balance : Nums \union {Times(255, 32)}]
  \union [kind : {"value"}, first : {0, 127, 128, 255},
          len : {1, 2, 54, 55, 56, 57, 253, 254, 255, 256, 257, 65532, 65533, 65535, 65536, 70000}]

T == INSTANCE TxPackets WITH
  Packets <- MCPackets, ChainID <- 5, MaxRlp <- 260

-----------------------------------------------------------------------------
(* The variables of the other components stay what they are.               *)

besideE == <<kind, rows, closing, wg, slots, writer, stored, known, undone,
             handed, pc, calls, txOpen, early, work, did, from, steady, seen,
             stream, x, y, xNext, yNext, err, got, failed, chunks, held,
             shape, data, built, listed, dup, base, mem, deleted, cleared,
             cur, mode, out, commits, renews, call, objects, entry, unary,
             slipped, dead, mayDie, published, todo, drained, subs, since, ch,
             holding, closed, cancelled, received, dropped, state, started,
             ready, newTxs, conn, events, recent, toSend, net, missed,
             connects, faults, bounds, packet, wire>>

besideC == <<job, buf, providers, flushed, heap, appending, prevK, collected,
             cursor, phase, closing, wg, slots, writer, stored, known, undone,
             handed, pc, calls, txOpen, early, work, did, from, steady, seen,
             stream, x, y, xNext, yNext, err, got, failed, chunks, held,
             shape, data, built, listed, dup, base, mem, deleted, cleared,
             cur, mode, out, commits, renews, call, objects, entry, unary,
             slipped, dead, mayDie, published, todo, drained, subs, since, ch,
             holding, closed, cancelled, received, dropped, state, started,
             ready, newTxs, conn, events, recent, toSend, net, missed,
             connects, faults, bounds, packet, wire>>

besideX == <<job, buf, providers, flushed, heap, appending, prevK, table,
             collected, cursor, phase, kind, rows, stream, x, y, xNext, yNext,
             err, got, failed, chunks, held, shape, data, built, listed, dup,
             base, mem, deleted, cleared, cur, mode, out, commits, renews,
             call, objects, entry, unary, slipped, dead, mayDie, published,
             todo, drained, subs, since, ch, holding, closed, cancelled,
             received, dropped, state, started, ready, newTxs, conn, events,
             recent, toSend, net, missed, connects, faults, bounds, packet,
             wire>>

besideI == <<job, buf, providers, flushed, heap, appending, prevK, table,
             collected, cursor, phase, kind, rows, closing, wg, slots, writer,
             stored, known, undone, handed, pc, calls, txOpen, early, work,
             did, from, steady, seen, chunks, held, shape, data, built,
             listed, dup, base, mem, deleted, cleared, cur, mode, out,
             commits, renews, call, objects, entry, unary, slipped, dead,
             mayDie, published, todo, drained, subs, since, ch, holding,
             closed, cancelled, received, dropped, state, started, ready,
             newTxs, conn, events, recent, toSend, net, missed, connects,
             faults, bounds, packet, wire>>

besideB == <<job, buf, providers, flushed, heap, appending, prevK, table,
             collected, cursor, phase, kind, rows, closing, wg, slots, writer,
             stored, known, undone, handed, pc, calls, txOpen, early, work,
             did, from, steady, seen, stream, x, y, xNext, yNext, err, got,
             failed, shape, data, built, listed, dup, base, mem, deleted,
             cleared, cur, mode, out, commits, renews, call, objects, entry,
             unary, slipped, dead, mayDie, published, todo, drained, subs,
             since, ch, holding, closed, cancelled, received, dropped, state,
             started, ready, newTxs, conn, events, recent, toSend, net,
             missed, connects, faults, bounds, packet, wire>>

besideF == <<job, buf, providers, flushed, heap, appending, prevK, table,
             collected, cursor, phase, kind, rows, closing, wg, slots, writer,
             stored, known, undone, handed, pc, calls, txOpen, early, work,
             did, from, steady, seen, stream, x, y, xNext, yNext, err, got,
             failed, chunks, held, dup, base, mem, deleted, cleared, cur,
             mode, out, commits, renews, call, objects, entry, unary, slipped,
             dead, mayDie, published, todo, drained, subs, since, ch, holding,
             closed, cancelled, received, dropped, state, started, ready,
             newTxs, conn, events, recent, toSend, net, missed, connects,
             faults, bounds, packet, wire>>

besideN == <<job, buf, providers, flushed, heap, appending, prevK, collected,
             cursor, phase, kind, rows, closing, wg, slots, writer, stored,
             known, undone, handed, pc, calls, txOpen, early, work, did, from,
             steady, seen, stream, x, y, xNext, yNext, err, got, failed,
             chunks, held, shape, data, built, listed, dup, base, mem,
             deleted, cleared, cur, mode, out, commits, renews, call, objects,
             entry, unary, slipped, dead, mayDie, published, todo, drained,
             subs, since, ch, holding, closed, cancelled, received, dropped,
             state, started, ready, newTxs, conn, events, recent, toSend, net,
             missed, connects, faults, bounds, packet, wire>>

besideM == <<job, buf, providers, flushed, heap, appending, prevK, table,
             collected, cursor, phase, kind, rows, closing, wg, slots, writer,
             stored, known, undone, handed, pc, calls, txOpen, early, work,
             did, from, steady, seen, stream, x, y, xNext, yNext, err, got,
             failed, chunks, held, shape, data, built, listed, commits,
             renews, call, objects, entry, unary, slipped, dead, mayDie,
             published, todo, drained, subs, since, ch, holding, closed,
             cancelled, received, dropped, state, started, ready, newTxs,
             conn, events, recent, toSend, net, missed, connects, faults,
             bounds, packet, wire>>

besideR == <<job, buf, providers, flushed, heap, appending, prevK, table,
             collected, phase, kind, rows, closing, wg, writer, known, undone,
             handed, pc, calls, txOpen, early, work, did, from, seen, x, y,
             xNext, yNext, err, failed, chunks, held, shape, data, built,
             listed, dup, base, mem, deleted, cleared, cur, mode, out,
             published, todo, drained, subs, since, ch, holding, closed,
             cancelled, received, dropped, state, started, ready, newTxs,
             conn, events, recent, toSend, net, missed, connects, faults,
             bounds, packet, wire>>

besideU == <<job, buf, providers, flushed, heap, appending, prevK, table,
             collected, cursor, phase, kind, rows, closing, wg, slots, writer,
             stored, known, undone, handed, pc, calls, txOpen, early, work,
             did, from, steady, seen, x, y, xNext, yNext, err, got, failed,
             chunks, held, shape, data, built, listed, dup, base, mem,
             deleted, cleared, cur, mode, out, commits, renews, call, objects,
             entry, unary, slipped, dead, mayDie, state, started, ready,
             newTxs, conn, events, recent, toSend, net, missed, connects,
             faults, bounds, packet, wire>>

besideG == <<job, buf, providers, flushed, heap, appending, prevK, table,
             collected, cursor, phase, kind, rows, closing, wg, slots, writer,
             stored, known, undone, handed, pc, calls, txOpen, early, work,
             did, from, steady, seen, stream, x, y, xNext, yNext, err, got,
             failed, chunks, held, shape, data, built, listed, dup, base, mem,
             deleted, cleared, cur, mode, out, commits, renews, call, objects,
             entry, unary, slipped, dead, mayDie, published, todo, drained,
             subs, since, ch, holding, closed, cancelled, received, dropped,
             packet, wire>>

besideT == <<job, buf, providers, flushed, heap, appending, prevK, table,
             collected, cursor, kind, rows, closing, wg, slots, writer,
             stored, known, undone, handed, pc, calls, txOpen, early, work,
             did, from, steady, seen, stream, x, y, xNext, yNext, err, failed,
             chunks, held, shape, data, built, listed, dup, base, mem,
             deleted, cleared, cur, mode, out, commits, renews, call, objects,
             entry, unary, slipped, dead, mayDie, published, todo, drained,
             subs, since, ch, holding, closed, cancelled, received, dropped,
             state, started, ready, newTxs, conn, events, recent, toSend, net,
             missed, connects, faults, bounds>>

InitE ==
  /\ active = "etl" /\ E!Init
  /\ kind = <<>> /\ rows = <<>> /\ closing = <<>> /\ wg = <<>>
  /\ slots = <<>> /\ writer = <<>> /\ stored = <<>> /\ known = <<>>
  /\ undone = <<>> /\ handed = <<>> /\ pc = <<>> /\ calls = <<>>
  /\ txOpen = <<>> /\ early = <<>> /\ work = <<>> /\ did = <<>>
  /\ from = <<>> /\ steady = <<>> /\ seen = <<>> /\ stream = <<>> /\ x = <<>>
  /\ y = <<>> /\ xNext = <<>> /\ yNext = <<>> /\ err = <<>> /\ got = <<>>
  /\ failed = <<>> /\ chunks = <<>> /\ held = <<>> /\ shape = <<>>
  /\ data = <<>> /\ built = <<>> /\ listed = <<>> /\ dup = <<>>
  /\ base = <<>> /\ mem = <<>> /\ deleted = <<>> /\ cleared = <<>>
  /\ cur = <<>> /\ mode = <<>> /\ out = <<>> /\ commits = <<>>
  /\ renews = <<>> /\ call = <<>> /\ objects = <<>> /\ entry = <<>>
  /\ unary = <<>> /\ slipped = <<>> /\ dead = <<>> /\ mayDie = <<>>
  /\ published = <<>> /\ todo = <<>> /\ drained = <<>> /\ subs = <<>>
  /\ since = <<>> /\ ch = <<>> /\ holding = <<>> /\ closed = <<>>
  /\ cancelled = <<>> /\ received = <<>> /\ dropped = <<>> /\ state = <<>>
  /\ started = <<>> /\ ready = <<>> /\ newTxs = <<>> /\ conn = <<>>
  /\ events = <<>> /\ recent = <<>> /\ toSend = <<>> /\ net = <<>>
  /\ missed = <<>> /\ connects = <<>> /\ faults = <<>> /\ bounds = <<>>
  /\ packet = <<>> /\ wire = <<>>

InitC ==
  /\ active = "cursor" /\ C!Init
  /\ job = <<>> /\ buf = <<>> /\ providers = <<>> /\ flushed = <<>>
  /\ heap = <<>> /\ appending = <<>> /\ prevK = <<>> /\ collected = <<>>
  /\ cursor = <<>> /\ phase = <<>> /\ closing = <<>> /\ wg = <<>>
  /\ slots = <<>> /\ writer = <<>> /\ stored = <<>> /\ known = <<>>
  /\ undone = <<>> /\ handed = <<>> /\ pc = <<>> /\ calls = <<>>
  /\ txOpen = <<>> /\ early = <<>> /\ work = <<>> /\ did = <<>>
  /\ from = <<>> /\ steady = <<>> /\ seen = <<>> /\ stream = <<>> /\ x = <<>>
  /\ y = <<>> /\ xNext = <<>> /\ yNext = <<>> /\ err = <<>> /\ got = <<>>
  /\ failed = <<>> /\ chunks = <<>> /\ held = <<>> /\ shape = <<>>
  /\ data = <<>> /\ built = <<>> /\ listed = <<>> /\ dup = <<>>
  /\ base = <<>> /\ mem = <<>> /\ deleted = <<>> /\ cleared = <<>>
  /\ cur = <<>> /\ mode = <<>> /\ out = <<>> /\ commits = <<>>
  /\ renews = <<>> /\ call = <<>> /\ objects = <<>> /\ entry = <<>>
  /\ unary = <<>> /\ slipped = <<>> /\ dead = <<>> /\ mayDie = <<>>
  /\ published = <<>> /\ todo = <<>> /\ drained = <<>> /\ subs = <<>>
  /\ since = <<>> /\ ch = <<>> /\ holding = <<>> /\ closed = <<>>
  /\ cancelled = <<>> /\ received = <<>> /\ dropped = <<>> /\ state = <<>>
  /\ started = <<>> /\ ready = <<>> /\ newTxs = <<>> /\ conn = <<>>
  /\ events = <<>> /\ recent = <<>> /\ toSend = <<>> /\ net = <<>>
  /\ missed = <<>> /\ connects = <<>> /\ faults = <<>> /\ bounds = <<>>
  /\ packet = <<>> /\ wire = <<>>

InitX ==
  /\ active = "transactions" /\ X!Init
  /\ job = <<>> /\ buf = <<>> /\ providers = <<>> /\ flushed = <<>>
  /\ heap = <<>> /\ appending = <<>> /\ prevK = <<>> /\ table = <<>>
  /\ collected = <<>> /\ cursor = <<>> /\ phase = <<>> /\ kind = <<>>
  /\ rows = <<>> /\ stream = <<>> /\ x = <<>> /\ y = <<>> /\ xNext = <<>>
  /\ yNext = <<>> /\ err = <<>> /\ got = <<>> /\ failed = <<>>
  /\ chunks = <<>> /\ held = <<>> /\ shape = <<>> /\ data = <<>>
  /\ built = <<>> /\ listed = <<>> /\ dup = <<>> /\ base = <<>> /\ mem = <<>>
  /\ deleted = <<>> /\ cleared = <<>> /\ cur = <<>> /\ mode = <<>>
  /\ out = <<>> /\ commits = <<>> /\ renews = <<>> /\ call = <<>>
  /\ objects = <<>> /\ entry = <<>> /\ unary = <<>> /\ slipped = <<>>
  /\ dead = <<>> /\ mayDie = <<>> /\ published = <<>> /\ todo = <<>>
  /\ drained = <<>> /\ subs = <<>> /\ since = <<>> /\ ch = <<>>
  /\ holding = <<>> /\ closed = <<>> /\ cancelled = <<>> /\ received = <<>>
  /\ dropped = <<>> /\ state = <<>> /\ started = <<>> /\ ready = <<>>
  /\ newTxs = <<>> /\ conn = <<>> /\ events = <<>> /\ recent = <<>>
  /\ toSend = <<>> /\ net = <<>> /\ missed = <<>> /\ connects = <<>>
  /\ faults = <<>> /\ bounds = <<>> /\ packet = <<>> /\ wire = <<>>

InitI ==
  /\ active = "streams" /\ I!Init
  /\ job = <<>> /\ buf = <<>> /\ providers = <<>> /\ flushed = <<>>
  /\ heap = <<>> /\ appending = <<>> /\ prevK = <<>> /\ table = <<>>
  /\ collected = <<>> /\ cursor = <<>> /\ phase = <<>> /\ kind = <<>>
  /\ rows = <<>> /\ closing = <<>> /\ wg = <<>> /\ slots = <<>>
  /\ writer = <<>> /\ stored = <<>> /\ known = <<>> /\ undone = <<>>
  /\ handed = <<>> /\ pc = <<>> /\ calls = <<>> /\ txOpen = <<>>
  /\ early = <<>> /\ work = <<>> /\ did = <<>> /\ from = <<>>
  /\ steady = <<>> /\ seen = <<>> /\ chunks = <<>> /\ held = <<>>
  /\ shape = <<>> /\ data = <<>> /\ built = <<>> /\ listed = <<>>
  /\ dup = <<>> /\ base = <<>> /\ mem = <<>> /\ deleted = <<>>
  /\ cleared = <<>> /\ cur = <<>> /\ mode = <<>> /\ out = <<>>
  /\ commits = <<>> /\ renews = <<>> /\ call = <<>> /\ objects = <<>>
  /\ entry = <<>> /\ unary = <<>> /\ slipped = <<>> /\ dead = <<>>
  /\ mayDie = <<>> /\ published = <<>> /\ todo = <<>> /\ drained = <<>>
  /\ subs = <<>> /\ since = <<>> /\ ch = <<>> /\ holding = <<>>
  /\ closed = <<>> /\ cancelled = <<>> /\ received = <<>> /\ dropped = <<>>
  /\ state = <<>> /\ started = <<>> /\ ready = <<>> /\ newTxs = <<>>
  /\ conn = <<>> /\ events = <<>> /\ recent = <<>> /\ toSend = <<>>
  /\ net = <<>> /\ missed = <<>> /\ connects = <<>> /\ faults = <<>>
  /\ bounds = <<>> /\ packet = <<>> /\ wire = <<>>

InitB ==
  /\ active = "bitmaps" /\ B!Init
  /\ job = <<>> /\ buf = <<>> /\ providers = <<>> /\ flushed = <<>>
  /\ heap = <<>> /\ appending = <<>> /\ prevK = <<>> /\ table = <<>>
  /\ collected = <<>> /\ cursor = <<>> /\ phase = <<>> /\ kind = <<>>
  /\ rows = <<>> /\ closing = <<>> /\ wg = <<>> /\ slots = <<>>
  /\ writer = <<>> /\ stored = <<>> /\ known = <<>> /\ undone = <<>>
  /\ handed = <<>> /\ pc = <<>> /\ calls = <<>> /\ txOpen = <<>>
  /\ early = <<>> /\ work = <<>> /\ did = <<>> /\ from = <<>>
  /\ steady = <<>> /\ seen = <<>> /\ stream = <<>> /\ x = <<>> /\ y = <<>>
  /\ xNext = <<>> /\ yNext = <<>> /\ err = <<>> /\ got = <<>>
  /\ failed = <<>> /\ shape = <<>> /\ data = <<>> /\ built = <<>>
  /\ listed = <<>> /\ dup = <<>> /\ base = <<>> /\ mem = <<>>
  /\ deleted = <<>> /\ cleared = <<>> /\ cur = <<>> /\ mode = <<>>
  /\ out = <<>> /\ commits = <<>> /\ renews = <<>> /\ call = <<>>
  /\ objects = <<>> /\ entry = <<>> /\ unary = <<>> /\ slipped = <<>>
  /\ dead = <<>> /\ mayDie = <<>> /\ published = <<>> /\ todo = <<>>
  /\ drained = <<>> /\ subs = <<>> /\ since = <<>> /\ ch = <<>>
  /\ holding = <<>> /\ closed = <<>> /\ cancelled = <<>> /\ received = <<>>
  /\ dropped = <<>> /\ state = <<>> /\ started = <<>> /\ ready = <<>>
  /\ newTxs = <<>> /\ conn = <<>> /\ events = <<>> /\ recent = <<>>
  /\ toSend = <<>> /\ net = <<>> /\ missed = <<>> /\ connects = <<>>
  /\ faults = <<>> /\ bounds = <<>> /\ packet = <<>> /\ wire = <<>>

InitF ==
  /\ active = "packed" /\ F!Init
  /\ job = <<>> /\ buf = <<>> /\ providers = <<>> /\ flushed = <<>>
  /\ heap = <<>> /\ appending = <<>> /\ prevK = <<>> /\ table = <<>>
  /\ collected = <<>> /\ cursor = <<>> /\ phase = <<>> /\ kind = <<>>
  /\ rows = <<>> /\ closing = <<>> /\ wg = <<>> /\ slots = <<>>
  /\ writer = <<>> /\ stored = <<>> /\ known = <<>> /\ undone = <<>>
  /\ handed = <<>> /\ pc = <<>> /\ calls = <<>> /\ txOpen = <<>>
  /\ early = <<>> /\ work = <<>> /\ did = <<>> /\ from = <<>>
  /\ steady = <<>> /\ seen = <<>> /\ stream = <<>> /\ x = <<>> /\ y = <<>>
  /\ xNext = <<>> /\ yNext = <<>> /\ err = <<>> /\ got = <<>>
  /\ failed = <<>> /\ chunks = <<>> /\ held = <<>> /\ dup = <<>>
  /\ base = <<>> /\ mem = <<>> /\ deleted = <<>> /\ cleared = <<>>
  /\ cur = <<>> /\ mode = <<>> /\ out = <<>> /\ commits = <<>>
  /\ renews = <<>> /\ call = <<>> /\ objects = <<>> /\ entry = <<>>
  /\ unary = <<>> /\ slipped = <<>> /\ dead = <<>> /\ mayDie = <<>>
  /\ published = <<>> /\ todo = <<>> /\ drained = <<>> /\ subs = <<>>
  /\ since = <<>> /\ ch = <<>> /\ holding = <<>> /\ closed = <<>>
  /\ cancelled = <<>> /\ received = <<>> /\ dropped = <<>> /\ state = <<>>
  /\ started = <<>> /\ ready = <<>> /\ newTxs = <<>> /\ conn = <<>>
  /\ events = <<>> /\ recent = <<>> /\ toSend = <<>> /\ net = <<>>
  /\ missed = <<>> /\ connects = <<>> /\ faults = <<>> /\ bounds = <<>>
  /\ packet = <<>> /\ wire = <<>>

InitN ==
  /\ active = "txnums" /\ N!Init
  /\ job = <<>> /\ buf = <<>> /\ providers = <<>> /\ flushed = <<>>
  /\ heap = <<>> /\ appending = <<>> /\ prevK = <<>> /\ collected = <<>>
  /\ cursor = <<>> /\ phase = <<>> /\ kind = <<>> /\ rows = <<>>
  /\ closing = <<>> /\ wg = <<>> /\ slots = <<>> /\ writer = <<>>
  /\ stored = <<>> /\ known = <<>> /\ undone = <<>> /\ handed = <<>>
  /\ pc = <<>> /\ calls = <<>> /\ txOpen = <<>> /\ early = <<>>
  /\ work = <<>> /\ did = <<>> /\ from = <<>> /\ steady = <<>> /\ seen = <<>>
  /\ stream = <<>> /\ x = <<>> /\ y = <<>> /\ xNext = <<>> /\ yNext = <<>>
  /\ err = <<>> /\ got = <<>> /\ failed = <<>> /\ chunks = <<>>
  /\ held = <<>> /\ shape = <<>> /\ data = <<>> /\ built = <<>>
  /\ listed = <<>> /\ dup = <<>> /\ base = <<>> /\ mem = <<>>
  /\ deleted = <<>> /\ cleared = <<>> /\ cur = <<>> /\ mode = <<>>
  /\ out = <<>> /\ commits = <<>> /\ renews = <<>> /\ call = <<>>
  /\ objects = <<>> /\ entry = <<>> /\ unary = <<>> /\ slipped = <<>>
  /\ dead = <<>> /\ mayDie = <<>> /\ published = <<>> /\ todo = <<>>
  /\ drained = <<>> /\ subs = <<>> /\ since = <<>> /\ ch = <<>>
  /\ holding = <<>> /\ closed = <<>> /\ cancelled = <<>> /\ received = <<>>
  /\ dropped = <<>> /\ state = <<>> /\ started = <<>> /\ ready = <<>>
  /\ newTxs = <<>> /\ conn = <<>> /\ events = <<>> /\ recent = <<>>
  /\ toSend = <<>> /\ net = <<>> /\ missed = <<>> /\ connects = <<>>
  /\ faults = <<>> /\ bounds = <<>> /\ packet = <<>> /\ wire = <<>>

InitM ==
  /\ active = "batch" /\ M!Init
  /\ job = <<>> /\ buf = <<>> /\ providers = <<>> /\ flushed = <<>>
  /\ heap = <<>> /\ appending = <<>> /\ prevK = <<>> /\ table = <<>>
  /\ collected = <<>> /\ cursor = <<>> /\ phase = <<>> /\ kind = <<>>
  /\ rows = <<>> /\ closing = <<>> /\ wg = <<>> /\ slots = <<>>
  /\ writer = <<>> /\ stored = <<>> /\ known = <<>> /\ undone = <<>>
  /\ handed = <<>> /\ pc = <<>> /\ calls = <<>> /\ txOpen = <<>>
  /\ early = <<>> /\ work = <<>> /\ did = <<>> /\ from = <<>>
  /\ steady = <<>> /\ seen = <<>> /\ stream = <<>> /\ x = <<>> /\ y = <<>>
  /\ xNext = <<>> /\ yNext = <<>> /\ err = <<>> /\ got = <<>>
  /\ failed = <<>> /\ chunks = <<>> /\ held = <<>> /\ shape = <<>>
  /\ data = <<>> /\ built = <<>> /\ listed = <<>> /\ commits = <<>>
  /\ renews = <<>> /\ call = <<>> /\ objects = <<>> /\ entry = <<>>
  /\ unary = <<>> /\ slipped = <<>> /\ dead = <<>> /\ mayDie = <<>>
  /\ published = <<>> /\ todo = <<>> /\ drained = <<>> /\ subs = <<>>
  /\ since = <<>> /\ ch = <<>> /\ holding = <<>> /\ closed = <<>>
  /\ cancelled = <<>> /\ received = <<>> /\ dropped = <<>> /\ state = <<>>
  /\ started = <<>> /\ ready = <<>> /\ newTxs = <<>> /\ conn = <<>>
  /\ events = <<>> /\ recent = <<>> /\ toSend = <<>> /\ net = <<>>
  /\ missed = <<>> /\ connects = <<>> /\ faults = <<>> /\ bounds = <<>>
  /\ packet = <<>> /\ wire = <<>>

InitR ==
  /\ active = "remote" /\ R!Init
  /\ job = <<>> /\ buf = <<>> /\ providers = <<>> /\ flushed = <<>>
  /\ heap = <<>> /\ appending = <<>> /\ prevK = <<>> /\ table = <<>>
  /\ collected = <<>> /\ phase = <<>> /\ kind = <<>> /\ rows = <<>>
  /\ closing = <<>> /\ wg = <<>> /\ writer = <<>> /\ known = <<>>
  /\ undone = <<>> /\ handed = <<>> /\ pc = <<>> /\ calls = <<>>
  /\ txOpen = <<>> /\ early = <<>> /\ work = <<>> /\ did = <<>>
  /\ from = <<>> /\ seen = <<>> /\ x = <<>> /\ y = <<>> /\ xNext = <<>>
  /\ yNext = <<>> /\ err = <<>> /\ failed = <<>> /\ chunks = <<>>
  /\ held = <<>> /\ shape = <<>> /\ data = <<>> /\ built = <<>>
  /\ listed = <<>> /\ dup = <<>> /\ base = <<>> /\ mem = <<>>
  /\ deleted = <<>> /\ cleared = <<>> /\ cur = <<>> /\ mode = <<>>
  /\ out = <<>> /\ published = <<>> /\ todo = <<>> /\ drained = <<>>
  /\ subs = <<>> /\ since = <<>> /\ ch = <<>> /\ holding = <<>>
  /\ closed = <<>> /\ cancelled = <<>> /\ received = <<>> /\ dropped = <<>>
  /\ state = <<>> /\ started = <<>> /\ ready = <<>> /\ newTxs = <<>>
  /\ conn = <<>> /\ events = <<>> /\ recent = <<>> /\ toSend = <<>>
  /\ net = <<>> /\ missed = <<>> /\ connects = <<>> /\ faults = <<>>
  /\ bounds = <<>> /\ packet = <<>> /\ wire = <<>>

InitU ==
  /\ active = "subscriptions" /\ U!Init
  /\ job = <<>> /\ buf = <<>> /\ providers = <<>> /\ flushed = <<>>
  /\ heap = <<>> /\ appending = <<>> /\ prevK = <<>> /\ table = <<>>
  /\ collected = <<>> /\ cursor = <<>> /\ phase = <<>> /\ kind = <<>>
  /\ rows = <<>> /\ closing = <<>> /\ wg = <<>> /\ slots = <<>>
  /\ writer = <<>> /\ stored = <<>> /\ known = <<>> /\ undone = <<>>
  /\ handed = <<>> /\ pc = <<>> /\ calls = <<>> /\ txOpen = <<>>
  /\ early = <<>> /\ work = <<>> /\ did = <<>> /\ from = <<>>
  /\ steady = <<>> /\ seen = <<>> /\ x = <<>> /\ y = <<>> /\ xNext = <<>>
  /\ yNext = <<>> /\ err = <<>> /\ got = <<>> /\ failed = <<>>
  /\ chunks = <<>> /\ held = <<>> /\ shape = <<>> /\ data = <<>>
  /\ built = <<>> /\ listed = <<>> /\ dup = <<>> /\ base = <<>> /\ mem = <<>>
  /\ deleted = <<>> /\ cleared = <<>> /\ cur = <<>> /\ mode = <<>>
  /\ out = <<>> /\ commits = <<>> /\ renews = <<>> /\ call = <<>>
  /\ objects = <<>> /\ entry = <<>> /\ unary = <<>> /\ slipped = <<>>
  /\ dead = <<>> /\ mayDie = <<>> /\ state = <<>> /\ started = <<>>
  /\ ready = <<>> /\ newTxs = <<>> /\ conn = <<>> /\ events = <<>>
  /\ recent = <<>> /\ toSend = <<>> /\ net = <<>> /\ missed = <<>>
  /\ connects = <<>> /\ faults = <<>> /\ bounds = <<>> /\ packet = <<>>
  /\ wire = <<>>

InitG ==
  /\ active = "gossip" /\ G!Init
  /\ job = <<>> /\ buf = <<>> /\ providers = <<>> /\ flushed = <<>>
  /\ heap = <<>> /\ appending = <<>> /\ prevK = <<>> /\ table = <<>>
  /\ collected = <<>> /\ cursor = <<>> /\ phase = <<>> /\ kind = <<>>
  /\ rows = <<>> /\ closing = <<>> /\ wg = <<>> /\ slots = <<>>
  /\ writer = <<>> /\ stored = <<>> /\ known = <<>> /\ undone = <<>>
  /\ handed = <<>> /\ pc = <<>> /\ calls = <<>> /\ txOpen = <<>>
  /\ early = <<>> /\ work = <<>> /\ did = <<>> /\ from = <<>>
  /\ steady = <<>> /\ seen = <<>> /\ stream = <<>> /\ x = <<>> /\ y = <<>>
  /\ xNext = <<>> /\ yNext = <<>> /\ err = <<>> /\ got = <<>>
  /\ failed = <<>> /\ chunks = <<>> /\ held = <<>> /\ shape = <<>>
  /\ data = <<>> /\ built = <<>> /\ listed = <<>> /\ dup = <<>>
  /\ base = <<>> /\ mem = <<>> /\ deleted = <<>> /\ cleared = <<>>
  /\ cur = <<>> /\ mode = <<>> /\ out = <<>> /\ commits = <<>>
  /\ renews = <<>> /\ call = <<>> /\ objects = <<>> /\ entry = <<>>
  /\ unary = <<>> /\ slipped = <<>> /\ dead = <<>> /\ mayDie = <<>>
  /\ published = <<>> /\ todo = <<>> /\ drained = <<>> /\ subs = <<>>
  /\ since = <<>> /\ ch = <<>> /\ holding = <<>> /\ closed = <<>>
  /\ cancelled = <<>> /\ received = <<>> /\ dropped = <<>> /\ packet = <<>>
  /\ wire = <<>>

InitT ==
  /\ active = "packets" /\ T!Init
  /\ job = <<>> /\ buf = <<>> /\ providers = <<>> /\ flushed = <<>>
  /\ heap = <<>> /\ appending = <<>> /\ prevK = <<>> /\ table = <<>>
  /\ collected = <<>> /\ cursor = <<>> /\ kind = <<>> /\ rows = <<>>
  /\ closing = <<>> /\ wg = <<>> /\ slots = <<>> /\ writer = <<>>
  /\ stored = <<>> /\ known = <<>> /\ undone = <<>> /\ handed = <<>>
  /\ pc = <<>> /\ calls = <<>> /\ txOpen = <<>> /\ early = <<>>
  /\ work = <<>> /\ did = <<>> /\ from = <<>> /\ steady = <<>> /\ seen = <<>>
  /\ stream = <<>> /\ x = <<>> /\ y = <<>> /\ xNext = <<>> /\ yNext = <<>>
  /\ err = <<>> /\ failed = <<>> /\ chunks = <<>> /\ held = <<>>
  /\ shape = <<>> /\ data = <<>> /\ built = <<>> /\ listed = <<>>
  /\ dup = <<>> /\ base = <<>> /\ mem = <<>> /\ deleted = <<>>
  /\ cleared = <<>> /\ cur = <<>> /\ mode = <<>> /\ out = <<>>
  /\ commits = <<>> /\ renews = <<>> /\ call = <<>> /\ objects = <<>>
  /\ entry = <<>> /\ unary = <<>> /\ slipped = <<>> /\ dead = <<>>
  /\ mayDie = <<>> /\ published = <<>> /\ todo = <<>> /\ drained = <<>>
  /\ subs = <<>> /\ since = <<>> /\ ch = <<>> /\ holding = <<>>
  /\ closed = <<>> /\ cancelled = <<>> /\ received = <<>> /\ dropped = <<>>
  /\ state = <<>> /\ started = <<>> /\ ready = <<>> /\ newTxs = <<>>
  /\ conn = <<>> /\ events = <<>> /\ recent = <<>> /\ toSend = <<>>
  /\ net = <<>> /\ missed = <<>> /\ connects = <<>> /\ faults = <<>>
  /\ bounds = <<>>

Init == InitE \/ InitC \/ InitX \/ InitI \/ InitB \/ InitF \/ InitN \/ InitM \/ InitR \/ InitU \/ InitG \/ InitT

Next ==
  \/ active = "etl" /\ E!Next /\ UNCHANGED <<active, besideE>>
  \/ active = "cursor" /\ C!Next /\ UNCHANGED <<active, besideC>>
  \/ active = "transactions" /\ X!Next /\ UNCHANGED <<active, besideX>>
  \/ active = "streams" /\ I!Next /\ UNCHANGED <<active, besideI>>
  \/ active = "bitmaps" /\ B!Next /\ UNCHANGED <<active, besideB>>
  \/ active = "packed" /\ F!Next /\ UNCHANGED <<active, besideF>>
  \/ active = "txnums" /\ N!Next /\ UNCHANGED <<active, besideN>>
  \/ active = "batch" /\ M!Step /\ UNCHANGED <<active, besideM>>
  \/ active = "remote" /\ R!Next /\ UNCHANGED <<active, besideR>>
  \/ active = "subscriptions" /\ U!Next /\ UNCHANGED <<active, besideU>>
  \/ active = "gossip" /\ G!Next /\ UNCHANGED <<active, besideG>>
  \/ active = "packets" /\ T!Next /\ UNCHANGED <<active, besideT>>

vars == <<active, job, buf, providers, flushed, heap, appending, prevK, table,
          collected, cursor, phase, kind, rows, closing, wg, slots, writer,
          stored, known, undone, handed, pc, calls, txOpen, early, work, did,
          from, steady, seen, stream, x, y, xNext, yNext, err, got, failed,
          chunks, held, shape, data, built, listed, dup, base, mem, deleted,
          cleared, cur, mode, out, commits, renews, call, objects, entry,
          unary, slipped, dead, mayDie, published, todo, drained, subs, since,
          ch, holding, closed, cancelled, received, dropped, state, started,
          ready, newTxs, conn, events, recent, toSend, net, missed, connects,
          faults, bounds, packet, wire>>

Spec == Init /\ [][Next]_vars

-----------------------------------------------------------------------------
\* A load leaves the table as if the collected records had been applied to it
\* in order, in whichever buffers and files they were sorted on the way (etl).
LoadReplays == active = "etl" => E!LoadReplays

\* What was put in a table is what its readers find, whatever the encoding of
\* the rows: by every method of a cursor (kv/mdbx), as bitmaps cut into chunks
\* or packed into words (kv/bitmapdb), as the transaction numbers of blocks
\* (kv/rawdbv3), and through the union, intersection, filter and paging of
\* iterators (kv/iter), where an error of a source is not taken for its end,
\* except by an intersection.
TablesReadBack ==
  /\ active = "cursor" => C!TableReads
  /\ active = "streams" => I!StreamsCombine
  /\ active = "bitmaps" => B!ChunksHold
  /\ active = "packed" => F!BitmapsReadBack
  /\ active = "txnums" => N!BlocksOfTxNums

\* Begin, Commit, Rollback and Close of several goroutines leak nothing, hand
\* out a number of a sequence once and keep the registry of tables and the walk
\* in chunks right (kv/mdbx, kv BigChunks).
TransactionsSound == active = "transactions" => X!TransactionsSound

\* A batch over a read-only transaction is one ordered table (OrderedTable):
\* what its merging cursor shows, what its writes do, and what Flush leaves;
\* only Last, when the last key of the database was deleted, may answer
\* anything else (kv/memdb).
RefinesTable ==
  /\ active = "batch" => M!Table!Init
  /\ [][active = "batch" =>
          /\ M!Table!Step \/ UNCHANGED M!Table!vars
          /\ M!Last => M!LastDeleted \/ out' = M!Table!Greatest(M!Effective)]_vars

\* A walk over gRPC goes on where it was when the server reopens its
\* transaction, no transaction is used after its rollback but by a call that
\* was there before, and none is kept (kv/remotedb, kv/remotedbserver); state
\* changes reach a subscriber in order, a slow one loses old ones and never the
\* newest, and the publisher waits for nobody (StateChangePubSub, package
\* direct).
RemoteReads ==
  /\ active = "remote" => R!RemoteReads
  /\ active = "subscriptions" => U!ChangesDelivered

\* A transaction that a node has promoted is known to each of its peers, on its
\* way, or was lost by a fault the code does not repair (txpool fetch.go,
\* send.go, MainLoop). The packets it travels in are read as what was written:
\* the lengths that were computed are the lengths written, and the bytes are
\* those of the RLP of their items (types/txn_packets.go, types/txn.go, rlp).
GossipReaches ==
  /\ active = "gossip" => G!GossipReaches
  /\ active = "packets" => T!PacketsReadBack

===============================================================================
