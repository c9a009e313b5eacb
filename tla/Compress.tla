------------------------------- MODULE Compress -------------------------------
(***************************************************************************)
(* Segment files: package compress (compress.go, parallel_compress.go,     *)
(* decompress.go) and the match finder of package patricia it calls.       *)
(*                                                                         *)
(* A Compressor takes words one at a time.  Compress builds a dictionary   *)
(* of repeated substrings, hands the words to a pool of workers that cover *)
(* them with dictionary patterns, collects the results in the order of the *)
(* words, builds two Huffman codes (patterns, positions) from the counts   *)
(* and writes the file.  A Getter walks the file with nothing but the two  *)
(* depth tables.                                                           *)
(*                                                                         *)
(* Literals of the code are constants here so that small words reach every *)
(* case: 8 bits in a byte (ByteBits), tables of 9 bits (TableWidths), the  *)
(* price 4 of a pattern (PatternCost), minPatternLen 5, maxPatternLen 128, *)
(* superstringLimit and samplingFactor, maxDictPatterns, and the capacity  *)
(* of the two channels.                                                    *)
(***************************************************************************)
EXTENDS Integers, FiniteSets, SequencesExt, TLC

CONSTANTS Words,             \* the words a caller may add: sequences of bytes
          MaxWords,          \* bound on the number of words added
          Pools,             \* sets of reduceDictWorker goroutines; {} is workers == 1
          StaleLcp,          \* what a reused lcp buffer may hold in its last entry
          ChCap, OutCap,     \* capacities of the channels ch and out
          ByteBits,
          TableWidths,       \* bits a decoding table takes at a time (the code: 9)
          Condensities,      \* values of condensePatternTableBitThreshold
          PatternCost, MinPatternLen, MaxPatternLen, MinPatternScore,
          MaxDictPatterns, SuperstringLimit, SamplingFactor

\* Two bytes hold a table's index from any bit of the first.
TablesReadTwoBytes == TableWidths \subseteq 1 .. ByteBits + 1
\* No word fills a superstring alone: an empty superstring has no suffix array.
WordsFit == \A w \in Words : 2 * Len(w) + 2 <= SuperstringLimit

VARIABLES
  phase,      \* "adding", "feeding", "draining", "waiting", "written", "failed", "reading"
  pool,       \* the worker goroutines
  words,      \* the .idt file: [v, compressed] in the order added
  super,      \* the superstring being filled: [words, len, count]
  scores,     \* what the superstring workers have collected: word -> score
  dict,       \* patterns by number, best first: [word, score]
  ch, out,    \* the channels to and from the workers
  sending,    \* the word main is sending on ch, in a sequence of at most one
  busy,       \* worker -> what it holds, in a sequence of at most one
  posMaps,    \* worker or "main" -> position -> count
  uses,       \* pattern number -> uses
  queue,      \* CompressionQueue: set of [order, cover]
  inCount, outCount, closedOut,
  tmp,        \* the intermediate file: covers in the order written
  file,       \* the segment file, in a sequence of at most one
  dec,        \* an open Decompressor, in a sequence of at most one
  getter      \* its Getter: dataP, and the number of the word there

compressor == <<words, super, scores, dict>>
channels == <<ch, out, sending, busy, posMaps, uses>>
collected == <<queue, outCount, closedOut, tmp>>
reading == <<dec, getter>>
vars == <<phase, pool, compressor, channels, collected, inCount, file, reading>>

-----------------------------------------------------------------------------
(* Building the dictionary. *)

Apply(Op(_), x) == Op(x)

Sorted(S, Less(_, _)) ==
  [i \in 1 .. Cardinality(S) |->
    CHOOSE x \in S : Cardinality({y \in S : Less(y, x)}) = i - 1]

BytesLess(a, b) ==
  \E k \in 0 .. Len(a) :
    /\ k < Len(b)
    /\ \A m \in 1 .. k : a[m] = b[m]
    /\ k = Len(a) \/ a[k + 1] < b[k + 1]

\* What the marker pair after a word does to the text: no match runs over it.
Stop == -1

Text(ws) == FoldLeft(LAMBDA t, w : t \o Append(w, Stop), <<>>, ws)

CommonPrefix(t, i, j) ==
  CHOOSE k \in 0 .. Len(t) :
    /\ \A m \in 0 .. k - 1 : /\ i + m <= Len(t) /\ j + m <= Len(t)
                             /\ t[i + m] # Stop /\ t[i + m] = t[j + m]
    /\ i + k > Len(t) \/ j + k > Len(t) \/ t[i + k] = Stop \/ t[j + k] = Stop
       \/ t[i + k] # t[j + k]

\* The suffix array of the even positions (sais is the C library under sais/).
SuffixArray(t) ==
  SortSeq([i \in 1 .. Len(t) |-> i],
          LAMBDA i, j : BytesLess(SubSeq(t, i, Len(t)), SubSeq(t, j, Len(t))))

\* The last entry is never written: it keeps what the buffer held before.
Lcp(t, sa, stale) ==
  [i \in 1 .. Len(sa) |-> IF i = Len(sa) THEN stale ELSE CommonPrefix(t, sa[i], sa[i + 1])]

RECURSIVE Repeats(_, _, _)
Repeats(starts, last, l) ==
  IF starts = <<>> THEN 0
  ELSE IF Head(starts) >= last + l
       THEN 1 + Repeats(Tail(starts), Head(starts), l)
       ELSE Repeats(Tail(starts), last, l)

IsPowerOfTwo(l) == \E k \in 0 .. 7 : l = 2 ^ k

\* How far back the run of suffixes sharing l bytes with suffix i reaches.
RunStart(lcp, j, l) ==
  CHOOSE s \in 1 .. j : /\ s = 1 \/ lcp[s - 1] < l
                        /\ \A m \in s .. j - 1 : lcp[m] >= l

\* One drop of the lcp array: the longest length that is worth a pattern.
RECURSIVE ScoreDrop(_, _, _, _, _, _, _)
ScoreDrop(sa, lcp, i, j, l, skipped, found) ==
  IF l <= lcp[i + 1] \/ l < MinPatternLen THEN [j |-> j, found |-> found]
  ELSE IF l > MaxPatternLen \/ (l > 20 /\ ~IsPowerOfTwo(l))
  THEN ScoreDrop(sa, lcp, i, j, l - 1, TRUE, found)
  ELSE LET s == RunStart(lcp, j, l)
           starts == SortSeq(SubSeq(sa, s, i + 1), <)
           n == Repeats(starts, -l, l)
       IN IF s = j /\ ~skipped THEN [j |-> j, found |-> found]
          ELSE IF \/ (l < 8 \/ l > 64) /\ n < MinPatternScore
                  \/ n * l < MinPatternScore
          THEN ScoreDrop(sa, lcp, i, s, l - 1, TRUE, found)
          ELSE [j |-> s, found |-> Append(found, [at |-> sa[i], len |-> l, score |-> n * l])]

RECURSIVE ScoreFrom(_, _, _, _, _)
ScoreFrom(sa, lcp, i, j, found) ==
  IF i >= Len(sa) THEN found
  ELSE IF lcp[i + 1] >= lcp[i] THEN ScoreFrom(sa, lcp, i + 1, i, found)
  ELSE LET d == ScoreDrop(sa, lcp, i, j, lcp[i], FALSE, found)
       IN ScoreFrom(sa, lcp, i + 1, d.j, d.found)

Plus(f, k, n) == [x \in DOMAIN f \cup {k} |-> (IF x \in DOMAIN f THEN f[x] ELSE 0)
                                              + (IF x = k THEN n ELSE 0)]

\* A superstring worker: score the repeated substrings of one superstring.
processSuperstring(sums, ws, stale) ==
  LET t == Text(ws)
      sa == SuffixArray(t)
  IN FoldLeft(LAMBDA c, p : Plus(c, SubSeq(t, p.at, p.at + p.len - 1), p.score),
              sums, ScoreFrom(sa, Lcp(t, sa, stale), 1, 1, <<>>))

dictionaryBuilderLess(a, b) ==
  a.score < b.score \/ (a.score = b.score /\ BytesLess(a.word, b.word))

\* The MaxDictPatterns best words, best first.
DictionaryBuilderFromCollectors(sums) ==
  LET all == Sorted({[word |-> w, score |-> sums[w]] : w \in DOMAIN sums},
                          LAMBDA a, b : dictionaryBuilderLess(b, a))
  IN SubSeq(all, 1, IF Len(all) < MaxDictPatterns THEN Len(all) ELSE MaxDictPatterns)

-----------------------------------------------------------------------------
(* Covering a word with patterns.  Offsets are 0-based as in the code; a   *)
(* match is [start, end, code].                                            *)

Slice(s, from, to) == SubSeq(s, from + 1, to)

\* The longest dictionary word at every start, without those inside an
\* earlier one.
FindLongestMatches(d, input) ==
  LET At(s) == {c \in DOMAIN d : /\ s + Len(d[c].word) <= Len(input)
                                 /\ Slice(input, s, s + Len(d[c].word)) = d[c].word}
      Longest(s) == CHOOSE c \in At(s) : \A o \in At(s) : Len(d[o].word) <= Len(d[c].word)
      found == {[start |-> s, end |-> s + Len(d[Longest(s)].word), code |-> Longest(s)] :
                  s \in {x \in 0 .. Len(input) - 1 : At(x) # {}}}
  IN IF Len(input) < 2 THEN <<>>
     ELSE Sorted({m \in found : \A o \in found : o.start < m.start => o.end < m.end},
                       LAMBDA a, b : a.start < b.start)

\* The search over the ring of cells for the best continuation of match f.
RECURSIVE BestCell(_, _, _, _, _)
BestCell(d, ring, f, e, best) ==
  IF e > Len(ring) THEN best
  ELSE LET cell == ring[e]
           comp == cell.compression - PatternCost
                   + (IF cell.coverStart >= f.end THEN f.end ELSE cell.coverStart) - f.start
           score == cell.score + d[f.code].score
       IN IF comp > best.compression \/ (comp = best.compression /\ score > best.score)
          THEN BestCell(d, ring, f, e + 1,
                 [best EXCEPT !.compression = comp, !.score = score,
                              !.include = TRUE, !.cell = cell])
          ELSE IF cell.optimStart > f.end
          THEN [best EXCEPT !.ring = SubSeq(ring, 1, e - 1)]
          ELSE BestCell(d, ring, f, e + 1, best)

PushCell(d, ring, f) ==
  LET b == BestCell(d, ring, f, 1,
             [compression |-> ring[1].compression, score |-> ring[1].score,
              include |-> FALSE, cell |-> ring[1], ring |-> ring])
  IN <<[optimStart |-> f.start, score |-> b.score, compression |-> b.compression,
        coverStart |-> IF b.include THEN f.start ELSE b.cell.coverStart,
        chosen |-> (IF b.include THEN <<f>> ELSE <<>>) \o b.cell.chosen]>> \o b.ring

\* The matches the dynamic programme picks, in the order of their starts.
optimiseCluster(d, input) ==
  LET matches == FindLongestMatches(d, input)
      last == matches[Len(matches)]
      ring0 == [j \in 1 .. last.end - last.start |->
                 [optimStart |-> last.start + j, coverStart |-> Len(input),
                  compression |-> 0, score |-> 0, chosen |-> <<>>]]
  IN IF matches = <<>> THEN <<>>
     ELSE FoldRight(LAMBDA f, ring : PushCell(d, ring, f), matches, ring0)[1].chosen

RECURSIVE Uncovered(_, _, _)
Uncovered(input, chosen, from) ==
  IF chosen = <<>> THEN Slice(input, from, Len(input))
  ELSE Slice(input, from, chosen[1].start) \o Uncovered(input, Tail(chosen), chosen[1].end)

\* What goes to the intermediate file for one word.
CoverOf(input, chosen) ==
  [len |-> Len(input),
   chosen |-> [i \in DOMAIN chosen |-> [pos |-> chosen[i].start, code |-> chosen[i].code]],
   rest |-> Uncovered(input, chosen, 0)]

Cover(d, input, compressed) ==
  CoverOf(input, IF compressed THEN optimiseCluster(d, input) ELSE <<>>)

StartCounts(counts, chosen) ==
  FoldLeft(LAMBDA c, i : Plus(c, chosen[i].pos - (IF i = 1 THEN 0 ELSE chosen[i - 1].pos) + 1, 1),
           counts, [i \in DOMAIN chosen |-> i])

WordCounts(counts, len) == Plus(Plus(counts, len + 1, 1), 0, 1)

UseCounts(u, chosen) == FoldLeft(LAMBDA c, p : Plus(c, p.code, 1), u, chosen)

-----------------------------------------------------------------------------
(* Huffman codes.  A code is an integer whose lowest bit comes first.      *)

CodeBits(code, n) == [i \in 1 .. n |-> (code \div 2 ^ (i - 1)) % 2]

\* bits.Reverse64: the order of the bits as they are written.
RECURSIVE ReverseLess(_, _)
ReverseLess(a, b) ==
  \/ a % 2 < b % 2
  \/ a % 2 = b % 2 /\ (a # 0 \/ b # 0) /\ ReverseLess(a \div 2, b \div 2)

\* patternListLess and positionListLess.
ListLess(a, b) == a.uses < b.uses \/ (a.uses = b.uses /\ ReverseLess(a.code, b.code))

AddBit(h, bit) ==
  [h EXCEPT !.leaves = {[item |-> p.item, code |-> 2 * p.code + bit, bits |-> p.bits + 1] :
                          p \in h.leaves}]

HeapLess(a, b) == a.uses < b.uses \/ (a.uses = b.uses /\ a.tie < b.tie)

Leaf(p) == [uses |-> p.uses, tie |-> 0,
            leaves |-> {[item |-> p.item, code |-> 0, bits |-> 0]}]

Least(heap) == CHOOSE h \in heap : \A o \in heap \ {h} : HeapLess(h, o)

\* Take the next child: the heap's top if it has fewer uses than the list's head.
TakeFrom(list, heap) ==
  IF heap # {} /\ (list = <<>> \/ Least(heap).uses < Head(list).uses)
  THEN [h |-> Least(heap), list |-> list, heap |-> heap \ {Least(heap)}]
  ELSE [h |-> Leaf(Head(list)), list |-> Tail(list), heap |-> heap]

RECURSIVE Merge(_, _, _)
Merge(list, heap, tie) ==
  IF Cardinality(heap) + Len(list) <= 1
  THEN IF heap # {} THEN (CHOOSE h \in heap : TRUE).leaves
       ELSE {[item |-> p.item, code |-> p.code, bits |-> 0] : p \in ToSet(list)}
  ELSE LET a == TakeFrom(list, heap)
           b == TakeFrom(a.list, a.heap)
       IN Merge(b.list,
                b.heap \cup {[uses |-> a.h.uses + b.h.uses, tie |-> tie,
                              leaves |-> AddBit(a.h, 0).leaves \cup AddBit(b.h, 1).leaves]},
                tie + 1)

\* Codes of the items a bag counts; SetDepth zeroes uses, so the second sort
\* is by code alone.
HuffmanCodes(items) == Merge(Sorted(items, ListLess), {}, 0)

PatternCodes(u) ==
  HuffmanCodes({[item |-> c, uses |-> u[c], code |-> c - 1] : c \in {x \in DOMAIN u : u[x] > 0}})

PositionCodes(counts) ==
  HuffmanCodes({[item |-> p, uses |-> counts[p], code |-> p] : p \in DOMAIN counts})

InFileOrder(codes) == Sorted(codes, LAMBDA a, b : ReverseLess(a.code, b.code))

-----------------------------------------------------------------------------
(* Writing the file. *)

\* HuffmanCoder: encode fills bytes from their lowest bit, flush pads the last.
RECURSIVE Packed(_)
Packed(bits) ==
  IF bits = <<>> THEN <<>>
  ELSE LET n == IF Len(bits) < ByteBits THEN Len(bits) ELSE ByteBits
       IN <<FoldFunction(+, 0, [i \in 1 .. n |-> bits[i] * 2 ^ (i - 1)])>>
          \o Packed(SubSeq(bits, n + 1, Len(bits)))

\* The bits of an item; an item without a code is skipped.
BitsOf(codes, item) ==
  FoldLeft(LAMBDA b, p : b \o CodeBits(p.code, p.bits), <<>>,
           SetToSeq({p \in codes : p.item = item}))

EncodeWord(cover, patterns, positions) ==
  LET Start(i) == cover.chosen[i].pos - (IF i = 1 THEN 0 ELSE cover.chosen[i - 1].pos) + 1
      starts == FoldLeft(LAMBDA b, i : b \o BitsOf(positions, Start(i))
                                         \o BitsOf(patterns, cover.chosen[i].code),
                         <<>>, [i \in DOMAIN cover.chosen |-> i])
  IN IF cover.len = 0 THEN Packed(BitsOf(positions, 1))
     ELSE Packed(BitsOf(positions, cover.len + 1) \o starts \o BitsOf(positions, 0))
          \o cover.rest

\* The header keeps only depths: the codes are implied by the order.
FileOf(covers, d, u, counts, n) ==
  LET patterns == PatternCodes(u)
      positions == PositionCodes(counts)
  IN [count |-> n,
      emptyCount |-> Cardinality({i \in DOMAIN covers : covers[i].len = 0}),
      patterns |-> [i \in 1 .. Cardinality(patterns) |->
                     LET p == InFileOrder(patterns)[i]
                     IN [depth |-> p.bits, item |-> d[p.item].word]],
      positions |-> [i \in 1 .. Cardinality(positions) |->
                      LET p == InFileOrder(positions)[i] IN [depth |-> p.bits, item |-> p.item]],
      data |-> FoldLeft(LAMBDA b, c : b \o EncodeWord(c, patterns, positions), <<>>, covers)]

-----------------------------------------------------------------------------
(* Reading: the tables of a Decompressor. *)

MinOf(a, b) == IF a < b THEN a ELSE b

MaxDepth(entries) ==
  FoldLeft(LAMBDA m, e : IF e.depth > m THEN e.depth ELSE m, 0, entries)

\* buildCondensedPatternTable and buildPosTable: codewords in the order they
\* are inserted, deeper levels in a table of their own.
RECURSIVE BuildTable(_, _, _, _, _, _)
BuildTable(width, entries, code, bits, depth, maxDepth) ==
  IF entries = <<>> THEN [n |-> 0, cws |-> <<>>]
  ELSE IF depth = Head(entries).depth
  THEN [n |-> 1, cws |-> <<[code |-> code, len |-> bits, item |-> Head(entries).item]>>]
  ELSE IF bits = width
  THEN LET sub == BuildTable(width, entries, 0, 0, depth, maxDepth)
       IN [n |-> sub.n,
           cws |-> <<[code |-> code, len |-> 0,
                      ptr |-> [bitLen |-> MinOf(maxDepth, width), cws |-> sub.cws]]>>]
  ELSE LET b0 == BuildTable(width, entries, code, bits + 1, depth + 1, maxDepth - 1)
           b1 == BuildTable(width, SubSeq(entries, b0.n + 1, Len(entries)), code + 2 ^ bits,
                            bits + 1, depth + 1, maxDepth - 1)
       IN [n |-> b0.n + b1.n, cws |-> b0.cws \o b1.cws]

TableOf(width, entries) ==
  [bitLen |-> MinOf(MaxDepth(entries), width),
   cws |-> BuildTable(width, entries, 0, 0, 0, MaxDepth(entries)).cws]

\* insertWord: the entries of a plain table a codeword fills.
Fills(table, cw) ==
  IF cw.len # table.bitLen /\ cw.len > 0
  THEN {c \in 0 .. 2 ^ table.bitLen - 1 : c >= cw.code /\ (c - cw.code) % 2 ^ cw.len = 0}
  ELSE {cw.code}

\* A condensed table is searched by the distance from a codeword.
Near(cw, code) ==
  \/ cw.code = code
  \/ cw.len > 0 /\ code > cw.code /\ (code - cw.code) % 2 ^ cw.len = 0

condensedTableSearch(table, code, threshold) ==
  LET plain == {i \in DOMAIN table.cws : code \in Fills(table, table.cws[i])}
      near == {i \in DOMAIN table.cws : Near(table.cws[i], code)}
  IN IF table.bitLen <= threshold
     THEN table.cws[CHOOSE i \in plain : \A j \in plain : j <= i]
     ELSE table.cws[CHOOSE i \in near : \A j \in near : i <= j]

\* Decompressor.posDict is always a plain table.
PosSearch(table, code) ==
  LET plain == {i \in DOMAIN table.cws : code \in Fills(table, table.cws[i])}
  IN table.cws[CHOOSE i \in plain : \A j \in plain : j <= i]

NewDecompressor(f, width, threshold) ==
  [condense |-> threshold, width |-> width, data |-> f.data,
   posDict |-> TableOf(width, f.positions), dict |-> TableOf(width, f.patterns)]

-----------------------------------------------------------------------------
(* A Getter: g is [p, bit], dataP and dataBit. *)

Byte(data, p) == data[p + 1]

Peek(data, g, n) ==
  LET low == Byte(data, g.p) \div 2 ^ g.bit
      high == IF ByteBits - g.bit < n /\ g.p + 1 < Len(data)
              THEN Byte(data, g.p + 1) * 2 ^ (ByteBits - g.bit) ELSE 0
  IN (low + high) % 2 ^ n

Advance(g, n) == [p |-> g.p + (g.bit + n) \div ByteBits, bit |-> (g.bit + n) % ByteBits]

Clean(g) == IF g.bit > 0 THEN [p |-> g.p + 1, bit |-> 0] ELSE g

RECURSIVE ReadPos(_, _, _)
ReadPos(f, table, g) ==
  IF table.bitLen = 0 THEN [item |-> table.cws[1].item, g |-> g]
  ELSE LET cw == PosSearch(table, Peek(f.data, g, table.bitLen))
       IN IF cw.len = 0 THEN ReadPos(f, cw.ptr, Advance(g, f.width))
          ELSE [item |-> cw.item, g |-> Advance(g, cw.len)]

nextPos(f, g) == ReadPos(f, f.posDict, g)

RECURSIVE ReadPattern(_, _, _)
ReadPattern(f, table, g) ==
  IF table.bitLen = 0 THEN [item |-> table.cws[1].item, g |-> g]
  ELSE LET cw == condensedTableSearch(table, Peek(f.data, g, table.bitLen), f.condense)
       IN IF cw.len = 0 THEN ReadPattern(f, cw.ptr, Advance(g, f.width))
          ELSE [item |-> cw.item, g |-> Advance(g, cw.len)]

nextPattern(f, g) == ReadPattern(f, f.dict, g)

\* The loop over positions and patterns up to the terminator; both passes of
\* Next and Match decode the same codes.
RECURSIVE Pieces(_, _, _, _)
Pieces(f, g, at, acc) ==
  Apply(LAMBDA pos :
          IF pos.item = 0 THEN [pieces |-> acc, g |-> Clean(pos.g)]
          ELSE Apply(LAMBDA pat :
                       Pieces(f, pat.g, at + pos.item - 1,
                              Append(acc, [at |-> at + pos.item - 1, pattern |-> pat.item])),
                     nextPattern(f, pos.g)),
        nextPos(f, g))

\* The stretches of 0 .. n-1 left between the pieces, and where their bytes
\* are, counted from the end of the codes.
RECURSIVE GapsNoTail(_, _, _, _)
GapsNoTail(pieces, from, n, at) ==
  IF pieces = <<>> THEN <<>>
  ELSE (IF pieces[1].at > from
        THEN <<[from |-> from, to |-> pieces[1].at, at |-> at]>> ELSE <<>>)
       \o GapsNoTail(Tail(pieces), pieces[1].at + Len(pieces[1].pattern), n,
               IF pieces[1].at > from THEN at + pieces[1].at - from ELSE at)
RECURSIVE Gaps(_, _, _, _)
Gaps(pieces, from, n, at) ==
  IF pieces = <<>> THEN IF n > from THEN <<[from |-> from, to |-> n, at |-> at]>> ELSE <<>>
  ELSE (IF pieces[1].at > from
        THEN <<[from |-> from, to |-> pieces[1].at, at |-> at]>> ELSE <<>>)
       \o Gaps(Tail(pieces), pieces[1].at + Len(pieces[1].pattern), n,
               IF pieces[1].at > from THEN at + pieces[1].at - from ELSE at)

WithGaps(len, ps) == [len |-> len, pieces |-> ps.pieces, p |-> ps.g.p,
                      gaps |-> Gaps(ps.pieces, 0, len, ps.g.p)]

\* The word at offset p: its length, its patterns and the bytes between them.
Opened(f, p) ==
  Apply(LAMBDA len : WithGaps(len.item - 1,
                              IF len.item = 1 THEN [pieces |-> <<>>, g |-> Clean(len.g)]
                              ELSE Pieces(f, len.g, 0, <<>>)),
        nextPos(f, [p |-> p, bit |-> 0]))

EndOf(o) == o.p + FoldLeft(LAMBDA n, s : n + s.to - s.from, 0, o.gaps)

Paste(b, at, bytes) ==
  [i \in DOMAIN b |-> IF i \in at + 1 .. at + Len(bytes) THEN bytes[i - at] ELSE b[i]]

GapBytes(f, gap) == Slice(f.data, gap.at, gap.at + gap.to - gap.from)

\* Getter.Next with an empty buffer: patterns first, then the bytes between them.
NextWord(f, p) ==
  Apply(LAMBDA o : [word |-> FoldLeft(LAMBDA b, gap : Paste(b, gap.from, GapBytes(f, gap)),
                               FoldLeft(LAMBDA b, q : Paste(b, q.at, q.pattern),
                                        [i \in 1 .. o.len |-> 0], o.pieces), o.gaps),
                    p |-> EndOf(o)],
        Opened(f, p))

Skip(f, p) == EndOf(Opened(f, p))

\* NextUncompressed and SkipUncompressed take the code after the length for
\* the terminator.
NextUncompressed(f, p) ==
  Apply(LAMBDA len :
          Apply(LAMBDA at : [word |-> Slice(f.data, at, at + len.item - 1),
                             p |-> at + len.item - 1],
                Clean(IF len.item = 1 THEN len.g ELSE nextPos(f, len.g).g).p),
        nextPos(f, [p |-> p, bit |-> 0]))

SkipUncompressed(f, p) == NextUncompressed(f, p).p

Agrees(f, o, buf) ==
  /\ o.len = Len(buf)
  /\ \A q \in ToSet(o.pieces) : Slice(buf, q.at, q.at + Len(q.pattern)) = q.pattern
  /\ \A gap \in ToSet(o.gaps) : Slice(buf, gap.from, gap.to) = GapBytes(f, gap)

\* An empty buf that meets a word leaves the getter behind the word's length.
Match(f, p, buf) ==
  Apply(LAMBDA o : IF Agrees(f, o, buf) THEN [ok |-> TRUE, p |-> EndOf(o)]
                   ELSE [ok |-> FALSE,
                         p |-> IF buf # <<>> THEN p
                               ELSE Clean(nextPos(f, [p |-> p, bit |-> 0]).g).p],
        Opened(f, p))

\* bytes stands at offset at of a word: it agrees with prefix as far as that goes.
AgreesUpTo(prefix, at, bytes) ==
  at < Len(prefix) =>
    Slice(prefix, at, MinOf(Len(prefix), at + Len(bytes)))
    = Slice(bytes, 0, MinOf(Len(prefix) - at, Len(bytes)))

MatchPrefix(f, p, prefix) ==
  Apply(LAMBDA o : IF o.len = 0 \/ o.len < Len(prefix) THEN o.len = Len(prefix)
                   ELSE /\ \A q \in ToSet(o.pieces) : AgreesUpTo(prefix, q.at, q.pattern)
                        /\ \A gap \in ToSet(o.gaps) :
                             AgreesUpTo(prefix, gap.from, GapBytes(f, gap)),
        Opened(f, p))

-----------------------------------------------------------------------------
(* The Compressor. *)

NoWords == [words |-> <<>>, len |-> 0, count |-> 0]

Sampled(s) == s.count % SamplingFactor = 0

Init ==
  /\ TablesReadTwoBytes /\ WordsFit
  /\ phase = "adding" /\ pool \in Pools
  /\ words = <<>> /\ super = NoWords /\ scores = <<>> /\ dict = <<>>
  /\ ch = <<>> /\ out = <<>> /\ sending = <<>>
  /\ busy = [w \in pool |-> <<>>]
  /\ posMaps = [w \in pool \cup {"main"} |-> <<>>] /\ uses = <<>>
  /\ queue = {} /\ inCount = 0 /\ outCount = 0 /\ closedOut = FALSE
  /\ tmp = <<>> /\ file = <<>> /\ dec = <<>> /\ getter = [p |-> 0, word |-> 1]

\* A full superstring goes to the superstring workers; the scores they collect
\* are read only after all of them are done, so they are added here at once.
AddWord(v) ==
  LET l == 2 * Len(v) + 2
      full == super.len + l > SuperstringLimit
      now == IF full THEN [words |-> <<>>, len |-> 0, count |-> super.count + 1] ELSE super
  IN /\ phase = "adding" /\ Len(words) < MaxWords
     /\ \E stale \in StaleLcp :
          scores' = IF full /\ Sampled(super)
                    THEN processSuperstring(scores, super.words, stale) ELSE scores
     /\ super' = [now EXCEPT !.len = @ + l,
                             !.words = IF Sampled(now) THEN Append(@, v) ELSE @]
     /\ words' = Append(words, [v |-> v, compressed |-> TRUE])
     /\ UNCHANGED <<phase, pool, dict, channels, collected, inCount, file, reading>>

AddUncompressedWord(v) ==
  /\ phase = "adding" /\ Len(words) < MaxWords
  /\ words' = Append(words, [v |-> v, compressed |-> FALSE])
  /\ UNCHANGED <<phase, pool, super, scores, dict, channels, collected, inCount, file, reading>>

\* The last superstring, then the dictionary.
Compress ==
  /\ phase = "adding"
  /\ \E stale \in StaleLcp :
       scores' = IF super.words # <<>>
                 THEN processSuperstring(scores, super.words, stale) ELSE scores
  /\ dict' = DictionaryBuilderFromCollectors(scores')
  /\ phase' = "feeding"
  /\ UNCHANGED <<pool, words, super, channels, collected, inCount, file, reading>>

-----------------------------------------------------------------------------
(* reducedict: feeding the words to the workers. *)

\* The covers that can be written now: in order from outCount on.
ReadyAny(q, n) == Sorted(q, LAMBDA a, b : a.order < b.order)
RECURSIVE Ready(_, _)
Ready(q, n) ==
  LET top == {c \in q : c.order = n}
  IN IF top = {} THEN <<>> ELSE <<(CHOOSE c \in top : TRUE)>> \o Ready(q, n + 1)

Top(s) == IF s = <<>> THEN <<>> ELSE <<Head(s)>>

CoversOf(s) == [i \in DOMAIN s |-> s[i].cover]

\* One call of the walker: drain out, write at most one word, and queue the
\* next word or start sending it.  The blocking wait for a queue at its limit
\* asks for a top below outCount, which no queued word is: it never waits.
FeedQueue ==
  LET word == words[inCount + 1]
      drained == queue \cup ToSet(out)
      top == Top(Ready(drained, outCount))
      item == [order |-> inCount, cover |-> Cover(dict, word.v, FALSE)]
  IN /\ phase = "feeding" /\ pool # {} /\ sending = <<>> /\ inCount < Len(words)
     /\ out' = <<>>
     /\ tmp' = tmp \o CoversOf(top)
     /\ outCount' = outCount + Len(top)
     /\ IF word.v # <<>> /\ word.compressed
        THEN /\ sending' = <<[order |-> inCount, v |-> word.v]>>
             /\ queue' = drained \ ToSet(top)
             /\ UNCHANGED posMaps
        ELSE /\ queue' = (drained \ ToSet(top)) \cup {item}
             /\ posMaps' = [posMaps EXCEPT !["main"] = WordCounts(@, Len(word.v))]
             /\ UNCHANGED sending
     /\ inCount' = inCount + 1
     /\ UNCHANGED <<phase, pool, compressor, ch, busy, uses, closedOut, file, reading>>

Send ==
  /\ phase = "feeding" /\ sending # <<>> /\ Len(ch) < ChCap
  /\ ch' = ch \o sending /\ sending' = <<>>
  /\ UNCHANGED <<phase, pool, compressor, out, busy, posMaps, uses, collected,
                 inCount, file, reading>>

\* workers == 1: main covers the word itself.
FeedAlone ==
  LET word == words[inCount + 1]
      cover == Cover(dict, word.v, word.compressed)
  IN /\ phase = "feeding" /\ pool = {} /\ inCount < Len(words)
     /\ tmp' = Append(tmp, cover)
     /\ posMaps' = [posMaps EXCEPT !["main"] =
                      WordCounts(StartCounts(@, cover.chosen), Len(word.v))]
     /\ uses' = UseCounts(uses, cover.chosen)
     /\ inCount' = inCount + 1 /\ outCount' = outCount + 1
     /\ UNCHANGED <<phase, pool, compressor, ch, out, sending, busy, queue, closedOut,
                    file, reading>>

\* ctx.Done is looked at before every word; the temporary file is removed.
Cancel ==
  /\ phase = "feeding" /\ sending = <<>> /\ inCount < Len(words)
  /\ phase' = "failed"
  /\ UNCHANGED <<pool, compressor, channels, collected, inCount, file, reading>>

\* A worker covers a word, sends it, and only then counts its length.
WorkerCover(w) ==
  LET item == Head(ch)
      cover == Cover(dict, item.v, TRUE)
  IN /\ ch # <<>> /\ busy[w] = <<>>
     /\ ch' = Tail(ch)
     /\ busy' = [busy EXCEPT ![w] = <<[order |-> item.order, cover |-> cover, sent |-> FALSE]>>]
     /\ posMaps' = [posMaps EXCEPT ![w] = StartCounts(@, cover.chosen)]
     /\ uses' = UseCounts(uses, cover.chosen)
     /\ UNCHANGED <<phase, pool, compressor, out, sending, collected, inCount, file, reading>>

WorkerSend(w) ==
  /\ busy[w] # <<>> /\ ~busy[w][1].sent /\ Len(out) < OutCap
  /\ out' = Append(out, [order |-> busy[w][1].order, cover |-> busy[w][1].cover])
  /\ busy' = [busy EXCEPT ![w][1].sent = TRUE]
  /\ UNCHANGED <<phase, pool, compressor, ch, sending, posMaps, uses, collected,
                 inCount, file, reading>>

WorkerCount(w) ==
  /\ busy[w] # <<>> /\ busy[w][1].sent
  /\ posMaps' = [posMaps EXCEPT ![w] = WordCounts(@, busy[w][1].cover.len)]
  /\ busy' = [busy EXCEPT ![w] = <<>>]
  /\ UNCHANGED <<phase, pool, compressor, ch, out, sending, uses, collected,
                 inCount, file, reading>>

\* close(ch), then what is in order already; close(out) after the last word.
StartDrainingOpen ==
  LET ready == Ready(queue, outCount)
  IN /\ phase = "feeding" /\ sending = <<>> /\ inCount = Len(words)
     /\ phase' = IF inCount > outCount THEN "draining" ELSE "waiting"
     /\ tmp' = tmp \o CoversOf(ready)
     /\ queue' = queue \ ToSet(ready)
     /\ outCount' = outCount + Len(ready)
     /\ UNCHANGED <<pool, compressor, channels, closedOut, inCount, file, reading>>

StartDraining ==
  LET ready == Ready(queue, outCount)
  IN /\ phase = "feeding" /\ sending = <<>> /\ inCount = Len(words)
     /\ phase' = IF inCount > outCount THEN "draining" ELSE "waiting"
     /\ tmp' = tmp \o CoversOf(ready)
     /\ queue' = queue \ ToSet(ready)
     /\ outCount' = outCount + Len(ready)
     /\ closedOut' = (inCount > outCount /\ outCount + Len(ready) = inCount)
     /\ UNCHANGED <<pool, compressor, channels, inCount, file, reading>>

Receive ==
  LET q == queue \cup {Head(out)}
      ready == Ready(q, outCount)
  IN /\ phase = "draining" /\ out # <<>>
     /\ out' = Tail(out)
     /\ tmp' = tmp \o CoversOf(ready)
     /\ queue' = q \ ToSet(ready)
     /\ outCount' = outCount + Len(ready)
     /\ closedOut' = (closedOut \/ outCount + Len(ready) = inCount)
     /\ UNCHANGED <<phase, pool, compressor, ch, sending, busy, posMaps, uses, inCount,
                    file, reading>>

AllCounts(maps) ==
  FoldFunction(LAMBDA m, c : FoldSet(LAMBDA p, t : Plus(t, p, m[p]), c, DOMAIN m), <<>>, maps)

WorkersDone == ch = <<>> /\ \A w \in pool : busy[w] = <<>>

\* The loop over out ends when out is closed and empty.
EndDraining ==
  /\ phase = "draining" /\ closedOut /\ out = <<>>
  /\ phase' = "waiting"
  /\ UNCHANGED <<pool, compressor, channels, collected, inCount, file, reading>>

\* wg.Wait, then the codes and the file.
WriteFile ==
  /\ phase = "waiting" /\ WorkersDone
  /\ file' = <<FileOf(tmp, dict, uses, AllCounts(posMaps), inCount)>>
  /\ phase' = "written"
  /\ UNCHANGED <<pool, compressor, channels, collected, inCount, reading>>

-----------------------------------------------------------------------------
(* Reading the file back. *)

Open ==
  /\ phase = "written"
  /\ \E t \in TableWidths, c \in Condensities : dec' = <<NewDecompressor(file[1], t, c)>>
  /\ getter' = [p |-> 0, word |-> 1]
  /\ phase' = "reading"
  /\ UNCHANGED <<pool, compressor, channels, collected, inCount, file>>

HasNext == getter.p < Len(dec[1].data)

Reading ==
  /\ phase = "reading" /\ HasNext
  /\ UNCHANGED <<phase, pool, compressor, channels, collected, inCount, file, dec>>

GetterNext == Reading /\ getter' = [p |-> NextWord(dec[1], getter.p).p, word |-> getter.word + 1]

GetterSkip == Reading /\ getter' = [p |-> Skip(dec[1], getter.p), word |-> getter.word + 1]

Moved(m) == m.ok /\ getter' = [p |-> m.p, word |-> getter.word + 1]

GetterMatch(buf) == Reading /\ Moved(Match(dec[1], getter.p, buf))

\* The caller knows which words it added uncompressed.
GetterSkipUncompressed ==
  /\ Reading
  /\ ~words[getter.word].compressed
  /\ getter' = [p |-> SkipUncompressed(dec[1], getter.p), word |-> getter.word + 1]

\* Reset to the offset of the first word.
GetterReset ==
  /\ phase = "reading" /\ getter.word > 1
  /\ getter' = [p |-> 0, word |-> 1]
  /\ UNCHANGED <<phase, pool, compressor, channels, collected, inCount, file, dec>>

Adding == \E v \in Words : AddWord(v) \/ AddUncompressedWord(v)
Working == \E w \in pool : WorkerCover(w) \/ WorkerSend(w) \/ WorkerCount(w)
Main == FeedQueue \/ Send \/ FeedAlone \/ StartDraining \/ Receive \/ EndDraining \/ WriteFile
Using == \/ GetterNext \/ GetterSkip \/ GetterSkipUncompressed \/ GetterReset
         \/ \E v \in Words : GetterMatch(v)

Next == Adding \/ Compress \/ Main \/ Cancel \/ Working \/ Open \/ Using

Spec == Init /\ [][Next]_vars

-----------------------------------------------------------------------------
(* What the package promises. *)

ReadsAs(w, n) ==
  /\ n.word = w.v
  /\ Skip(dec[1], getter.p) = n.p
  /\ ~w.compressed => NextUncompressed(dec[1], getter.p) = n
  /\ \A b \in Words :
       /\ b # <<>> \/ w.v = <<>> =>
            Match(dec[1], getter.p, b) = IF b = w.v THEN [ok |-> TRUE, p |-> n.p]
                                         ELSE [ok |-> FALSE, p |-> getter.p]
       /\ MatchPrefix(dec[1], getter.p, b) <=> IsPrefix(b, w.v)

\* Reading at any offset a getter reaches gives the word that was added there:
\* Next returns it, Skip and Next move to the same offset, a word added
\* uncompressed reads the same with NextUncompressed, Match and MatchPrefix
\* tell equal words and prefixes from others, and HasNext ends after the last
\* word (decompress.go, the comments of Next, Skip, Match and MatchPrefix).
WordsReadBack ==
  phase = "reading" =>
    /\ HasNext <=> getter.word <= Len(words)
    /\ HasNext => ReadsAs(words[getter.word], NextWord(dec[1], getter.p))

\* Whatever the order in which workers finish, the intermediate file holds the
\* covers of the words in the order they were added, none lost or repeated, and
\* no worker still has a word to send once out is closed ("without disrupting
\* their order", CompressionWord; a send on a closed channel would panic).
OrderKept ==
  /\ Len(tmp) = outCount
  /\ \A i \in DOMAIN tmp : tmp[i] = Cover(dict, words[i].v, words[i].compressed)
  /\ closedOut => ch = <<>> /\ out = <<>> /\ \A w \in pool : busy[w] # <<>> => busy[w][1].sent

\* Main and the workers never all wait for each other: while Compress runs,
\* main has a word to feed, room in ch, a result to take or nothing left to wait
\* for, or some worker can go on (the channels ch and out are bounded, and only
\* the closing of out ends the draining).
SomebodyRuns ==
  phase \in {"feeding", "draining", "waiting"} =>
    \/ phase = "feeding" /\ (sending = <<>> \/ Len(ch) < ChCap)
    \/ phase = "draining" /\ (out # <<>> \/ closedOut)
    \/ phase = "waiting" /\ WorkersDone
    \/ \E w \in pool : \/ busy[w] = <<>> /\ ch # <<>>
                       \/ busy[w] # <<>> /\ (busy[w][1].sent \/ Len(out) < OutCap)

=============================================================================
