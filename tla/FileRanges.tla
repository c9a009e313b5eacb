----------------------------- MODULE FileRanges -----------------------------
(* What state/ computes from a list of its static files: the order of the   *)
(* list, what is merged next (merge.go), which files a reader gets          *)
(* (reCalcRoFiles) and what is found in the folder at start (scanStateFiles).*)
(* A file is a record with at least from and to, in steps: it holds the     *)
(* steps from..to-1.                                                        *)
EXTENDS Integers, Sequences, SequencesExt, FiniteSets, FiniteSetsExt

CONSTANT StepsInBiggestFile

ASSUME BiggestIsPowerOfTwo == StepsInBiggestFile \in {1, 2, 4, 8, 16, 32}

Frozen(f) == f.to - f.from = StepsInBiggestFile

SameRange(f, g) == f.from = g.from /\ f.to = g.to

IsSubsetOf(f, g) == g.from <= f.from /\ f.to <= g.to /\ ~SameRange(f, g)

FilesItemLess(f, g) == f.to < g.to \/ (f.to = g.to /\ f.from > g.from)

\* The order in which files.Walk visits a set of files.
Walk(files) == SetToSortSeq(files, FilesItemLess)

Covers(f, t) == f.from <= t /\ t < f.to
-----------------------------------------------------------------------------
(* findMergeRange.  endStep & -endStep, and the span it allows.             *)

LowBit(n) == IF n = 0 THEN 0 ELSE Max({d \in {1, 2, 4, 8, 16, 32} : n % d = 0})

Start(f) == f.to - Min({LowBit(f.to), StepsInBiggestFile})

NoRange == [any |-> FALSE, from |-> 0, to |-> 0]

\* One turn of the loop.  super is the start that makes f a super-set of the
\* range found so far.
Consider(r, f, super, maxEnd) ==
    CASE f.to > maxEnd -> r
      [] f.to <= maxEnd /\ super = f.from /\ f.to >= r.to ->
           [any |-> FALSE, from |-> Start(f), to |-> f.to]
      [] OTHER ->
           IF Start(f) < f.from /\ (~r.any \/ Start(f) < r.from)
             THEN [any |-> TRUE, from |-> Start(f), to |-> f.to] ELSE r

IndexMergeRange(files, maxEnd) ==
    FoldLeft(LAMBDA r, f : Consider(r, f, r.from, maxEnd), NoRange, Walk(files))

\* History.findMergeRange: the index and the values, which are merged together
\* unless one of them is ahead.
HistoryMergeRange(indexFiles, valueFiles, maxEnd) ==
    LET index   == IndexMergeRange(indexFiles, maxEnd)
        history == FoldLeft(LAMBDA r, f : Consider(r, f, index.from, maxEnd),
                            NoRange, Walk(valueFiles))
        both    == index.any /\ history.any
    IN  [ index   |-> IF both /\ history.to < index.to THEN NoRange ELSE index,
          history |-> IF both /\ history.to > index.to THEN NoRange ELSE history ]
-----------------------------------------------------------------------------
(* staticFilesInRange: the files to merge into r.                           *)

\* A file that starts before the previous one makes the ones it contains
\* superfluous.
PushFile(acc, f) ==
    LET kept == SelectSeq(acc.out, LAMBDA g : g.from < f.from)
    IN  [ out  |-> Append(IF f.from < acc.prev THEN kept ELSE acc.out, f), prev |-> f.from ]

\* Mutant: the last file of the range is left out.
StaticFilesBefore(files, r) ==
    FoldLeft(PushFile, [out |-> <<>>, prev |-> 0],
             Walk({f \in files : f.from >= r.from /\ f.to < r.to})).out

StaticFilesInRange(files, r) ==
    FoldLeft(PushFile, [out |-> <<>>, prev |-> 0],
             Walk({f \in files : f.from >= r.from /\ f.to <= r.to})).out

\* The values' files decide; the index must have the same ones.
IndexFilesOf(indexFiles, valueOuts) ==
    [i \in DOMAIN valueOuts |-> CHOOSE f \in indexFiles : SameRange(f, valueOuts[i])]

HasIndexFiles(indexFiles, valueFiles, r) ==
    \A f \in valueFiles :
        f.from >= r.from /\ f.to <= r.to => \E g \in indexFiles : SameRange(f, g)

\* The files of outs hold every step of r once.
Tiles(outs, r) ==
    \A s \in r.from..r.to - 1 : Cardinality({i \in DOMAIN outs : Covers(outs[i], s)}) = 1
-----------------------------------------------------------------------------
(* endTxNumMinimax, of a list and of a history.                             *)

EndOf(files) == IF files = {} THEN 0 ELSE Last(Walk(files)).to

EndOfHistory(indexFiles, valueFiles) ==
    LET i == EndOf(indexFiles)
        v == EndOf(valueFiles)
    IN  IF valueFiles # {} /\ (i = 0 \/ v < i) THEN v ELSE i
-----------------------------------------------------------------------------
(* scanStateFiles.  ReadDir lists the names in alphabetical order, which is *)
(* the order of (from, to) while both are single digits.                    *)

NameLess(f, g) == f.from < g.from \/ (f.from = g.from /\ f.to < g.to)

ScanStateFiles(names) ==
    FoldLeft(LAMBDA files, f :
                 IF \E g \in files : IsSubsetOf(f, g) /\ Frozen(g) THEN files
                 ELSE files \cup {f},
             {}, SetToSortSeq(names, NameLess))
=============================================================================
