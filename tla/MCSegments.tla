------------------------------ MODULE MCSegments ------------------------------
(***************************************************************************)
(* Two components checked in one run.  Segment files: five short words,    *)
(* the empty one among them, up to three in a file, no worker or two, with *)
(* bytes of four bits and channels of one place so that patterns, Huffman  *)
(* codes, nested decoding tables and a full channel all occur.  Change-    *)
(* file aggregator: two accounts with two locations, created, changed,     *)
(* deleted and created again in blocks 0, 2 and 6 of 10; steps of two      *)
(* blocks, so that four state files appear and merge as 0-3 and 0-7, and   *)
(* final history files of four blocks.  A behaviour is about one of the    *)
(* two.                                                                    *)
(***************************************************************************)
EXTENDS Integers, Sequences, TLC

VARIABLES
  active,  \* the component this behaviour is about
  phase, pool, words, super, scores, dict, ch, out, sending, busy, posMaps,
  uses, queue, inCount, outCount, closedOut, tmp, file, dec, getter, script,
  block, executed, tables, chg, chgFileNum, chgTree, files, arch, tasks, done,
  mergeSig, histSig, merge, hist, failed, restarts, past

-----------------------------------------------------------------------------
MCWords == {<<>>, <<1>>, <<1, 2, 3, 4, 5, 6>>, <<3, 4, 1, 2, 5, 6, 3, 4, 7, 1, 2>>,
            <<7, 1, 2, 5, 6>>}

S == INSTANCE Compress WITH
  Words <- MCWords, MaxWords <- 3, Pools <- {{}, {"w1", "w2"}}, StaleLcp <- {0, 2},
  ChCap <- 1, OutCap <- 1, ByteBits <- 4, TableWidths <- {1, 2}, Condensities <- {0, 2},
  PatternCost <- 1, MinPatternLen <- 2, MaxPatternLen <- 3, MinPatternScore <- 2,
  MaxDictPatterns <- 4, SuperstringLimit <- 46, SamplingFactor <- 2

C(op, k, v) == [op |-> op, k |-> k, v |-> v]

Create1 == <<C("account", <<1>>, 1), C("storage", <<1, 1>>, 1)>>
Code1 == <<C("account", <<1>>, 2), C("code", <<1>>, 1)>>
Create2 == <<C("account", <<2>>, 1), C("storage", <<2, 1>>, 1)>>
Delete1 == <<C("delete", <<1>>, 0)>>
Change1 == <<C("storage", <<1, 1>>, 0), C("storage", <<1, 2>>, 2)>>

MCScripts == {f \in [{0, 2, 6} -> {Create1, Code1, Create2, Delete1, Change1}] :
                /\ f[0] \in {Create1, Code1}
                /\ f[2] \in {Delete1, Change1}
                /\ f[6] \in {Create1, Delete1, Create2}}

A == INSTANCE ChangeAggregator WITH
  Step <- 2, UnwindLimit <- 1, MaxBlock <- 9, Span <- 4, Scripts <- MCScripts, AggCap <- 1,
  ArchSize <- 3, MaxRestarts <- 1

-----------------------------------------------------------------------------
(* The variables of the other components stay what they are.               *)

besideS == <<script, block, executed, tables, chg, chgFileNum, chgTree, files,
             arch, tasks, done, mergeSig, histSig, merge, hist, failed,
             restarts, past>>

besideA == <<phase, pool, words, super, scores, dict, ch, out, sending, busy,
             posMaps, uses, queue, inCount, outCount, closedOut, tmp, file,
             dec, getter>>

InitS ==
  /\ active = "segment" /\ S!Init
  /\ script = <<>> /\ block = <<>> /\ executed = <<>> /\ tables = <<>>
  /\ chg = <<>> /\ chgFileNum = <<>> /\ chgTree = <<>> /\ files = <<>>
  /\ arch = <<>> /\ tasks = <<>> /\ done = <<>> /\ mergeSig = <<>>
  /\ histSig = <<>> /\ merge = <<>> /\ hist = <<>> /\ failed = <<>>
  /\ restarts = <<>> /\ past = <<>>

InitA ==
  /\ active = "aggregator" /\ A!Init
  /\ phase = <<>> /\ pool = <<>> /\ words = <<>> /\ super = <<>>
  /\ scores = <<>> /\ dict = <<>> /\ ch = <<>> /\ out = <<>>
  /\ sending = <<>> /\ busy = <<>> /\ posMaps = <<>> /\ uses = <<>>
  /\ queue = <<>> /\ inCount = <<>> /\ outCount = <<>> /\ closedOut = <<>>
  /\ tmp = <<>> /\ file = <<>> /\ dec = <<>> /\ getter = <<>>

Init == InitS \/ InitA

Next ==
  \/ active = "segment" /\ S!Next /\ UNCHANGED <<active, besideS>>
  \/ active = "aggregator" /\ A!Next /\ UNCHANGED <<active, besideA>>

vars == <<active, phase, pool, words, super, scores, dict, ch, out, sending,
          busy, posMaps, uses, queue, inCount, outCount, closedOut, tmp, file,
          dec, getter, script, block, executed, tables, chg, chgFileNum,
          chgTree, files, arch, tasks, done, mergeSig, histSig, merge, hist,
          failed, restarts, past>>

Spec == Init /\ [][Next]_vars

-----------------------------------------------------------------------------
\* Every word of a segment file reads back as it was added, with every method
\* of a Getter (decompress.go), and the intermediate file holds the words in
\* the order they were added, whatever the order in which the workers of
\* reducedict finish.
WordsReadBack ==
  /\ active = "segment" => S!WordsReadBack
  /\ active = "segment" => S!OrderKept

\* Main and the workers of reducedict never all wait for each other.
SomebodyRuns == active = "segment" => S!SomebodyRuns

\* A Reader of the change-file aggregator returns what was last written,
\* wherever the background goroutines have moved it, and a HistoryReader the
\* value before and after every transaction.
AggregatorReads ==
  /\ active = "aggregator" => A!ReadsLatest
  /\ active = "aggregator" => A!HistoryAsOf

\* The change-file aggregator never runs into its own consistency errors.
NothingFails == active = "aggregator" => A!NothingFails

===============================================================================
