-------------------------- MODULE MCStateStructures ---------------------------
(***************************************************************************)
(* Eight components checked in one run; a behaviour is about one of them.  *)
(* Domains: one account with two storage locations, steps of two txNums up *)
(* to the merge of files of two steps, four budgets of writes and crashes. *)
(* Patricia trie: four accounts and three locations whose hashes share     *)
(* prefixes of every length, batches of two writes, in both commitment     *)
(* modes; the binary trie: four accounts and two locations.  Elias-Fano    *)
(* lists: up to five offsets up to 9 in words of four bits, a jump every   *)
(* two.  Double Elias-Fano: buckets of up to nine keys and positions in    *)
(* words of eight bits. RecSplit: one to 22 keys in buckets of twelve with *)
(* leaves of two, so that a bucket splits twice, with a pair of keys whose *)
(* fingerprints are the same under the first salt.  2-3 tree: a tree built *)
(* at once from up to nine keys and two more batches.  Substring search:   *)
(* three words out of thirteen, some of them prefixes of others, over      *)
(* bytes of two bits and edges of five.                                    *)
(***************************************************************************)
EXTENDS Integers, Sequences, TLC

CONSTANTS StepsInBiggestFile

VARIABLES
  active,  \* the component this behaviour is about
  db, wal, disk, files, base, building, txNum, seekTxNum, touched, past,
  missed, left, phase, accounts, storage, branches, trie, mode, todo, updates,
  rootHash, saved, ef, offsets, it, input, keys, enums, salt, collected,
  offsetsIn, gr, tableLen, records, sizeAcc, posAcc, maxOffset, plan, root,
  held, nodes, dict, found

-----------------------------------------------------------------------------
Budget(t, w, c) == [tx |-> t, write |-> w, crash |-> c]

D == INSTANCE Domains WITH
  Accounts <- {1}, Locations <- {1, 2}, Contents <- {{1}}, AggregationStep <- 2,
  MaxTxNum <- 10, Budgets <- {Budget(10, 2, 0), Budget(8, 3, 0), Budget(10, 1, 1),
                              Budget(8, 2, 1)}

Hashes == "a" :> <<0, 0, 0, 0>> @@ "b" :> <<0, 0, 1, 0>> @@ "c" :> <<0, 1, 0, 0>>
          @@ "d" :> <<1, 0, 0, 0>> @@ "x" :> <<0, 0, 0, 1>> @@ "y" :> <<0, 0, 1, 0>>
          @@ "z" :> <<1, 0, 0, 1>>

P == INSTANCE PatriciaTrie WITH
  Accounts <- {"a", "b", "c", "d"}, Slots <- {<<"a", "x">>, <<"a", "y">>, <<"a", "z">>},
  HashOf <- Hashes, HalfKey <- 4, Balances <- {1}, Codes <- {1}, Values <- {1}, BatchSize <- 2

HexHashes == "a" :> <<0>> @@ "b" :> <<4>> @@ "c" :> <<8>> @@ "d" :> <<12>>
             @@ "x" :> <<3>> @@ "y" :> <<9>>

Y == INSTANCE BinPatriciaTrie WITH
  Accounts <- {"a", "b", "c", "d"}, Slots <- {<<"a", "x">>, <<"a", "y">>},
  NibblesOf <- HexHashes, Balances <- {1}, Codes <- {1}, Values <- {1}, BatchSize <- 2



E == INSTANCE EliasFano WITH
  WordBits <- 4, Q <- 2, SuperQ <- 4, MaxCount <- 5, MaxValue <- 9

Deltas(n) == {[i \in 1..n |-> IF i \in S THEN a ELSE b] :
                 S \in SUBSET {1, 4, 9}, a \in {0, 1, 6}, b \in {0, 1}}
RECURSIVE SumTo(_, _)
SumTo(d, i) == IF i = 0 THEN 0 ELSE d[i] + SumTo(d, i - 1)
Cumulated(d) == [i \in 1..Len(d) + 1 |-> SumTo(d, i - 1)]
MCInputs == UNION {{<<Cumulated(c), Cumulated(p)>> : c, p \in Deltas(n)} : n \in {1, 7, 9}}

B == INSTANCE DoubleEliasFano WITH
  WordBits <- 8, Q <- 2, SuperQ <- 8, Inputs <- MCInputs

MCKeySets == {[i \in 1..n |-> <<i + d, 37 * (i - 1)>>] : n \in 1..22, d \in 0..7}
MCRemix(z) == (z * z * 7 + z * 13 + ((z * z * z) % 101)) % 97
MCSum128(key, s) == <<(key * 11 + s * 5) % 16, IF s = 0 /\ key = 13 THEN 2 ELSE key>>
MCGolombLength(m) == 1 + (m % 2)
MCNewOffset(o) == 7 * o + 3

R == INSTANCE RecSplit WITH
  KeySets <- MCKeySets, Sum128 <- MCSum128, HashRange <- 16, Remix <- MCRemix,
  MixRange <- 97, StartSeed <- <<3, 17, 29, 41, 53, 7>>, LeafSize <- 2, BucketSize <- 12,
  GolombLength <- MCGolombLength, NewOffset <- MCNewOffset, MaxSalt <- 400

MCPlans == {<< <<"upsert", {1..n : n \in 1..9}>>, <<"delete", SUBSET (1..9)>>,
               <<"upsert", {{k} : k \in 1..10} \union {{2, 5, 9}, {1, 6}, 1..10}>> >>,
            << <<"upsert", {{2 * i : i \in 1..n} : n \in 1..5}>>, <<"upsert", SUBSET (1..9)>>,
               <<"upsert", {{k} : k \in 1..10} \union {{3, 6, 7}, {1, 8}}>> >>}

T == INSTANCE Tree23 WITH
  Plans <- MCPlans

MCDictWords == {<<0>>, <<0, 0>>, <<0, 1>>, <<0, 0, 2>>, <<3, 1>>, <<3, 1, 0>>, <<3, 1, 2>>,
                <<1, 0, 0>>, <<2>>, <<1, 2, 3, 0>>, <<1, 2, 3>>, <<0, 0, 0, 0>>, <<1, 2, 2, 1>>}
MCTexts == {<<0, 0>>, <<0, 0, 0, 2, 1>>, <<3, 1, 0, 0, 1>>, <<1, 2, 3, 0, 0>>, <<0, 0, 0, 0, 0>>,
            <<1, 2, 3, 1, 2, 2>>, <<2, 3, 1, 2, 2, 1>>, <<1, 0, 0, 1, 0, 0>>}

M == INSTANCE MatchFinder WITH
  ByteBits <- 2, MaxPrefix <- 5, Words <- MCDictWords, MaxInserts <- 3, Texts <- MCTexts

-----------------------------------------------------------------------------
(* The variables of the other components stay what they are.               *)

besideD == <<accounts, storage, branches, trie, mode, todo, updates, rootHash,
             saved, ef, offsets, it, input, keys, enums, salt, collected,
             offsetsIn, gr, tableLen, records, sizeAcc, posAcc, maxOffset,
             plan, root, held, nodes, dict, found>>

besideP == <<db, wal, disk, files, base, building, txNum, seekTxNum, touched,
             past, missed, left, ef, offsets, it, input, keys, enums, salt,
             collected, offsetsIn, gr, tableLen, records, sizeAcc, posAcc,
             maxOffset, plan, root, held, nodes, dict, found>>

besideY == <<db, wal, disk, files, base, building, txNum, seekTxNum, touched,
             past, missed, left, mode, saved, ef, offsets, it, input, keys,
             enums, salt, collected, offsetsIn, gr, tableLen, records,
             sizeAcc, posAcc, maxOffset, plan, root, held, nodes, dict, found>>

besideE == <<db, wal, disk, files, base, building, txNum, seekTxNum, touched,
             past, missed, left, accounts, storage, branches, trie, mode,
             todo, updates, rootHash, saved, input, keys, enums, salt,
             collected, offsetsIn, gr, tableLen, records, sizeAcc, posAcc,
             maxOffset, plan, root, held, nodes, dict, found>>

besideB == <<db, wal, disk, files, base, building, txNum, seekTxNum, touched,
             past, missed, left, phase, accounts, storage, branches, trie,
             mode, todo, updates, rootHash, saved, offsets, it, keys, enums,
             salt, collected, offsetsIn, gr, tableLen, records, sizeAcc,
             posAcc, maxOffset, plan, root, held, nodes, dict, found>>

besideR == <<db, wal, disk, files, base, building, txNum, seekTxNum, touched,
             past, missed, left, accounts, storage, branches, trie, mode,
             todo, updates, rootHash, saved, ef, offsets, it, input, plan,
             root, held, nodes, dict, found>>

besideT == <<db, wal, disk, files, base, building, txNum, seekTxNum, touched,
             past, missed, left, phase, accounts, storage, branches, trie,
             mode, todo, updates, rootHash, saved, ef, offsets, it, input,
             keys, enums, salt, collected, offsetsIn, gr, tableLen, records,
             sizeAcc, posAcc, maxOffset, nodes, dict, found>>

besideM == <<db, wal, disk, files, base, building, txNum, seekTxNum, touched,
             past, missed, left, phase, accounts, storage, branches, trie,
             mode, todo, updates, rootHash, saved, ef, offsets, it, input,
             keys, enums, salt, collected, offsetsIn, gr, tableLen, records,
             sizeAcc, posAcc, maxOffset, plan, root, held>>

InitD ==
  /\ active = "domains" /\ D!Init
  /\ accounts = <<>> /\ storage = <<>> /\ branches = <<>> /\ trie = <<>>
  /\ mode = <<>> /\ todo = <<>> /\ updates = <<>> /\ rootHash = <<>>
  /\ saved = <<>> /\ ef = <<>> /\ offsets = <<>> /\ it = <<>> /\ input = <<>>
  /\ keys = <<>> /\ enums = <<>> /\ salt = <<>> /\ collected = <<>>
  /\ offsetsIn = <<>> /\ gr = <<>> /\ tableLen = <<>> /\ records = <<>>
  /\ sizeAcc = <<>> /\ posAcc = <<>> /\ maxOffset = <<>> /\ plan = <<>>
  /\ root = <<>> /\ held = <<>> /\ nodes = <<>> /\ dict = <<>>
  /\ found = <<>>

InitP ==
  /\ active = "trie" /\ P!Init
  /\ db = <<>> /\ wal = <<>> /\ disk = <<>> /\ files = <<>> /\ base = <<>>
  /\ building = <<>> /\ txNum = <<>> /\ seekTxNum = <<>> /\ touched = <<>>
  /\ past = <<>> /\ missed = <<>> /\ left = <<>> /\ ef = <<>>
  /\ offsets = <<>> /\ it = <<>> /\ input = <<>> /\ keys = <<>>
  /\ enums = <<>> /\ salt = <<>> /\ collected = <<>> /\ offsetsIn = <<>>
  /\ gr = <<>> /\ tableLen = <<>> /\ records = <<>> /\ sizeAcc = <<>>
  /\ posAcc = <<>> /\ maxOffset = <<>> /\ plan = <<>> /\ root = <<>>
  /\ held = <<>> /\ nodes = <<>> /\ dict = <<>> /\ found = <<>>

InitY ==
  /\ active = "binary trie" /\ Y!Init
  /\ db = <<>> /\ wal = <<>> /\ disk = <<>> /\ files = <<>> /\ base = <<>>
  /\ building = <<>> /\ txNum = <<>> /\ seekTxNum = <<>> /\ touched = <<>>
  /\ past = <<>> /\ missed = <<>> /\ left = <<>> /\ mode = <<>>
  /\ saved = <<>> /\ ef = <<>> /\ offsets = <<>> /\ it = <<>> /\ input = <<>>
  /\ keys = <<>> /\ enums = <<>> /\ salt = <<>> /\ collected = <<>>
  /\ offsetsIn = <<>> /\ gr = <<>> /\ tableLen = <<>> /\ records = <<>>
  /\ sizeAcc = <<>> /\ posAcc = <<>> /\ maxOffset = <<>> /\ plan = <<>>
  /\ root = <<>> /\ held = <<>> /\ nodes = <<>> /\ dict = <<>>
  /\ found = <<>>

InitE ==
  /\ active = "offsets" /\ E!Init
  /\ db = <<>> /\ wal = <<>> /\ disk = <<>> /\ files = <<>> /\ base = <<>>
  /\ building = <<>> /\ txNum = <<>> /\ seekTxNum = <<>> /\ touched = <<>>
  /\ past = <<>> /\ missed = <<>> /\ left = <<>> /\ accounts = <<>>
  /\ storage = <<>> /\ branches = <<>> /\ trie = <<>> /\ mode = <<>>
  /\ todo = <<>> /\ updates = <<>> /\ rootHash = <<>> /\ saved = <<>>
  /\ input = <<>> /\ keys = <<>> /\ enums = <<>> /\ salt = <<>>
  /\ collected = <<>> /\ offsetsIn = <<>> /\ gr = <<>> /\ tableLen = <<>>
  /\ records = <<>> /\ sizeAcc = <<>> /\ posAcc = <<>> /\ maxOffset = <<>>
  /\ plan = <<>> /\ root = <<>> /\ held = <<>> /\ nodes = <<>> /\ dict = <<>>
  /\ found = <<>>

InitB ==
  /\ active = "buckets" /\ B!Init
  /\ db = <<>> /\ wal = <<>> /\ disk = <<>> /\ files = <<>> /\ base = <<>>
  /\ building = <<>> /\ txNum = <<>> /\ seekTxNum = <<>> /\ touched = <<>>
  /\ past = <<>> /\ missed = <<>> /\ left = <<>> /\ phase = <<>>
  /\ accounts = <<>> /\ storage = <<>> /\ branches = <<>> /\ trie = <<>>
  /\ mode = <<>> /\ todo = <<>> /\ updates = <<>> /\ rootHash = <<>>
  /\ saved = <<>> /\ offsets = <<>> /\ it = <<>> /\ keys = <<>>
  /\ enums = <<>> /\ salt = <<>> /\ collected = <<>> /\ offsetsIn = <<>>
  /\ gr = <<>> /\ tableLen = <<>> /\ records = <<>> /\ sizeAcc = <<>>
  /\ posAcc = <<>> /\ maxOffset = <<>> /\ plan = <<>> /\ root = <<>>
  /\ held = <<>> /\ nodes = <<>> /\ dict = <<>> /\ found = <<>>

InitR ==
  /\ active = "recsplit" /\ R!Init
  /\ db = <<>> /\ wal = <<>> /\ disk = <<>> /\ files = <<>> /\ base = <<>>
  /\ building = <<>> /\ txNum = <<>> /\ seekTxNum = <<>> /\ touched = <<>>
  /\ past = <<>> /\ missed = <<>> /\ left = <<>> /\ accounts = <<>>
  /\ storage = <<>> /\ branches = <<>> /\ trie = <<>> /\ mode = <<>>
  /\ todo = <<>> /\ updates = <<>> /\ rootHash = <<>> /\ saved = <<>>
  /\ ef = <<>> /\ offsets = <<>> /\ it = <<>> /\ input = <<>> /\ plan = <<>>
  /\ root = <<>> /\ held = <<>> /\ nodes = <<>> /\ dict = <<>>
  /\ found = <<>>

InitT ==
  /\ active = "tree23" /\ T!Init
  /\ db = <<>> /\ wal = <<>> /\ disk = <<>> /\ files = <<>> /\ base = <<>>
  /\ building = <<>> /\ txNum = <<>> /\ seekTxNum = <<>> /\ touched = <<>>
  /\ past = <<>> /\ missed = <<>> /\ left = <<>> /\ phase = <<>>
  /\ accounts = <<>> /\ storage = <<>> /\ branches = <<>> /\ trie = <<>>
  /\ mode = <<>> /\ todo = <<>> /\ updates = <<>> /\ rootHash = <<>>
  /\ saved = <<>> /\ ef = <<>> /\ offsets = <<>> /\ it = <<>> /\ input = <<>>
  /\ keys = <<>> /\ enums = <<>> /\ salt = <<>> /\ collected = <<>>
  /\ offsetsIn = <<>> /\ gr = <<>> /\ tableLen = <<>> /\ records = <<>>
  /\ sizeAcc = <<>> /\ posAcc = <<>> /\ maxOffset = <<>> /\ nodes = <<>>
  /\ dict = <<>> /\ found = <<>>

InitM ==
  /\ active = "matches" /\ M!Init
  /\ db = <<>> /\ wal = <<>> /\ disk = <<>> /\ files = <<>> /\ base = <<>>
  /\ building = <<>> /\ txNum = <<>> /\ seekTxNum = <<>> /\ touched = <<>>
  /\ past = <<>> /\ missed = <<>> /\ left = <<>> /\ phase = <<>>
  /\ accounts = <<>> /\ storage = <<>> /\ branches = <<>> /\ trie = <<>>
  /\ mode = <<>> /\ todo = <<>> /\ updates = <<>> /\ rootHash = <<>>
  /\ saved = <<>> /\ ef = <<>> /\ offsets = <<>> /\ it = <<>> /\ input = <<>>
  /\ keys = <<>> /\ enums = <<>> /\ salt = <<>> /\ collected = <<>>
  /\ offsetsIn = <<>> /\ gr = <<>> /\ tableLen = <<>> /\ records = <<>>
  /\ sizeAcc = <<>> /\ posAcc = <<>> /\ maxOffset = <<>> /\ plan = <<>>
  /\ root = <<>> /\ held = <<>>

Init == InitD \/ InitP \/ InitY \/ InitE \/ InitB \/ InitR \/ InitT \/ InitM

Next ==
  \/ active = "domains" /\ D!Next /\ UNCHANGED <<active, besideD>>
  \/ active = "trie" /\ P!Next /\ UNCHANGED <<active, besideP>>
  \/ active = "binary trie" /\ Y!Next /\ UNCHANGED <<active, besideY>>
  \/ active = "offsets" /\ E!Next /\ UNCHANGED <<active, besideE>>
  \/ active = "buckets" /\ B!Next /\ UNCHANGED <<active, besideB>>
  \/ active = "recsplit" /\ R!Next /\ UNCHANGED <<active, besideR>>
  \/ active = "tree23" /\ T!Next /\ UNCHANGED <<active, besideT>>
  \/ active = "matches" /\ M!Next /\ UNCHANGED <<active, besideM>>

vars == <<active, db, wal, disk, files, base, building, txNum, seekTxNum,
          touched, past, missed, left, phase, accounts, storage, branches,
          trie, mode, todo, updates, rootHash, saved, ef, offsets, it, input,
          keys, enums, salt, collected, offsetsIn, gr, tableLen, records,
          sizeAcc, posAcc, maxOffset, plan, root, held, nodes, dict, found>>

Spec == Init /\ [][Next]_vars

-----------------------------------------------------------------------------
\* Get and IteratePrefix of every domain return what was last put or deleted,
\* from tables, files and merged files alike, and GetBeforeTxNum the value a
\* key had before the txNum, as far back as history reaches.
DomainReads ==
  /\ active = "domains" => D!LatestReads
  /\ active = "domains" => D!ReadsBefore

\* The commitment is computed over every key written since the last one.
CommitmentCoversState == active = "domains" => D!CommitmentCoversState

\* The root returned for a batch is the root of the tree built from all
\* accounts and locations, and every stored branch has a cell for each child
\* that exists and no other; the same of the binary trie.
RootHashIsStateRoot ==
  /\ active = "trie" => P!RootHashIsStateRoot
  /\ active = "trie" => P!BranchesComplete
  /\ active = "binary trie" => Y!RootHashIsStateRoot

\* What an index was built from is what it answers: an Elias-Fano list every
\* offset, the double list every bucket, RecSplit every key, with each of their
\* methods.
IndexReadsBack ==
  /\ active = "offsets" => E!SequenceReadBack
  /\ active = "buckets" => B!BucketsReadBack
  /\ active = "recsplit" => R!LookupFinds

\* A 2-3 tree stays one, with every key that was put in and not deleted, over a
\* build and two batches (bptree).
TreeSound == active = "tree23" => T!TreeSound

\* The matches the compressor covers a word with are words of the dictionary,
\* and the longest ones when prefixes were inserted first (patricia.go).
MatchesGenuine == active = "matches" => M!MatchesGenuine

===============================================================================
