---------------------------- MODULE PatriciaTrie ----------------------------
(***************************************************************************)
(* The incremental Merkle Patricia commitment of package commitment        *)
(* (commitment.go, hex_patricia_hashed.go), driven the way                 *)
(* state/domain_committed.go and state/aggregator.go drive it: the keys a  *)
(* batch of writes touched are reviewed in the order of their hashes on a  *)
(* grid of unfolded rows, the branch nodes the rows fold into are merged   *)
(* with the stored ones, and the root of the whole tree comes out without  *)
(* the tree ever being loaded.                                             *)
(*                                                                         *)
(* Hashes are perfect: the hash of a node is the node.  A plain key hashes *)
(* to the sequence of nibbles HashOf gives it, of length HalfKey (64 in    *)
(* the code, 32 bytes of keccak); a storage key has 2 * HalfKey nibbles.   *)
(* A length of zero in a field of a Cell is the empty sequence here.       *)
(***************************************************************************)
EXTENDS Integers, FiniteSets, SequencesExt, TLC

CONSTANTS
    Accounts,    \* the plain keys of accounts
    Slots,       \* the storage keys <<account, location>> the writes may use
    HashOf,      \* the nibbles the hash of an account or location has
    HalfKey,     \* 64: the nibbles of one hash
    Balances,    \* what the balance (and nonce) of an account may be
    Codes,       \* the code hashes; EmptyCode is the one of no code
    Values,      \* the non-empty contents of a storage slot
    BatchSize    \* how many writes one commitment covers at most

(* The hashes of two accounts differ before their last nibble.             *)
HashesSpread ==
    /\ \A k \in DOMAIN HashOf : Len(HashOf[k]) = HalfKey
    /\ \A a, b \in Accounts : Front(HashOf[a]) = Front(HashOf[b]) => a = b

VARIABLES
    accounts,    \* the latest account data: <<>> or <<[balance, code]>>
    storage,     \* the latest storage: <<>> or <<value>>
    branches,    \* the commitment domain: prefix -> branch data
    trie,        \* the HexPatriciaHashed
    mode,        \* CommitmentModeDirect or CommitmentModeUpdate
    todo,        \* the touched keys not reviewed yet, in order of their hash
    updates,     \* branchNodeUpdates of the review under way
    phase,       \* "idle" or "review"
    rootHash,    \* the root hash last returned: <<>> or <<hash>>
    saved        \* the trie state last stored: the encoded root cell

vars == <<accounts, storage, branches, trie, mode, todo, updates, phase,
          rootHash, saved>>

EmptyCode == 0
NoAccount == [balance |-> 0, code |-> EmptyCode]
Contracts == {s[1] : s \in Slots}
Nibbles == UNION {{HashOf[k][i] : i \in DOMAIN HashOf[k]} : k \in DOMAIN HashOf}

HashedKey(plain) == IF Len(plain) = 1 THEN HashOf[plain[1]]
                    ELSE HashOf[plain[1]] \o HashOf[plain[2]]

From(s, i) == SubSeq(s, i + 1, Len(s))   \* s[i:]
Upto(s, i) == SubSeq(s, 1, i)            \* s[:i]

-----------------------------------------------------------------------------
(* Nodes.                                                                  *)

EmptyRootHash == [empty |-> TRUE]
LeafNode(path, val) == [leafKey |-> path, val |-> val]
ExtensionNode(path, node) == [extension |-> path, node |-> node]
BranchNode(children) == [children |-> children]

(* The keys of accounts and slots written as leaves carry the rest of the  *)
(* hashed key; the leaf of an account holds its fields and storage root.   *)
accountForHashing(acc, storageRoot) == <<acc.balance, acc.code, storageRoot>>

fillEmpty ==
    [apk |-> <<>>, spk |-> <<>>, down |-> <<>>, ext |-> <<>>, h |-> <<>>,
     acc |-> NoAccount, val |-> <<>>]

fillFromUpperCell(cell, up, depth, inc) ==
    LET account == depth <= HalfKey /\ up.apk # <<>>
    IN  [cell EXCEPT !.down = From(up.down, inc),
                     !.ext = IF account THEN up.ext ELSE From(up.ext, inc),
                     !.apk = IF depth <= HalfKey THEN up.apk ELSE <<>>,
                     !.acc = IF account THEN up.acc ELSE @,
                     !.spk = up.spk,
                     !.val = IF up.spk # <<>> THEN up.val ELSE @,
                     !.h = up.h]

(* Mutant: the path to a lone branch forgets the nibble of its column.     *)
fillFromLowerCellShort(cell, low, lowDepth, pre, nibble) ==
    [cell EXCEPT !.apk = IF low.apk # <<>> \/ lowDepth < HalfKey
                         THEN low.apk ELSE @,
                 !.acc = IF low.apk # <<>> THEN low.acc ELSE @,
                 !.spk = low.spk,
                 !.val = IF low.spk # <<>> THEN low.val ELSE @,
                 !.ext = IF low.h = <<>> THEN @ ELSE pre \o low.ext,
                 !.h = low.h]

fillFromLowerCell(cell, low, lowDepth, pre, nibble) ==
    [cell EXCEPT !.apk = IF low.apk # <<>> \/ lowDepth < HalfKey
                         THEN low.apk ELSE @,
                 !.acc = IF low.apk # <<>> THEN low.acc ELSE @,
                 !.spk = low.spk,
                 !.val = IF low.spk # <<>> THEN low.val ELSE @,
                 !.ext = IF low.h = <<>> THEN @
                         ELSE IF \/ low.apk = <<>> /\ lowDepth < HalfKey
                                 \/ low.spk = <<>> /\ lowDepth > HalfKey
                              THEN pre \o <<nibble>> \o low.ext
                              ELSE low.ext,
                 !.h = low.h]

(* The nibbles between the column of a cell and the end of its keys.       *)
deriveHashedKeys(cell, depth) ==
    LET account == IF cell.apk = <<>> THEN <<>>
                   ELSE From(HashOf[cell.apk[1]], depth)
        slot == IF cell.spk = <<>> THEN <<>>
                ELSE From(HashOf[cell.spk[2]],
                          IF depth >= HalfKey THEN depth - HalfKey ELSE 0)
    IN  [cell EXCEPT !.down = account \o slot \o @]

leafHashWithKeyVal(cell, offset) ==
    LeafNode(From(HashOf[cell.spk[2]], offset), cell.val)

accountLeafHashWithKey(cell, depth, storageRoot) ==
    LeafNode(From(HashOf[cell.apk[1]], depth),
             accountForHashing(cell.acc, storageRoot))

extensionHash(path, node) == ExtensionNode(path, node)

(* computeCellHash fails on an extension without a hash.                   *)
HashBelow(cell) ==
    IF cell.ext # <<>>
    THEN IF cell.h # <<>> THEN extensionHash(cell.ext, cell.h[1])
         ELSE [extensionWithoutHash |-> cell.ext]
    ELSE IF cell.h # <<>> THEN cell.h[1] ELSE EmptyRootHash

computeCellHash(cell, depth) ==
    IF cell.spk # <<>> /\ depth > HalfKey
    THEN leafHashWithKeyVal(cell, depth - HalfKey)
    ELSE IF cell.apk # <<>>
    THEN accountLeafHashWithKey(cell, depth,
             IF cell.spk # <<>> THEN leafHashWithKeyVal(cell, 0)
             ELSE HashBelow(cell))
    ELSE HashBelow(cell)

-----------------------------------------------------------------------------
(* Branch data: which children were touched, which exist afterwards, and   *)
(* the fields of those that are both.                                      *)

EncodeCell(cell) ==
    [ext |-> IF cell.spk = <<>> THEN cell.ext ELSE <<>>,
     apk |-> cell.apk, spk |-> cell.spk, h |-> cell.h]

EncodeBranch(bitmap, touchMap, afterMap, cells) ==
    [touchMap |-> touchMap, afterMap |-> afterMap,
     cells |-> [n \in bitmap |-> EncodeCell(cells[n])]]

fillFromFields(fields) ==
    [fillEmpty EXCEPT !.down = fields.ext, !.ext = fields.ext,
                      !.apk = fields.apk, !.spk = fields.spk, !.h = fields.h]

IsComplete(b) == b.afterMap \subseteq b.touchMap

(* BranchMerger.Merge and MergeHexBranches.                                *)
Merge(b1, b2) ==
    [touchMap |-> b1.touchMap \cup b2.touchMap,
     afterMap |-> b2.afterMap,
     cells |-> b2.cells @@
               [n \in {m \in DOMAIN b1.cells :
                          m \notin b2.touchMap /\ m \in b2.afterMap}
                    |-> b1.cells[n]]]

-----------------------------------------------------------------------------
(* The grid.  A row has its cells, its maps, its depth and whether it was  *)
(* loaded from a stored branch node.                                       *)

Reset(t) ==
    [t EXCEPT !.root = fillEmpty, !.rootChecked = FALSE,
              !.rootTouched = FALSE, !.rootPresent = TRUE]

NewHexPatriciaHashed ==
    [root |-> fillEmpty, rows |-> <<>>, key |-> <<>>, rootChecked |-> FALSE,
     rootTouched |-> FALSE, rootPresent |-> FALSE]

EmptyRow(depth) ==
    [cells |-> [n \in Nibbles |-> fillEmpty], touchMap |-> {}, afterMap |-> {},
     branchBefore |-> FALSE, depth |-> depth]

needFolding(t, key) == ~IsPrefix(t.key, key)

commonPrefixLen(a, b) == Len(LongestCommonPrefix({a, b}))

(* How many nibbles the cell the key leads to has to be unfolded by.       *)
UnfoldingOf(t, cell, depth, key) ==
    IF Len(key) <= depth THEN 0
    ELSE IF cell.down = <<>> THEN IF cell.h = <<>> THEN 0 ELSE 1
    ELSE LET unfolding == 1 + commonPrefixLen(From(key, depth), Front(cell.down))
         IN  IF depth < HalfKey /\ depth + unfolding > HalfKey
             THEN HalfKey - depth
             ELSE unfolding

needUnfolding(t, key) ==
    IF t.rows = <<>>
    THEN IF t.root.down = <<>> /\ t.root.h = <<>>
         THEN IF t.rootChecked THEN 0 ELSE 1
         ELSE UnfoldingOf(t, t.root, 0, key)
    ELSE UnfoldingOf(t, Last(t.rows).cells[key[Len(t.key) + 1]],
                     Last(t.rows).depth, key)

(* accountFn and storageFn fill a cell with the latest values.             *)
accountFn(cell) ==
    IF cell.apk = <<>> THEN cell
    ELSE [cell EXCEPT !.acc = IF accounts[cell.apk[1]] = <<>> THEN NoAccount
                              ELSE accounts[cell.apk[1]][1]]

storageFn(cell) ==
    IF cell.spk = <<>> THEN cell ELSE [cell EXCEPT !.val = storage[cell.spk]]

(* The cells of a stored branch node, as afterMap and the fields say.      *)
unfoldBranchNode(b, deleted, depth) ==
    [EmptyRow(depth) EXCEPT
        !.branchBefore = TRUE,
        !.touchMap = IF deleted THEN b.afterMap ELSE {},
        !.afterMap = IF deleted THEN {} ELSE b.afterMap,
        !.cells = [n \in Nibbles |->
                      IF n \in b.afterMap
                      THEN deriveHashedKeys(
                             storageFn(accountFn(fillFromFields(b.cells[n]))),
                             depth)
                      ELSE fillEmpty]]

Selected(t, col) ==
    IF t.rows = <<>>
    THEN [cell |-> t.root, touched |-> t.rootTouched, present |-> t.rootPresent,
          depth |-> 0, key |-> <<>>]
    ELSE [cell |-> Last(t.rows).cells[col],
          touched |-> col \in Last(t.rows).touchMap,
          present |-> col \in Last(t.rows).afterMap,
          depth |-> Last(t.rows).depth, key |-> Append(t.key, col)]

(* The row below a cell that stands for several nibbles: one column.       *)
UnfoldedPath(t, up, inc) ==
    LET nibble == up.cell.down[inc]
        depth == up.depth + inc
        cell == fillFromUpperCell(fillEmpty, up.cell, depth, inc)
    IN  [EmptyRow(depth) EXCEPT
            !.touchMap = IF up.touched THEN {nibble} ELSE {},
            !.afterMap = IF up.present THEN {nibble} ELSE {},
            !.cells[nibble] = IF Len(t.rows) >= HalfKey
                              THEN [cell EXCEPT !.apk = <<>>] ELSE cell]

UnfoldFrom(t, up, unfolding) ==
    IF up.cell.down = <<>>
    THEN IF ~t.rootChecked /\ up.key = <<>> /\ <<>> \notin DOMAIN branches
         THEN [t EXCEPT !.rootChecked = TRUE]
         ELSE [t EXCEPT !.key = up.key,
                        !.rows = Append(@, unfoldBranchNode(branches[up.key],
                                             up.touched /\ ~up.present,
                                             up.depth + 1))]
    ELSE LET inc == IF Len(up.cell.down) < unfolding
                    THEN Len(up.cell.down) ELSE unfolding
         IN  [t EXCEPT !.key = up.key \o Upto(up.cell.down, inc - 1),
                       !.rows = Append(@, UnfoldedPath(t, up, inc))]

unfold(t, key, unfolding) ==
    UnfoldFrom(t, Selected(t, IF t.rows = <<>> THEN 0
                              ELSE key[Last(t.rows).depth]), unfolding)

-----------------------------------------------------------------------------
(* fold: the last row becomes the cell above it.                           *)

UpDepth(t) == IF Len(t.rows) = 1 THEN 0 ELSE t.rows[Len(t.rows) - 1].depth
UpCell(t) == IF Len(t.rows) = 1 THEN t.root
             ELSE t.rows[Len(t.rows) - 1].cells[t.key[UpDepth(t)]]
MidKey(t) == From(t.key, UpDepth(t))

(* The tree with the last row gone and the cell above it replaced.         *)
Folded(t, cell, touched, gone) ==
    LET up == Len(t.rows) - 1
        col == t.key[UpDepth(t)]
        key == Upto(t.key, UpDepth(t) - 1)
    IN  IF up = 0
        THEN [t EXCEPT !.root = cell, !.rows = <<>>, !.key = <<>>,
                       !.rootTouched = @ \/ touched,
                       !.rootPresent = @ /\ ~(touched /\ gone)]
        ELSE [t EXCEPT !.key = key,
                       !.rows = [Front(@) EXCEPT
                          ![up].cells[col] = cell,
                          ![up].touchMap = IF touched THEN @ \cup {col} ELSE @,
                          ![up].afterMap = IF touched /\ gone /\ UpDepth(t) # HalfKey
                                           THEN @ \ {col} ELSE @]]

(* Everything in the row is deleted.  Where the row is the storage of an   *)
(* account the account itself stays.                                       *)
FoldDeleted(t) ==
    Folded(t, [UpCell(t) EXCEPT !.h = <<>>, !.apk = <<>>, !.spk = <<>>,
                                !.ext = <<>>, !.down = <<>>],
           Last(t.rows).touchMap # {}, TRUE)

(* A leaf or an extension: one cell is left.                               *)
FoldLone(t) ==
    LET row == Last(t.rows)
        nibble == CHOOSE n \in row.afterMap : TRUE
    IN  Folded(t, fillFromLowerCell([UpCell(t) EXCEPT !.ext = <<>>],
                      row.cells[nibble], row.depth, MidKey(t), nibble),
               row.touchMap # {}, FALSE)

FoldBranch(t) ==
    LET row == Last(t.rows)
    IN  Folded(t, [UpCell(t) EXCEPT
                      !.ext = MidKey(t), !.down = MidKey(t),
                      !.apk = IF row.depth < HalfKey THEN <<>> ELSE @,
                      !.spk = <<>>,
                      !.h = <<BranchNode([n \in row.afterMap |->
                                  computeCellHash(row.cells[n], row.depth)])>>],
               row.touchMap # {}, FALSE)

FoldCell(t) ==
    CASE Last(t.rows).afterMap = {} -> FoldDeleted(t)
      [] Cardinality(Last(t.rows).afterMap) = 1 -> FoldLone(t)
      [] OTHER -> FoldBranch(t)

(* Mutant: only the touched cells of a new branch node are written.        *)
FoldUpdateTouched(t) ==
    LET row == Last(t.rows)
    IN  IF Cardinality(row.afterMap) > 1
        THEN t.key :> EncodeBranch(row.touchMap \cap row.afterMap, row.touchMap,
                                   row.afterMap, row.cells)
        ELSE IF row.branchBefore
             THEN t.key :> EncodeBranch({}, row.touchMap, {}, row.cells)
             ELSE <<>>

(* What fold returns to be stored under the key of the row.  A row that    *)
(* was no branch before writes all its cells; a branch node that is gone   *)
(* is written as deleted.                                                  *)
FoldUpdate(t) ==
    LET row == Last(t.rows)
        touch == IF row.branchBefore THEN row.touchMap
                 ELSE row.touchMap \cup row.afterMap
    IN  IF Cardinality(row.afterMap) > 1
        THEN t.key :> EncodeBranch(touch \cap row.afterMap, touch,
                                   row.afterMap, row.cells)
        ELSE IF row.branchBefore
             THEN t.key :> EncodeBranch({}, row.touchMap, {}, row.cells)
             ELSE <<>>

-----------------------------------------------------------------------------
deleteCell(t, key) ==
    LET row == Last(t.rows)
        col == key[Len(t.key) + 1]
        cleared(c) == [c EXCEPT !.ext = <<>>, !.acc = NoAccount]
    IN  IF t.rows = <<>>
        THEN [t EXCEPT !.root = cleared(@), !.rootTouched = TRUE,
                       !.rootPresent = FALSE]
        ELSE IF row.depth < Len(key) THEN t     \* nothing there
        ELSE [t EXCEPT !.rows[Len(t.rows)] =
                 [@ EXCEPT !.cells[col] = cleared(@),
                           !.touchMap = IF col \in row.afterMap
                                        THEN @ \cup {col} ELSE @,
                           !.afterMap = @ \ {col}]]

FilledCell(cell, plain, key, depth) ==
    [cell EXCEPT !.down = IF @ = <<>> THEN From(key, depth) ELSE @,
                 !.apk = IF Len(plain) = 1 THEN plain ELSE @,
                 !.spk = IF Len(plain) = 2 THEN plain ELSE @]

(* The fields of a cell an update names.                                   *)
NoUpdate == [flags |-> {}, acc |-> NoAccount, val |-> <<>>]

SetFields(cell, u) ==
    [cell EXCEPT
        !.acc = [balance |-> IF "balance" \in u.flags THEN u.acc.balance ELSE @.balance,
                 code |-> IF "code" \in u.flags THEN u.acc.code ELSE @.code],
        !.val = IF "storage" \in u.flags THEN u.val ELSE @]

(* updateCell, and the fields set in the cell it returns.                  *)
updateCell(t, plain, key, u) ==
    LET row == Last(t.rows)
        col == key[Len(t.key) + 1]
    IN  IF t.rows = <<>>
        THEN [t EXCEPT !.root = SetFields(FilledCell(@, plain, key, 0), u),
                       !.rootTouched = TRUE, !.rootPresent = TRUE]
        ELSE [t EXCEPT !.rows[Len(t.rows)] =
                 [@ EXCEPT !.cells[col] = SetFields(FilledCell(@, plain, key, row.depth), u),
                           !.touchMap = @ \cup {col},
                           !.afterMap = @ \cup {col}]]

RootHash(t) == computeCellHash(t.root, 0)

-----------------------------------------------------------------------------
(* What a write records for the commitment (TouchPlainKey).  In direct     *)
(* mode only the key counts; in update mode the item carries what changed. *)

TouchPlainKeyAccount(old, acc) ==
    IF acc = <<>> THEN [NoUpdate EXCEPT !.flags = {"delete"}]
    ELSE [NoUpdate EXCEPT !.flags = {"balance"} \cup (old.flags \cap {"code"}),
                          !.acc = [balance |-> acc[1].balance,
                                   code |-> IF "code" \in old.flags
                                            THEN old.acc.code ELSE EmptyCode]]

TouchPlainKeyCode(old, code) ==
    [NoUpdate EXCEPT !.flags = {"code"} \cup (old.flags \cap {"balance"}),
                     !.acc = [balance |-> old.acc.balance, code |-> code]]

TouchPlainKeyStorage(val) ==
    [NoUpdate EXCEPT !.flags = {IF val = <<>> THEN "delete" ELSE "storage"},
                     !.val = val]

(* A write changes the latest values and touches keys.                     *)
UpdateOf(w, k) == IF k \in DOMAIN w.touched THEN w.touched[k] ELSE NoUpdate

UpdateAccountData(w, a, balance) ==
    LET acc == <<[balance |-> balance,
                  code |-> IF w.accounts[a] = <<>> THEN EmptyCode
                           ELSE w.accounts[a][1].code]>>
    IN  [w EXCEPT !.accounts[a] = acc,
                  !.touched = <<a>> :> TouchPlainKeyAccount(UpdateOf(w, <<a>>), acc) @@ @]

UpdateAccountCode(w, a, code) ==
    [w EXCEPT !.accounts[a][1].code = code,
              !.touched = <<a>> :> TouchPlainKeyCode(UpdateOf(w, <<a>>), code) @@ @]

WriteAccountStorage(w, s, val) ==
    [w EXCEPT !.storage[s] = val,
              !.touched = s :> TouchPlainKeyStorage(val) @@ @]

DeleteAccount(w, a) ==
    LET full == {s \in Slots : s[1] = a /\ w.storage[s] # <<>>}
    IN  [w EXCEPT !.accounts[a] = <<>>,
                  !.storage = [s \in Slots |-> IF s \in full THEN <<>> ELSE @[s]],
                  !.touched = [k \in {<<a>>} \cup full |->
                                  [NoUpdate EXCEPT !.flags = {"delete"}]] @@ @]

(* The worlds one more write leads to.  Code and storage belong to an      *)
(* account.                                                                *)
Written(w) ==
    LET present == {a \in Accounts : w.accounts[a] # <<>>}
    IN  {UpdateAccountData(w, a, b) : a \in Accounts, b \in Balances} \cup
        {UpdateAccountCode(w, a, c) : a \in present \cap Contracts, c \in Codes} \cup
        {DeleteAccount(w, a) : a \in present} \cup
        {WriteAccountStorage(w, s, v) : s \in {x \in Slots : x[1] \in present},
                                        v \in {<<>>} \cup {<<x>> : x \in Values}}

AfterWrites[n \in 0..BatchSize] ==
    IF n = 0
    THEN {[accounts |-> accounts, storage |-> storage, touched |-> <<>>]}
    ELSE {v \in UNION {Written(w) : w \in AfterWrites[n - 1]} :
             <<v.accounts, v.storage>> # <<accounts, storage>>}

(* The root stays a branch node: accounts of two first nibbles exist.  A   *)
(* root that is a leaf or an extension has no branch data, and Reset       *)
(* forgets it.                                                             *)
RootIsBranch(accs) ==
    Cardinality({HashOf[a][1] : a \in {x \in Accounts : accs[x] # <<>>}}) > 1

KeyLess(a, b) ==
    LET n == commonPrefixLen(a, b)
    IN  \/ n = Len(a) /\ n < Len(b)
        \/ n < Len(a) /\ n < Len(b) /\ a[n + 1] < b[n + 1]

TouchedKeyList(touched) ==
    SetToSortSeq({[plain |-> k, hashed |-> HashedKey(k), update |-> touched[k]] :
                     k \in DOMAIN touched},
                 LAMBDA x, y : KeyLess(x.hashed, y.hashed))

-----------------------------------------------------------------------------
(* A batch of writes, then ComputeCommitment: Reset and the review.        *)
Batch ==
    /\ phase = "idle"
    /\ \E n \in 1..BatchSize : \E w \in AfterWrites[n] :
          /\ RootIsBranch(w.accounts)
          /\ accounts' = w.accounts
          /\ storage' = w.storage
          /\ todo' = TouchedKeyList(w.touched)
    /\ trie' = Reset(trie)
    /\ phase' = "review"
    /\ updates' = <<>>
    /\ UNCHANGED <<branches, mode, rootHash, saved>>

(* Keep folding until the current key is a prefix of the key to modify, and*)
(* at the end until no row is left.                                        *)
Fold ==
    /\ phase = "review"
    /\ trie.rows # <<>>
    /\ todo # <<>> => needFolding(trie, Head(todo).hashed)
    /\ trie' = FoldCell(trie)
    /\ updates' = FoldUpdate(trie) @@ updates
    /\ UNCHANGED <<accounts, storage, branches, mode, todo, phase, rootHash, saved>>

Unfold ==
    /\ phase = "review"
    /\ todo # <<>>
    /\ ~needFolding(trie, Head(todo).hashed)
    /\ needUnfolding(trie, Head(todo).hashed) > 0
    /\ trie' = unfold(trie, Head(todo).hashed,
                      needUnfolding(trie, Head(todo).hashed))
    /\ UNCHANGED <<accounts, storage, branches, mode, todo, updates, phase,
                   rootHash, saved>>

(* ReviewKeys reads the latest value of the key: it is deleted when empty. *)
Latest(plain, value) ==
    IF Len(plain) = 1 THEN [NoUpdate EXCEPT !.flags = {"balance", "code"}, !.acc = value[1]]
    ELSE [NoUpdate EXCEPT !.flags = {"storage"}, !.val = value]

ReviewKey(t, item) ==
    LET plain == item.plain
        value == IF Len(plain) = 1 THEN accounts[plain[1]] ELSE storage[plain]
    IN  IF value = <<>> THEN deleteCell(t, item.hashed)
        ELSE updateCell(t, plain, item.hashed, Latest(plain, value))

(* ProcessUpdates sets the fields the update names.                        *)
ProcessUpdate(t, item) ==
    IF item.update.flags = {"delete"} THEN deleteCell(t, item.hashed)
    ELSE updateCell(t, item.plain, item.hashed, item.update)

Update ==
    /\ phase = "review"
    /\ todo # <<>>
    /\ ~needFolding(trie, Head(todo).hashed)
    /\ needUnfolding(trie, Head(todo).hashed) = 0
    /\ trie' = IF mode = "direct" THEN ReviewKey(trie, Head(todo))
               ELSE ProcessUpdate(trie, Head(todo))
    /\ todo' = Tail(todo)
    /\ UNCHANGED <<accounts, storage, branches, mode, updates, phase, rootHash, saved>>

(* Cell.bytes writes as extension the nibbles of the hashed key below the  *)
(* cell, and as length of the account key the length of the hash: a root   *)
(* that is a branch node has neither.                                      *)
CellBytes(cell) ==
    [h |-> cell.h, spk |-> cell.spk, down |-> cell.down,
     ext |-> [i \in DOMAIN cell.ext |->
                 IF i <= Len(cell.down) THEN cell.down[i] ELSE 0]]

decodeBytes(enc) ==
    [fillEmpty EXCEPT !.h = enc.h, !.spk = enc.spk, !.down = enc.down, !.ext = enc.ext]

EncodeCurrentState(t) ==
    [root |-> CellBytes(t.root), rootChecked |-> t.rootChecked,
     rootTouched |-> t.rootTouched, rootPresent |-> t.rootPresent]

SetState(s) ==
    [NewHexPatriciaHashed EXCEPT !.root = decodeBytes(s.root),
        !.rootChecked = s.rootChecked, !.rootTouched = s.rootTouched,
        !.rootPresent = s.rootPresent]

(* Aggregator.ComputeCommitment once the review is over: every update is   *)
(* merged with the stored branch data and the trie state is stored.        *)
Finish ==
    /\ phase = "review"
    /\ todo = <<>>
    /\ trie.rows = <<>>
    /\ rootHash' = <<RootHash(trie)>>
    /\ branches' = [p \in DOMAIN updates |->
                       IF p \in DOMAIN branches
                       THEN Merge(branches[p], updates[p])
                       ELSE updates[p]] @@ branches
    /\ saved' = EncodeCurrentState(trie)
    /\ phase' = "idle"
    /\ updates' = <<>>
    /\ UNCHANGED <<accounts, storage, mode, trie, todo>>

(* A restart: SeekCommitment sets the trie to the stored state, and a      *)
(* commitment of no touched keys returns its root hash.                    *)
Restart ==
    /\ phase = "idle"
    /\ rootHash # <<>>
    /\ trie' = SetState(saved)
    /\ rootHash' = <<RootHash(trie')>>
    /\ UNCHANGED <<accounts, storage, branches, mode, todo, updates, phase, saved>>

Init ==
    /\ HashesSpread
    /\ accounts = [a \in Accounts |-> <<>>]
    /\ storage = [s \in Slots |-> <<>>]
    /\ branches = <<>>
    /\ trie = NewHexPatriciaHashed
    /\ mode \in {"direct", "update"}
    /\ todo = <<>>
    /\ updates = <<>>
    /\ phase = "idle"
    /\ rootHash = <<>>
    /\ saved = EncodeCurrentState(NewHexPatriciaHashed)

Next == Batch \/ Fold \/ Unfold \/ Update \/ Finish \/ Restart

Spec == Init /\ [][Next]_vars

-----------------------------------------------------------------------------
(* The reference: the Merkle Patricia tree of the latest values, from      *)
(* scratch, as a function from hashed keys to what their leaves hold.      *)

RECURSIVE NodeOf(_, _)
NodeOf(leaves, depth) ==
    LET keys == DOMAIN leaves
        common == LongestCommonPrefix({From(k, depth) : k \in keys})
        at == depth + Len(common)
        below(n) == [k \in {x \in keys : x[at + 1] = n} |-> leaves[k]]
        branch == BranchNode([n \in {k[at + 1] : k \in keys} |->
                                 NodeOf(below(n), at + 1)])
    IN  CASE keys = {} -> EmptyRootHash
          [] Cardinality(keys) = 1 ->
                LET k == CHOOSE x \in keys : TRUE
                IN  LeafNode(From(k, depth), leaves[k])
          [] Cardinality(keys) > 1 /\ common = <<>> -> branch
          [] OTHER -> ExtensionNode(common, branch)

StorageRoot(a) ==
    LET full == {s \in Slots : s[1] = a /\ storage[s] # <<>>}
    IN  NodeOf([k \in {HashOf[s[2]] : s \in full} |->
                  storage[CHOOSE s \in full : HashOf[s[2]] = k]], 0)

StateRoot ==
    LET present == {a \in Accounts : accounts[a] # <<>>}
        leaf(a) == accountForHashing(accounts[a][1], StorageRoot(a))
    IN  NodeOf([k \in {HashOf[a] : a \in present} |->
                  leaf(CHOOSE a \in present : HashOf[a] = k)], 0)

(* The root hash a commitment returns is the one of the tree built from    *)
(* all the latest values, whatever batches led there, in both modes and    *)
(* after a restart (ReviewKeys, ProcessUpdates, SetState).                 *)
RootHashIsStateRoot == phase = "idle" /\ rootHash # <<>> => rootHash = <<StateRoot>>

(* Stored branch data can be unfolded: all the children that exist are     *)
(* described (IsComplete), which unfoldBranchNode takes for granted.       *)
BranchesComplete == \A p \in DOMAIN branches : IsComplete(branches[p])

=============================================================================
