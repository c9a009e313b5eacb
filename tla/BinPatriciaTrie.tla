-------------------------- MODULE BinPatriciaTrie --------------------------
(***************************************************************************)
(* The binary variant of the commitment (bin_patricia_hashed.go): the grid *)
(* of HexPatriciaHashed with two columns, over the bits of the hashed      *)
(* keys.  Its cells are turned into cells of the hex variant whenever they *)
(* are encoded or filled from the latest values, and there the code is not *)
(* a copy of the hex one: an extension is stored in its compact form, and  *)
(* fillFromFields takes the stored bytes for the bits.  A stored extension *)
(* therefore does not come back as what it was; the instances checked have *)
(* none (every prefix two keys share is a branch node).  SetState reads    *)
(* the encoding of the other variant and always fails: no restart.         *)
(***************************************************************************)
EXTENDS Integers, FiniteSets, Sequences, TLC

CONSTANTS
    Accounts, Slots, Balances, Codes, Values, BatchSize,
    NibblesOf    \* the hash of an account or location, in nibbles

VARIABLES
    accounts, storage,   \* the latest values
    branches,            \* the commitment domain: prefix -> branch data
    trie,                \* the BinPatriciaHashed
    todo, updates,       \* ReviewKeys: keys to come, branchNodeUpdates
    phase, rootHash

vars == <<accounts, storage, branches, trie, todo, updates, phase, rootHash>>

hexToBin(hex) ==
    [i \in 1..4 * Len(hex) |-> (hex[(i - 1) \div 4 + 1] \div 2^(3 - ((i - 1) % 4))) % 2]

SumOfBits(bin, byte) ==
    LET bit(j) == IF 8 * byte + j + 1 > Len(bin) THEN 0
                  ELSE IF bin[8 * byte + j + 1] # 0 THEN 2^j ELSE 0
    IN  bit(0) + bit(1) + bit(2) + bit(3) + bit(4) + bit(5) + bit(6) + bit(7)

binToCompact(bin) ==
    <<Len(bin) \div 256, Len(bin) % 256>> \o
    [k \in 1..(Len(bin) + 7) \div 8 |-> SumOfBits(bin, k - 1)]

compactToBin(compact) ==
    [i \in 1..compact[1] * 256 + compact[2] |->
        (compact[3 + (i - 1) \div 8] \div 2^((i - 1) % 8)) % 2]

(* BinaryCell.unwrapToHexCell: what EncodeBranch is given of a cell.       *)
unwrapToHexCell(cell) ==
    [cell EXCEPT !.ext = IF @ = <<>> THEN @ ELSE binToCompact(@)]

(* wrapAccountStorageFn: to a hex cell and back around accountFn.          *)
wrapAccountStorageFn(cell) ==
    [cell EXCEPT !.ext = IF @ = <<>> THEN @
                         ELSE compactToBin(unwrapToHexCell(cell).ext)]

(* fillFromFields copies the bytes of the field, then the latest values of *)
(* an account or storage cell are read.                                    *)
fillFromFields(fields) ==
    IF fields.apk = <<>> /\ fields.spk = <<>> THEN fields
    ELSE wrapAccountStorageFn(fields)

(* The stored branch nodes as unfoldBranchNode reads them.                 *)
Unfoldable ==
    [p \in DOMAIN branches |->
        [branches[p] EXCEPT !.cells = [n \in DOMAIN @ |-> fillFromFields(@[n])]]]

BitsOf == [k \in DOMAIN NibblesOf |-> hexToBin(NibblesOf[k])]
halfKeySize == 4 * Len(NibblesOf[CHOOSE k \in DOMAIN NibblesOf : TRUE])

H == INSTANCE PatriciaTrie WITH
        HashOf <- BitsOf, HalfKey <- halfKeySize, branches <- Unfoldable,
        mode <- "direct", saved <- <<>>

-----------------------------------------------------------------------------
(* The functions of the grid, copies of the ones of HexPatriciaHashed.     *)
needFolding(t, key) == H!needFolding(t, key)
needUnfolding(t, key) == H!needUnfolding(t, key)
unfold(t, key, unfolding) == H!unfold(t, key, unfolding)
computeBinaryCellHash(cell, depth) == H!computeCellHash(cell, depth)
RootHash(t) == computeBinaryCellHash(t.root, 0)
deleteBinaryCell(t, key) == H!deleteCell(t, key)
updateBinaryCell(t, plain, key, u) == H!updateCell(t, plain, key, u)

fold(t) == H!FoldCell(t)

(* The branch data fold returns, its cells unwrapped to hex cells.         *)
foldUpdate(t) ==
    LET data == H!FoldUpdate(t)
    IN  [p \in DOMAIN data |->
            [data[p] EXCEPT !.cells = [n \in DOMAIN @ |-> unwrapToHexCell(@[n])]]]

(* The staged cell is filled from the latest values: deleted, or set.      *)
ReviewKey(t, plain, key) ==
    LET value == IF Len(plain) = 1 THEN accounts[plain[1]] ELSE storage[plain]
    IN  IF value = <<>> THEN deleteBinaryCell(t, key)
        ELSE updateBinaryCell(t, plain, key, H!Latest(plain, value))

Reset(t) == H!Reset(t)
NewBinPatriciaHashed == H!NewHexPatriciaHashed

-----------------------------------------------------------------------------
Batch ==
    /\ phase = "idle"
    /\ \E n \in 1..BatchSize : \E w \in H!AfterWrites[n] :
          /\ H!RootIsBranch(w.accounts)
          /\ accounts' = w.accounts
          /\ storage' = w.storage
          /\ todo' = H!TouchedKeyList(w.touched)
    /\ trie' = Reset(trie)
    /\ phase' = "review"
    /\ updates' = <<>>
    /\ UNCHANGED <<branches, rootHash>>

Fold ==
    /\ phase = "review"
    /\ trie.rows # <<>>
    /\ todo # <<>> => needFolding(trie, Head(todo).hashed)
    /\ trie' = fold(trie)
    /\ updates' = foldUpdate(trie) @@ updates
    /\ UNCHANGED <<accounts, storage, branches, todo, phase, rootHash>>

Unfold ==
    /\ phase = "review"
    /\ todo # <<>>
    /\ ~needFolding(trie, Head(todo).hashed)
    /\ needUnfolding(trie, Head(todo).hashed) > 0
    /\ trie' = unfold(trie, Head(todo).hashed,
                      needUnfolding(trie, Head(todo).hashed))
    /\ UNCHANGED <<accounts, storage, branches, todo, updates, phase, rootHash>>

Review ==
    /\ phase = "review"
    /\ todo # <<>>
    /\ ~needFolding(trie, Head(todo).hashed)
    /\ needUnfolding(trie, Head(todo).hashed) = 0
    /\ trie' = ReviewKey(trie, Head(todo).plain, Head(todo).hashed)
    /\ todo' = Tail(todo)
    /\ UNCHANGED <<accounts, storage, branches, updates, phase, rootHash>>

(* The end of ReviewKeys; the caller merges the updates into the domain.   *)
Finish ==
    /\ phase = "review"
    /\ todo = <<>>
    /\ trie.rows = <<>>
    /\ rootHash' = <<RootHash(trie)>>
    /\ branches' = [p \in DOMAIN updates |->
                       IF p \in DOMAIN branches
                       THEN H!Merge(branches[p], updates[p])
                       ELSE updates[p]] @@ branches
    /\ phase' = "idle"
    /\ updates' = <<>>
    /\ UNCHANGED <<accounts, storage, trie, todo>>

Init ==
    /\ H!HashesSpread
    /\ accounts = [a \in Accounts |-> <<>>]
    /\ storage = [s \in Slots |-> <<>>]
    /\ branches = <<>>
    /\ trie = NewBinPatriciaHashed
    /\ todo = <<>>
    /\ updates = <<>>
    /\ phase = "idle"
    /\ rootHash = <<>>

Next == Batch \/ Fold \/ Unfold \/ Review \/ Finish

Spec == Init /\ [][Next]_vars

(* The root hash ReviewKeys returns is the one of the binary tree built    *)
(* from all the latest values, whatever batches led there.                 *)
RootHashIsStateRoot == phase = "idle" /\ rootHash # <<>> => rootHash = <<H!StateRoot>>
=============================================================================
