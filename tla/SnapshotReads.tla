--------------------------- MODULE SnapshotReads ---------------------------
(***************************************************************************)
(* What kv/kvcache promises its clients (the header comment of Coherent):  *)
(* a cache together with a read transaction gives "Serializable Isolation  *)
(* Level".  A reader pins the newest committed version when it begins; all *)
(* it may observe until it ends is the database of that version, or an     *)
(* error.  Nothing of the cache appears here.                              *)
(***************************************************************************)
EXTENDS Integers

CONSTANTS Readers,     \* concurrent read transactions
          DbKeys,      \* keys of PlainState and Code
          DbValues,    \* values, the marker of an absent key included
          Versions,    \* PlainStateVersion numbers, an initial segment of Nat
          NoTx, NoOut  \* no transaction; no answer (or an error) yet

VARIABLES db,       \* db[v]: contents of the database at version v
          version,  \* newest committed version
          tx,       \* tx[r]: version pinned by reader r
          out       \* out[r]: the last answer reader r received

vars == <<db, version, tx, out>>

State == [DbKeys -> DbValues]
Answer == [key: DbKeys, val: DbValues]

Init == /\ db \in [Versions -> State]
        /\ version \in Versions
        /\ tx = [r \in Readers |-> NoTx]
        /\ out = [r \in Readers |-> NoOut]

\* The node commits the next version; older versions never change.
Commit == /\ version + 1 \in Versions
          /\ version' = version + 1
          /\ \E s \in State : db' = [db EXCEPT ![version + 1] = s]
          /\ UNCHANGED <<tx, out>>

Begin(r) == /\ tx[r] = NoTx
            /\ tx' = [tx EXCEPT ![r] = version]
            /\ UNCHANGED <<db, version, out>>

\* The only answer a reader can get is the one of its own version.
Read(r) == /\ tx[r] # NoTx
           /\ \E k \in DbKeys :
                out' = [out EXCEPT ![r] = [key |-> k, val |-> db[tx[r]][k]]]
           /\ UNCHANGED <<db, version, tx>>

\* A call that fails (too old view, cancelled, db error) answers nothing.
Fail(r) == /\ tx[r] # NoTx
           /\ out' = [out EXCEPT ![r] = NoOut]
           /\ UNCHANGED <<db, version, tx>>

End(r) == /\ tx[r] # NoTx
          /\ tx' = [tx EXCEPT ![r] = NoTx]
          /\ out' = [out EXCEPT ![r] = NoOut]
          /\ UNCHANGED <<db, version>>

Next == Commit \/ \E r \in Readers : Begin(r) \/ Read(r) \/ Fail(r) \/ End(r)

Spec == Init /\ [][Next]_vars
=============================================================================
