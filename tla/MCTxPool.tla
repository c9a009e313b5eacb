------------------------------ MODULE MCTxPool ------------------------------
(* TxPool on small instances.  Two senders; their transactions are named    *)
(* for the sender and the nonce.                                            *)
EXTENDS TxPool

T(from, nonce, feeCap, tip, value) ==
    [from |-> from, nonce |-> nonce, feeCap |-> feeCap, tip |-> tip, gas |-> 1, value |-> value]

Two == <<"a", "b">>
Rich == [x \in {"a", "b"} |-> [nonce |-> 0, balance |-> 100]]
Unlimited == <<9, 9, 9>>
OneEach == <<1, 1, 1>>

\* At most c commits, r transactions from peers and l calls of AddLocalTxs,
\* and each event of S once.
Budget(c, r, l, S) ==
    [b \in Bounded |-> CASE b = "commit" -> c [] b = "remote" -> r [] b = "local" -> l
                         [] b \in S -> 1 [] OTHER -> 0]

\* a sends two in a row, the second of which is its own, b one that pays less.
RowTx == [ a0 |-> T("a", 0, 10, 2, 0), a1 |-> T("a", 1, 10, 2, 0), b0 |-> T("b", 0, 8, 1, 0) ]
RowOrder == <<"a0", "a1", "b0">>
RowLocal == {<<"a1">>}

\* Blocks, unwinds and base fees; what is handed out to miners; flushes,
\* and restarts.
RowBudgets ==
    { Budget(2, 3, 1, {}),
      [Budget(1, 3, 0, {"cancel"}) EXCEPT !["yield"] = 2],
      Budget(2, 1, 1, {"flush", "restart"}) }

\* Three for the same place: only a0bump can replace another.  b sends two in
\* a row, the second of which pays more.
CrowdTx == [ a0 |-> T("a", 0, 10, 2, 0), a0tip |-> T("a", 0, 10, 3, 0),
             a0bump |-> T("a", 0, 12, 3, 0),
             b0 |-> T("b", 0, 8, 1, 0), b1 |-> T("b", 1, 9, 1, 0) ]
CrowdOrder == <<"a0", "a0bump", "a0tip", "b0", "b1">>
CrowdLocal == {<<>>, <<"a0", "b0">>}

\* Replacements at the limits; flushes that fail, batches that are lost.
CrowdBudgets ==
    { Budget(1, 3, 1, {}),
      Budget(1, 2, 0, {"fail", "flush"}),
      Budget(1, 2, 1, {"lose"}) }

\* One transaction of each sender, mined in two blocks that are unwound.
PairTx == [ a0 |-> T("a", 0, 10, 2, 0), b0 |-> T("b", 0, 8, 1, 0) ]
PairOrder == <<"a0", "b0">>
PairBudgets == { Budget(3, 0, 0, {}) }
=============================================================================
