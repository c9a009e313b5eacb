------------------------------ MODULE RemoteKv ------------------------------
(***************************************************************************)
(* Reading a database over gRPC: the client's transactions and cursors     *)
(* (kv/remotedb) and the server (kv/remotedbserver), which keeps a         *)
(* transaction per stream, reopens it every MaxTxTTL and puts the cursors  *)
(* back where they were, and answers Range on the same transaction from    *)
(* other goroutines.                                                       *)
(*                                                                         *)
(* A request on a stream is answered before the next one is sent, so one   *)
(* action is a request with its answer.  The database under the server is  *)
(* external: a set of keys, and transactions that see what was committed   *)
(* when they began.  The streams have one plain cursor each.               *)
(***************************************************************************)
EXTENDS Integers, FiniteSets, Sequences

CONSTANTS
  Clients,       \* calls of View, each in its goroutine
  Limit,         \* weight of the client's roTxsLimiter
  Keys,          \* 1 .. n
  MaxCommits,    \* bound: commits to the database
  MaxRenews      \* bound: ticks of the server's timer

VARIABLES
  stored,    \* keys of the database
  commits, renews,
  slots,     \* acquired of roTxsLimiter
  call,      \* client -> "idle", "acquired", "open", "over"
  stream,    \* client -> "none", "serving", "broken" (the server is not done with it)
  objects,   \* client -> the threadSafeTx objects made for its transaction: [snap, live]
  entry,     \* client -> which of them s.txs holds, 0 for none
  cursor,    \* client -> key the server's cursor stands on: 0 none, End past the last
  unary,     \* client -> the object its Range call has looked up, 0 for none
  got,       \* client -> keys the walk with the cursor was given
  steady,    \* client -> keys stored since its transaction began
  slipped,   \* client -> a tick found its cursor on no key, or its key deleted
  dead,      \* a rolled back transaction was used
  mayDie     \* a Range call held an object while it was rolled back, or a renewal failed

clients == <<call, stream, objects, entry, cursor, unary, got, steady, slipped>>
vars == <<stored, commits, renews, slots, call, stream, objects, entry, cursor, unary, got,
          steady, slipped, dead, mayDie>>

End == 1 + Cardinality(Keys)
LeastOf(S) == IF S = {} THEN End ELSE CHOOSE k \in S : \A j \in S : k <= j
GreatestOf(S) == IF S = {} THEN End ELSE CHOOSE k \in S : \A j \in S : k >= j

\* Keys are compared as numbers.
ConstantsFit == Cardinality(Keys) \in Nat /\ Keys = 1 .. Cardinality(Keys) /\ IsFiniteSet(Clients)

Init ==
  /\ ConstantsFit
  /\ stored = Keys /\ commits = 0 /\ renews = 0 /\ slots = 0
  /\ call = [c \in Clients |-> "idle"] /\ stream = [c \in Clients |-> "none"]
  /\ objects = [c \in Clients |-> <<>>] /\ entry = [c \in Clients |-> 0]
  /\ cursor = [c \in Clients |-> 0] /\ unary = [c \in Clients |-> 0]
  /\ got = [c \in Clients |-> <<>>] /\ steady = [c \in Clients |-> {}]
  /\ slipped = [c \in Clients |-> FALSE]
  /\ dead = FALSE /\ mayDie = FALSE

Commits(k) ==
  /\ commits < MaxCommits /\ commits' = commits + 1
  /\ stored' = IF k \in stored THEN stored \ {k} ELSE stored \union {k}
  /\ steady' = [c \in Clients |-> steady[c] \intersect stored']
  /\ UNCHANGED <<renews, slots, call, stream, objects, entry, cursor, unary, got, slipped, dead,
                 mayDie>>

-----------------------------------------------------------------------------
(* The client's transaction.                                               *)

\* RemoteKV.BeginRo takes a slot of the limiter; the context may end first.
BeginRo(c) ==
  /\ call[c] = "idle"
  /\ \/ slots < Limit /\ slots' = slots + 1 /\ call' = [call EXCEPT ![c] = "acquired"]
     \/ call' = [call EXCEPT ![c] = "over"] /\ UNCHANGED slots
  /\ UNCHANGED <<stored, commits, renews, stream, objects, entry, cursor, unary, got, steady,
                 slipped, dead, mayDie>>

\* begin, on the server.
begin(c) ==
  /\ objects' = [objects EXCEPT ![c] = <<[snap |-> stored, live |-> TRUE]>>]
  /\ entry' = [entry EXCEPT ![c] = 1]
  /\ stream' = [stream EXCEPT ![c] = "serving"]
  /\ steady' = [steady EXCEPT ![c] = stored]

\* The client opens the stream and gets the server's first message, with the ids of the
\* transaction; or it gives the slot back, with a stream the server may have begun.
OpenStream(c) ==
  /\ call[c] = "acquired"
  /\ \/ begin(c) /\ call' = [call EXCEPT ![c] = "open"] /\ UNCHANGED slots
     \/ /\ call' = [call EXCEPT ![c] = "over"] /\ slots' = slots - 1
        /\ UNCHANGED <<objects, entry, stream, steady>>
  /\ UNCHANGED <<stored, commits, renews, cursor, unary, got, slipped, dead, mayDie>>

\* rollback(id), deferred by the server's Tx.
rollback(c) ==
  /\ objects' = IF entry[c] = 0 THEN objects ELSE [objects EXCEPT ![c][entry[c]].live = FALSE]
  /\ entry' = [entry EXCEPT ![c] = 0]
  /\ stream' = [stream EXCEPT ![c] = "none"]
  /\ mayDie' = (mayDie \/ unary[c] # 0)

\* remoteTx.Rollback: closes the stream, and the server has rolled back when that
\* returns unless the connection was lost; gives the slot back.
Rollback(c) ==
  /\ call[c] = "open" /\ call' = [call EXCEPT ![c] = "over"]
  /\ slots' = slots - 1
  /\ \/ rollback(c)
     \/ /\ stream[c] = "serving" /\ stream' = [stream EXCEPT ![c] = "broken"]
        /\ UNCHANGED <<objects, entry, mayDie>>
  /\ cursor' = [cursor EXCEPT ![c] = 0] /\ got' = [got EXCEPT ![c] = <<>>]
  /\ steady' = [steady EXCEPT ![c] = {}] /\ slipped' = [slipped EXCEPT ![c] = FALSE]
  /\ UNCHANGED <<stored, commits, renews, unary, dead>>

\* Recv on the server fails, and Tx returns.
StreamEnds(c) ==
  /\ stream[c] \in {"serving", "broken"}
  /\ rollback(c)
  /\ UNCHANGED <<stored, commits, renews, slots, call, cursor, unary, got, steady, slipped, dead>>

-----------------------------------------------------------------------------
(* Requests on the stream.                                                 *)

\* Where a cursor on a transaction that sees keys S goes, from position p.
first(S) == LeastOf(S)
last(S) == GreatestOf(S)
next(S, p) == IF p = End THEN End ELSE LeastOf({k \in S : k > p})
getCurrent(p) == p
Moved(op, S, p) ==
  CASE op = "FIRST" -> first(S)
    [] op = "LAST" -> last(S)
    [] op = "NEXT" -> next(S, p)
    [] OTHER -> getCurrent(p)

\* What the walk has been given, after key k came in answer to op; End is the last
\* thing a walk gets, and LAST is the end of one.
Walked(w, op, k) ==
  CASE op = "CURRENT" -> w
    [] op = "NEXT" -> Append(w, k)
    [] op = "FIRST" -> <<k>>
    [] OTHER -> <<End>>
Over(w) == w # <<>> /\ w[Len(w)] = End

Seen(c) == objects[c][entry[c]].snap
Alive(c) == objects[c][entry[c]].live

\* A request without a tick of the timer: handleOp.
Serve(c, op) ==
  /\ call[c] = "open" /\ stream[c] = "serving"
  /\ op = "CURRENT" => cursor[c] \notin {0, End}
  /\ op = "NEXT" => ~Over(got[c])
  /\ IF Alive(c)
     THEN LET k == Moved(op, Seen(c), cursor[c]) IN
          /\ cursor' = [cursor EXCEPT ![c] = k]
          /\ got' = [got EXCEPT ![c] = Walked(@, op, k)]
          /\ slipped' = [slipped EXCEPT ![c] = @ /\ op # "FIRST"]
          /\ UNCHANGED dead
     ELSE dead' = TRUE /\ UNCHANGED <<cursor, got, slipped>>
  /\ UNCHANGED <<stored, commits, renews, slots, call, stream, objects, entry, unary, steady,
                 mayDie>>

\* The position after a renewal: Seek of the key the cursor stood on, which for a
\* cursor that stood nowhere is the first key.
SeekTo(S, k) == LeastOf({j \in S : j >= k})
RestoredNext(S, p) == IF p \in {0, End} THEN LeastOf(S) ELSE Moved("NEXT", S, SeekTo(S, p))
Restored(S, p) == IF p \in {0, End} THEN LeastOf(S) ELSE SeekTo(S, p)

\* The tick that a request finds: renew, with the positions read before and restored
\* after; the request itself is served next.  A new transaction that
\* cannot begin is not reported: the old one stays in s.txs, rolled back.  A cursor that
\* stands nowhere may have no Current, which ends the stream.
Renew(c) ==
  /\ call[c] = "open" /\ stream[c] = "serving" /\ renews < MaxRenews /\ Alive(c)
  /\ renews' = renews + 1
  /\ \/ /\ objects' = [objects EXCEPT ![c] =
             Append([@ EXCEPT ![entry[c]].live = FALSE], [snap |-> stored, live |-> TRUE])]
        /\ entry' = [entry EXCEPT ![c] = @ + 1]
        /\ cursor' = [cursor EXCEPT ![c] = Restored(stored, @)]
        /\ slipped' = [slipped EXCEPT ![c] = @ \/ cursor[c] \notin stored]
        /\ mayDie' = (mayDie \/ unary[c] # 0)
        /\ UNCHANGED stream
     \/ /\ objects' = [objects EXCEPT ![c][entry[c]].live = FALSE]
        /\ mayDie' = TRUE
        /\ UNCHANGED <<entry, cursor, slipped, stream>>
     \/ /\ cursor[c] \in {0, End} /\ rollback(c) /\ UNCHANGED <<cursor, slipped>>
  /\ UNCHANGED <<stored, commits, slots, call, unary, got, steady, dead>>

-----------------------------------------------------------------------------
(* A Range call on the transaction, from another goroutine: KvServer.with. *)

\* The entry of s.txs is read under the lock of the map.
RangeLooksUp(c) ==
  /\ call[c] = "open" /\ unary[c] = 0 /\ entry[c] # 0
  /\ unary' = [unary EXCEPT ![c] = entry[c]]
  /\ UNCHANGED <<stored, commits, renews, slots, call, stream, objects, entry, cursor, got, steady,
                 slipped, dead, mayDie>>

\* Then the transaction is locked and used.
RangeReads(c) ==
  /\ unary[c] # 0 /\ unary' = [unary EXCEPT ![c] = 0]
  /\ dead' = (dead \/ ~objects[c][unary[c]].live)
  /\ UNCHANGED <<stored, commits, renews, slots, call, stream, objects, entry, cursor, got, steady,
                 slipped, mayDie>>

Next ==
  \/ \E k \in Keys : Commits(k)
  \/ \E c \in Clients :
       \/ BeginRo(c)
       \/ OpenStream(c)
       \/ \E op \in {"FIRST", "LAST", "NEXT", "CURRENT"} : Serve(c, op)
       \/ Renew(c)
       \/ RangeLooksUp(c)
       \/ RangeReads(c)
       \/ Rollback(c)
       \/ StreamEnds(c)

Spec == Init /\ [][Next]_vars

-----------------------------------------------------------------------------
\* A walk from the first key goes up through the table however often the server
\* reopens the transaction under it, and passes over no key that was stored all the
\* time, unless a tick found the cursor on no key or on a key that has been deleted.
\* (The restored cursor then stands on the next key, and NEXT skips it; and a cursor
\* that stood past the last key starts again at the first.)
WalkGoesOn ==
  \A c \in Clients : LET w == got[c] IN
    ~slipped[c] /\ w # <<>> =>
      /\ \A i \in 1 .. Len(w) - 1 : w[i] < w[i + 1]
      /\ w = <<End>> \/ \A k \in steady[c] : k <= w[Len(w)] => \E i \in DOMAIN w : w[i] = k

\* A rolled back transaction is used by nobody, unless a Range call had looked it up
\* before it was replaced or rolled back, or a renewal failed without saying so.
NoneUsedDead == dead => mayDie

\* The slots are those of the calls that have one, and the server keeps a transaction
\* as long as it has the stream, and no longer.
NothingKept ==
  /\ slots = Cardinality({c \in Clients : call[c] \in {"acquired", "open"}})
  /\ \A c \in Clients : /\ (entry[c] # 0) = (stream[c] # "none")
                        /\ entry[c] = 0 => \A i \in DOMAIN objects[c] : ~objects[c][i].live
                        /\ Cardinality({i \in DOMAIN objects[c] : objects[c][i].live}) <= 1

\* Remote reads.
RemoteReads == WalkGoesOn /\ NoneUsedDead /\ NothingKept
=============================================================================
