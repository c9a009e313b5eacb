--------------------------- MODULE Subscriptions ---------------------------
(***************************************************************************)
(* State changes on their way from the node to its subscribers: the        *)
(* publisher and the channels of StateChangePubSub (kv/remotedbserver),    *)
(* which drop old messages and not new ones when a subscriber is slow      *)
(* (common.PrioritizedSend), the server's loop KvServer.StateChanges, and  *)
(* the stream to a client in the same process (package direct), which is a *)
(* channel too.  One goroutine publishes; messages are numbered.           *)
(***************************************************************************)
EXTENDS Integers, FiniteSets, Sequences

CONSTANTS
  Clients,
  Cap,           \* capacity of a subscription's channel
  StreamCap,     \* capacity of a direct stream's channel
  MaxMessages    \* bound: messages published

VARIABLES
  published,     \* messages published so far
  todo,          \* Pub: subscriptions not served yet; it holds the read lock while there are some
  drained,       \* the subscription whose channel Pub has made room in, in a set
  subs,          \* client -> "none", "subscribed", "leaving" (waits for the lock), "removed"
  since,         \* client -> messages published before it subscribed
  ch,            \* client -> the channel of its subscription
  holding,       \* client -> the message its server loop sends, <<>> for none
  stream,        \* client -> the channel of its direct stream
  closed,        \* client -> that channel is closed
  cancelled,     \* client -> its context is done
  received,      \* client -> what Recv returned
  dropped        \* client -> messages dropped from ch

vars == <<published, todo, drained, subs, since, ch, holding, stream, closed, cancelled, received,
          dropped>>

\* Half of a channel is at least one message.
ConstantsFit == Cap \in Nat /\ Cap >= 2

Init ==
  /\ ConstantsFit
  /\ published = 0 /\ todo = {} /\ drained = {}
  /\ subs = [c \in Clients |-> "none"] /\ since = [c \in Clients |-> 0]
  /\ ch = [c \in Clients |-> <<>>] /\ holding = [c \in Clients |-> <<>>]
  /\ stream = [c \in Clients |-> <<>>] /\ closed = [c \in Clients |-> FALSE]
  /\ cancelled = [c \in Clients |-> FALSE] /\ received = [c \in Clients |-> <<>>]
  /\ dropped = [c \in Clients |-> 0]

\* The client's StateChanges starts the server's, which subscribes under the lock.
Sub(c) ==
  /\ subs[c] = "none" /\ todo = {}
  /\ subs' = [subs EXCEPT ![c] = "subscribed"]
  /\ since' = [since EXCEPT ![c] = published]
  /\ UNCHANGED <<published, todo, drained, ch, holding, stream, closed, cancelled, received, dropped>>

\* Pub: a message for every channel there is.
Registered == {c \in Clients : subs[c] \in {"subscribed", "leaving"}}
Pub ==
  /\ todo = {} /\ published < MaxMessages /\ published' = published + 1
  /\ todo' = Registered
  /\ UNCHANGED <<drained, subs, since, ch, holding, stream, closed, cancelled, received, dropped>>

\* PrioritizedSend to one of them: a full channel first loses half of what it holds.
DrainDropsNew(c) ==
  /\ c \in todo /\ drained = {} /\ Len(ch[c]) = Cap
  /\ todo' = todo \ {c}
  /\ UNCHANGED <<published, drained, ch, dropped, subs, since, holding, stream, closed, cancelled,
                 received>>

Drain(c) ==
  /\ c \in todo /\ drained = {} /\ Len(ch[c]) = Cap
  /\ ch' = [ch EXCEPT ![c] = SubSeq(@, 1 + Cap \div 2, Cap)]
  /\ dropped' = [dropped EXCEPT ![c] = @ + Cap \div 2]
  /\ drained' = {c}
  /\ UNCHANGED <<published, todo, subs, since, holding, stream, closed, cancelled, received>>

Put(c) ==
  /\ c \in todo /\ drained \subseteq {c} /\ Len(ch[c]) < Cap
  /\ ch' = [ch EXCEPT ![c] = Append(@, published)]
  /\ todo' = todo \ {c} /\ drained' = {}
  /\ UNCHANGED <<published, subs, since, holding, stream, closed, cancelled, received, dropped>>

-----------------------------------------------------------------------------
\* The loop of the server's StateChanges: a message of the channel, or the end of the
\* context, whichever select takes.
Take(c) ==
  /\ subs[c] = "subscribed" /\ holding[c] = <<>> /\ ch[c] # <<>>
  /\ holding' = [holding EXCEPT ![c] = <<Head(ch[c])>>]
  /\ ch' = [ch EXCEPT ![c] = Tail(@)]
  /\ UNCHANGED <<published, todo, drained, subs, since, stream, closed, cancelled, received, dropped>>

\* Send of the direct stream: it waits for room, whatever happens to the context.
StreamSend(c) ==
  /\ holding[c] # <<>> /\ Len(stream[c]) < StreamCap
  /\ stream' = [stream EXCEPT ![c] = @ \o holding[c]]
  /\ holding' = [holding EXCEPT ![c] = <<>>]
  /\ UNCHANGED <<published, todo, drained, subs, since, ch, closed, cancelled, received, dropped>>

Leave(c) ==
  /\ subs[c] = "subscribed" /\ holding[c] = <<>> /\ cancelled[c]
  /\ subs' = [subs EXCEPT ![c] = "leaving"]
  /\ UNCHANGED <<published, todo, drained, since, ch, holding, stream, closed, cancelled, received,
                 dropped>>

\* The deferred remove takes the lock and closes the subscription's channel; the server's
\* StateChanges returns, and the direct stream is closed.
Remove(c) ==
  /\ subs[c] = "leaving" /\ todo = {}
  /\ subs' = [subs EXCEPT ![c] = "removed"]
  /\ ch' = [ch EXCEPT ![c] = <<>>]
  /\ closed' = [closed EXCEPT ![c] = TRUE]
  /\ UNCHANGED <<published, todo, drained, since, holding, stream, cancelled, received, dropped>>

\* The client.  Recv gives the messages of the stream; after the last one of a closed
\* stream it gives io.EOF, which is no message.  A client that cancelled may still read.
Recv(c) ==
  /\ stream[c] # <<>>
  /\ received' = [received EXCEPT ![c] = Append(@, Head(stream[c]))]
  /\ stream' = [stream EXCEPT ![c] = Tail(@)]
  /\ UNCHANGED <<published, todo, drained, subs, since, ch, holding, closed, cancelled, dropped>>

Cancel(c) ==
  /\ subs[c] = "subscribed" /\ ~cancelled[c]
  /\ cancelled' = [cancelled EXCEPT ![c] = TRUE]
  /\ UNCHANGED <<published, todo, drained, subs, since, ch, holding, stream, closed, received, dropped>>

Next ==
  \/ Pub
  \/ \E c \in Clients :
       \/ Sub(c) \/ Drain(c) \/ Put(c)
       \/ Take(c) \/ StreamSend(c) \/ Leave(c) \/ Remove(c)
       \/ Recv(c) \/ Cancel(c)

Spec == Init /\ [][Next]_vars

-----------------------------------------------------------------------------
\* What a subscriber has got or will get.
OnItsWay(c) == received[c] \o stream[c] \o holding[c] \o ch[c]

\* A subscriber gets messages in the order in which they were published, none twice and
\* none from before it subscribed; what it does not get was dropped from its full channel;
\* and however slow it is, the newest message is not the one it loses.
NewestKept ==
  \A c \in Clients : LET w == OnItsWay(c) IN
    /\ \A i \in DOMAIN w : w[i] > IF i = 1 THEN since[c] ELSE w[i - 1]
    /\ (subs[c] = "subscribed" /\ c \notin todo) =>
         /\ Len(w) + dropped[c] = published - since[c]
         /\ published > since[c] => w[Len(w)] = published

\* The publisher, who keeps everybody else from the lock, never waits for a subscriber,
\* not even for one who waits for the lock: there is room where it has made room.
PublisherFree == \A c \in drained : Len(ch[c]) < Cap

\* State changes reach the subscribers.
ChangesDelivered == NewestKept /\ PublisherFree
=============================================================================
