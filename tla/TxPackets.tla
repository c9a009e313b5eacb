------------------------------ MODULE TxPackets ------------------------------
(***************************************************************************)
(* The packets in which nodes tell each other of transactions, and the     *)
(* records kept of senders: what rlp/ and types/ write into a buffer whose *)
(* length they computed before, and what they read back at the other end.  *)
(*                                                                         *)
(* Bytes are numbers below 256 and positions count from 0.  An integer is  *)
(* the shortest big-endian string of its bytes, zero the empty one, so its *)
(* width is a length.  The hash of a string is the string: IDHash and      *)
(* Sighash are what was given to Keccak1 and Keccak2.                      *)
(***************************************************************************)
EXTENDS Integers, Sequences, FiniteSets

CONSTANTS
  Packets,   \* what is to be sent
  ChainID,   \* TxParseConfig.ChainID, below 2^16
  MaxRlp     \* the longest transaction the pool takes (ValidateSerializedTxn)

VARIABLES
  packet,    \* what the sender has
  wire,      \* what it sends, or <<>>
  got,       \* what the receiver has made of it, or Nothing
  phase

vars == <<packet, wire, got, phase>>

-----------------------------------------------------------------------------
(* Byte strings.                                                           *)

RECURSIVE Be(_)
Be(n) == IF n = 0 THEN <<>> ELSE Append(Be(n \div 256), n % 256)

RECURSIVE Val(_)
Val(s) == IF s = <<>> THEN 0 ELSE 256 * Val(SubSeq(s, 1, Len(s) - 1)) + s[Len(s)]

RECURSIVE Concat(_)
Concat(ss) == IF ss = <<>> THEN <<>> ELSE Head(ss) \o Concat(Tail(ss))

Each(op(_), s) == [i \in 1..Len(s) |-> op(s[i])]

RECURSIVE Sum(_)
Sum(s) == IF s = <<>> THEN 0 ELSE Head(s) + Sum(Tail(s))

Repeat(b, n) == [i \in 1..n |-> b]
Byte(payload, pos) == payload[pos + 1]
Slice(payload, from, to) == SubSeq(payload, from + 1, to)

Hash(h) == Repeat(h, 32)

\* EnsureEnoughSize of an empty buffer: what is written of it, and zeros.
Buffer(size, written) ==
  IF Len(written) <= size THEN written \o Repeat(0, size - Len(written))
  ELSE SubSeq(written, 1, size)

-----------------------------------------------------------------------------
(* Encoding: a length that is computed, and the bytes that are written.    *)

ListPrefixLen(n) == IF n >= 56 THEN 1 + Len(Be(n)) ELSE 1

EncodeListPrefix(n) == IF n >= 56 THEN <<247 + Len(Be(n))>> \o Be(n) ELSE <<192 + n>>

IsSmall(i) == Len(i) = 0 \/ (Len(i) = 1 /\ i[1] < 128)

U64Len(i) == IF IsSmall(i) THEN 1 ELSE 1 + Len(i)
U32Len(i) == IF IsSmall(i) THEN 1 ELSE 1 + Len(i)

EncodeU64(i) ==
  IF i = <<>> THEN <<128>> ELSE IF IsSmall(i) THEN i ELSE <<128 + Len(i)>> \o i

EncodeU32(i) ==
  IF i = <<>> THEN <<128>> ELSE IF IsSmall(i) THEN i ELSE <<128 + Len(i)>> \o i

\* A string of 56 bytes is taken for a short one.
StringLen(s) ==
  CASE Len(s) > 56 -> 1 + Len(Be(Len(s))) + Len(s)
    [] Len(s) = 1 /\ s[1] < 128 -> 1
    [] OTHER -> 1 + Len(s)

EncodeString(s) ==
  CASE Len(s) > 56 -> <<183 + Len(Be(Len(s)))>> \o Be(Len(s)) \o s
    [] Len(s) = 1 /\ s[1] < 128 -> s
    [] OTHER -> <<128 + Len(s)>> \o s

EncodeHash(h) == <<128 + 32>> \o Hash(h)

HashesLen(hs) == ListPrefixLen(33 * Len(hs)) + 33 * Len(hs)
EncodeHashes(hs) == EncodeListPrefix(33 * Len(hs)) \o Concat(Each(EncodeHash, hs))

\* Announcements: a sequence of [type, size, hash].
Types(as) == [i \in 1..Len(as) |-> as[i].type]
Sizes(as) == [i \in 1..Len(as) |-> as[i].size]
HashesOf(as) == [i \in 1..Len(as) |-> as[i].hash]

SizesLen(as) == Sum(Each(U32Len, Sizes(as)))
TotalLen(as) ==
  StringLen(Types(as)) + ListPrefixLen(SizesLen(as)) + SizesLen(as) + HashesLen(as)

AnnouncementsLen(as) ==
  IF as = <<>> THEN 4 ELSE ListPrefixLen(TotalLen(as)) + TotalLen(as)

EncodeAnnouncements(as) ==
  IF as = <<>> THEN <<195, 128, 192, 192>>
  ELSE EncodeListPrefix(TotalLen(as)) \o EncodeString(Types(as))
       \o EncodeListPrefix(SizesLen(as)) \o Concat(Each(EncodeU32, Sizes(as)))
       \o EncodeHashes(HashesOf(as))

\* DedupCopy: in the order of the hashes, each once.
RECURSIVE DedupCopy(_)
DedupCopy(as) ==
  IF as = <<>> THEN <<>>
  ELSE LET i == CHOOSE j \in 1..Len(as) : \A k \in 1..Len(as) : as[j].hash <= as[k].hash
           Other(a) == a.hash # as[i].hash
       IN  <<as[i]>> \o DedupCopy(SelectSeq(as, Other))

\* GetPooledTransactions66.
GetPooledLen(p) == HashesLen(p.hashes) + U64Len(p.id)
EncodeGetPooledTransactions66(p) ==
  EncodeListPrefix(GetPooledLen(p)) \o EncodeU64(p.id) \o EncodeHashes(p.hashes)

-----------------------------------------------------------------------------
(* Parsing: a record that says whether it went well and where it ended.    *)

Bad == [ok |-> FALSE]

\* p if it also passes a test; what follows p, if it went well.
OnlyIf(p, Test(_)) == [p EXCEPT !.ok = @ /\ Test(p)]
Then(p, Rest(_)) == IF p.ok THEN Rest(p) ELSE Bad

\* BeInt wants a byte after the integer.
Long(payload, pos, beLen, list) ==
  LET end == pos + 1 + beLen
      ok == end < Len(payload) /\ Byte(payload, pos + 1) # 0
      len == IF ok THEN Val(Slice(payload, pos + 1, end)) ELSE 0
  IN  [ok |-> len >= 56, pos |-> end, len |-> len, list |-> list]

Short(payload, pos, len, list) ==
  [ok |-> TRUE, pos |-> pos, len |-> len, list |-> list]

PrefixAt(payload, pos, first) ==
  CASE first < 128 -> Short(payload, pos, 1, FALSE)
    [] first \in 128..183 ->
         [Short(payload, pos + 1, first - 128, FALSE) EXCEPT
            !.ok = ~(first = 129 /\ pos + 1 < Len(payload) /\ Byte(payload, pos + 1) < 128)]
    [] first \in 184..191 -> Long(payload, pos, first - 183, FALSE)
    [] first \in 192..247 -> Short(payload, pos + 1, first - 192, TRUE)
    [] OTHER -> Long(payload, pos, first - 247, TRUE)

Prefix(payload, pos) ==
  IF pos >= Len(payload) THEN [ok |-> FALSE, pos |-> 0, len |-> 0, list |-> FALSE]
  ELSE OnlyIf(PrefixAt(payload, pos, Byte(payload, pos)), LAMBDA p : p.pos + p.len <= Len(payload))

List(payload, pos) == OnlyIf(Prefix(payload, pos), LAMBDA p : p.list)
String(payload, pos) == OnlyIf(Prefix(payload, pos), LAMBDA p : ~p.list)
StringOfLen(payload, pos, n) == OnlyIf(String(payload, pos), LAMBDA p : p.len = n)

\* What a prefix is about.
Taking(payload, p) ==
  [ok |-> TRUE, pos |-> p.pos + p.len, val |-> Slice(payload, p.pos, p.pos + p.len)]

\* U32, U64 and U256: an integer of at most width bytes, without leading zeros.
Uint(payload, pos, width) ==
  Then(String(payload, pos), LAMBDA p :
    IF p.len <= width /\ (p.len > 0 => Byte(payload, p.pos) # 0) THEN Taking(payload, p) ELSE Bad)

ParseHash(payload, pos) == Then(StringOfLen(payload, pos, 32), LAMBDA p : Taking(payload, p))

\* n elements, one after the other.
RECURSIVE Several(_, _, _, _, _)
Several(Read(_, _), payload, pos, n, vals) ==
  IF n = 0 THEN [ok |-> TRUE, pos |-> pos, val |-> vals]
  ELSE LET e == Read(payload, pos) IN
       IF e.ok THEN Several(Read, payload, e.pos, n - 1, Append(vals, e.val)) ELSE Bad

U32(payload, pos) == Uint(payload, pos, 4)
U64(payload, pos) == Uint(payload, pos, 8)
U256(payload, pos) == Uint(payload, pos, 32)

\* There are as many sizes as types, and as many hashes as fit.
ParseSizes(payload, pos, n) ==
  Then(List(payload, pos), LAMBDA l : Several(U32, payload, l.pos, n, <<>>))

ParseHashes(payload, pos) ==
  Then(List(payload, pos), LAMBDA l : Several(ParseHash, payload, l.pos, l.len \div 33, <<>>))

ParseAnnouncements(payload) ==
  Then(List(payload, 0), LAMBDA all :
  Then(String(payload, all.pos), LAMBDA types :
  Then(ParseSizes(payload, types.pos + types.len, types.len), LAMBDA sizes :
  Then(ParseHashes(payload, sizes.pos), LAMBDA hashes :
    [ok |-> TRUE, pos |-> hashes.pos, types |-> Slice(payload, types.pos, types.pos + types.len),
     sizes |-> sizes.val, hashes |-> hashes.val]))))

ParseHashesCount(payload, pos) == OnlyIf(List(payload, pos), LAMBDA l : l.len % 33 = 0)

\* NewPooledTransactionHashes66, as handleInboundMessage reads it.
ParseNewHashes(payload, pos) ==
  Then(ParseHashesCount(payload, pos), LAMBDA l :
    Several(ParseHash, payload, l.pos, l.len \div 33, <<>>))

ParseGetPooledTransactions66(payload) ==
  Then(List(payload, 0), LAMBDA all :
  Then(U64(payload, all.pos), LAMBDA id :
  Then(ParseNewHashes(payload, id.pos), LAMBDA hashes :
    [ok |-> TRUE, pos |-> hashes.pos, id |-> id.val, hashes |-> hashes.val])))

-----------------------------------------------------------------------------
(* Transactions.                                                           *)

\* The tuples of an access list: the number of addresses and of storage keys.
RECURSIVE StorageKeys(_, _, _, _)
StorageKeys(payload, pos, end, n) ==
  IF pos >= end THEN [ok |-> pos = end, keys |-> n]
  ELSE Then(StringOfLen(payload, pos, 32), LAMBDA k : StorageKeys(payload, k.pos + 32, end, n + 1))

RECURSIVE Tuples(_, _, _, _, _)
Tuples(payload, pos, end, addrs, keys) ==
  IF pos >= end THEN [ok |-> pos = end, pos |-> end, val |-> <<addrs, keys>>]
  ELSE Then(List(payload, pos), LAMBDA tuple :
       Then(StringOfLen(payload, tuple.pos, 20), LAMBDA addr :
       Then(List(payload, addr.pos + 20), LAMBDA storage :
       Then(StorageKeys(payload, storage.pos, storage.pos + storage.len, keys), LAMBDA stored :
         Tuples(payload, tuple.pos + tuple.len, end, addrs + 1, stored.keys)))))

Field(kind, payload, pos) ==
  CASE kind = "u64" -> U64(payload, pos)
    [] kind = "u256" -> U256(payload, pos)
    [] kind = "to" -> Then(OnlyIf(String(payload, pos), LAMBDA s : s.len \in {0, 20}),
                           LAMBDA s : Taking(payload, s))
    [] kind = "data" -> Then(String(payload, pos), LAMBDA s : Taking(payload, s))
    [] kind = "access" -> Then(List(payload, pos), LAMBDA l :
                                Tuples(payload, l.pos, l.pos + l.len, 0, 0))

RECURSIVE Fields(_, _, _, _)
Fields(kinds, payload, pos, vals) ==
  IF kinds = <<>> THEN [ok |-> TRUE, pos |-> pos, val |-> vals]
  ELSE Then(Field(Head(kinds), payload, pos), LAMBDA f :
         Fields(Tail(kinds), payload, f.pos, Append(vals, f.val)))

\* What is signed: nonce, tip, feeCap, gas, to, value and data, with the chain
\* before it and an access list after it unless the transaction is a legacy
\* one; feeCap follows tip from type 2 on.
Fees(type) == IF type < 2 THEN <<"u256">> ELSE <<"u256", "u256">>
Kinds(type) ==
  (IF type = 0 THEN <<>> ELSE <<"u256">>) \o <<"u64">> \o Fees(type)
  \o <<"u64", "to", "u256", "data">> \o (IF type = 0 THEN <<>> ELSE <<"access">>)

\* V of a legacy transaction: 27 or 28, or the chain and 35 or 36.
IsProtected(v) == v \in {27, 28}
ChainOfV(v) == (v - 35) \div 2
VByte(v) == IF IsProtected(v) THEN v - 27 ELSE v - 2 * ChainID - 8 - 27

\* N/2 and N are told by their first bytes, 127 and 255.
TransactionSignatureIsValid(v, r, s) ==
  /\ r # <<>> /\ s # <<>>
  /\ ~(Len(s) = 32 /\ s[1] > 127) /\ ~(Len(r) = 32 /\ r[1] = 255)
  /\ v \in {0, 1}

\* The length of the chain in what is signed for a legacy transaction, with its
\* prefix, and of two zeros; and their bytes.
ChainTailLen(v) ==
  IF IsProtected(v) THEN 0 ELSE 2 + (IF ChainID < 128 THEN 1 ELSE 1 + Len(Be(ChainID)))
ChainTail(v) ==
  IF IsProtected(v) THEN <<>>
  ELSE (IF ChainID < 128 THEN <<ChainID>> ELSE <<128 + Len(Be(ChainID))>> \o Be(ChainID))
       \o <<128, 128>>

NonZero(data) == Cardinality({i \in 1..Len(data) : data[i] # 0})

\* TxSlot: the fields are those of Kinds, counted from the one after the chain.
Slot(type, rlp, f, size) ==
  LET at == IF type = 0 THEN 0 ELSE 1
      g == IF type < 2 THEN at + 2 ELSE at + 3
  IN  [type |-> type, rlp |-> rlp, nonce |-> f[at + 1], tip |-> f[at + 2], feeCap |-> f[g],
       gas |-> f[g + 1], creation |-> f[g + 2] = <<>>, value |-> f[g + 3],
       dataLen |-> Len(f[g + 4]), nonZero |-> NonZero(f[g + 4]),
       access |-> IF type = 0 THEN <<0, 0>> ELSE f[g + 5], size |-> size]

\* From the fields u and the signature sig on: v, r and s.  The list of the
\* fields is at start, the whole of the transaction is rlp.
Judge(payload, pos, type, start, rlp, known, u, sig, v) ==
  LET chain == IF type # 0 THEN u.val[1] \in {<<>>, Be(ChainID)}
               ELSE IsProtected(v) \/ (v >= 35 /\ ChainOfV(v) = ChainID)
      vByte == IF type = 0 THEN VByte(v) ELSE v
      id == IF type = 0 THEN Slice(payload, pos, sig.pos) ELSE rlp
      tail == IF type = 0 THEN ChainTail(v) ELSE <<>>
      sigHashLen == u.pos - start + (IF type = 0 THEN ChainTailLen(v) ELSE 0)
  IN  CASE ~(chain /\ (type # 0 => v <= 1)) -> Bad
        [] id \in known -> [ok |-> TRUE, rejected |-> TRUE, pos |-> sig.pos]
        [] ~TransactionSignatureIsValid(vByte, sig.val[2], sig.val[3]) -> Bad
        [] OTHER ->
             [ok |-> TRUE, rejected |-> FALSE, pos |-> sig.pos, id |-> id, parity |-> vByte,
              slot |-> Slot(type, rlp, u.val, sig.pos - pos),
              signed |-> (IF type = 0 THEN <<>> ELSE <<type>>) \o EncodeListPrefix(sigHashLen)
                         \o Slice(payload, start, u.pos) \o tail]

ParseFields(payload, pos, type, start, rlp, known) ==
  Then(Fields(Kinds(type), payload, start, <<>>), LAMBDA u :
  Then(Fields(<<IF type = 0 THEN "u256" ELSE "u64", "u256", "u256">>, payload, u.pos, <<>>),
       LAMBDA sig : Judge(payload, pos, type, start, rlp, known, u, sig, Val(sig.val[1]))))

\* A legacy transaction is a list; any other is its type and a list, in a string.
ParseTransaction(payload, pos, known) ==
  Then(OnlyIf(Prefix(payload, pos), LAMBDA all : all.len > 1 \/ (all.len = 1 /\ all.list)), LAMBDA all :
  Then(IF all.list THEN all ELSE List(payload, all.pos + 1), LAMBDA data :
  Then([ok |-> TRUE, val |-> Slice(payload, IF all.list THEN pos ELSE all.pos, data.pos + data.len)],
       LAMBDA rlp :
         IF Len(rlp.val) > MaxRlp THEN Bad
         ELSE ParseFields(payload, pos, IF all.list THEN 0 ELSE Byte(payload, all.pos), data.pos,
                          rlp.val, known))))

\* Mutant: a transaction that is known keeps its place among the slots.
RECURSIVE ParseTxsKept(_, _, _, _)
ParseTxsKept(payload, pos, known, slots) ==
  IF pos >= Len(payload) THEN [ok |-> TRUE, pos |-> pos, txs |-> slots]
  ELSE Then(ParseTransaction(payload, pos, known), LAMBDA t :
         ParseTxsKept(payload, t.pos, known, Append(slots, t)))

\* To the end of the packet; a transaction that is known is left out.
RECURSIVE ParseTxs(_, _, _, _)
ParseTxs(payload, pos, known, slots) ==
  IF pos >= Len(payload) THEN [ok |-> TRUE, pos |-> pos, txs |-> slots]
  ELSE Then(ParseTransaction(payload, pos, known), LAMBDA t :
         ParseTxs(payload, t.pos, known, IF t.rejected THEN slots ELSE Append(slots, t)))

ParseTransactions(payload, known) ==
  Then(List(payload, 0), LAMBDA all : ParseTxs(payload, all.pos, known, <<>>))

ParsePooledTransactions66(payload, known) ==
  Then(List(payload, 0), LAMBDA all :
  Then(U64(payload, all.pos), LAMBDA id :
  Then(List(payload, id.pos), LAMBDA list :
  Then(ParseTxs(payload, list.pos, known, <<>>), LAMBDA txs :
    [ok |-> TRUE, pos |-> txs.pos, id |-> id.val, txs |-> txs.txs]))))

\* A transaction as the pool keeps it is a list, or a type and a list, which
\* goes into a packet as a string.
TxLen(rlp) == IF Prefix(rlp, 0).list THEN Len(rlp) ELSE StringLen(rlp)
TxBytes(rlp) == IF Prefix(rlp, 0).list THEN rlp ELSE EncodeString(rlp)

EncodeTransactions(rlps) ==
  LET len == Sum(Each(TxLen, rlps))
  IN  Buffer(ListPrefixLen(len) + len, EncodeListPrefix(len) \o Concat(Each(TxBytes, rlps)))

EncodePooledTransactions66(id, rlps) ==
  LET txsLen == Sum(Each(TxLen, rlps))
      len == U64Len(id) + ListPrefixLen(txsLen) + txsLen
  IN  Buffer(ListPrefixLen(len) + len,
             EncodeListPrefix(len) \o EncodeU64(id) \o EncodeListPrefix(txsLen)
             \o Concat(Each(TxBytes, rlps)))

-----------------------------------------------------------------------------
(* The record of a sender: a bit for each field that is not zero, and each *)
(* of them with its length.                                                *)

EncodeSenderLengthForStorage(nonce, balance) ==
  1 + (IF balance = <<>> THEN 0 ELSE Len(balance) + 1) + (IF nonce = <<>> THEN 0 ELSE Len(nonce) + 1)

Counted(i) == IF i = <<>> THEN <<>> ELSE <<Len(i)>> \o i

EncodeSender(nonce, balance) ==
  <<(IF nonce = <<>> THEN 0 ELSE 1) + (IF balance = <<>> THEN 0 ELSE 2)>>
  \o Counted(nonce) \o Counted(balance)

\* A field at pos if its bit is set.
Counts(enc, bit, pos) ==
  IF (enc[1] \div bit) % 2 = 0 THEN [ok |-> TRUE, pos |-> pos, val |-> <<>>]
  ELSE IF Len(enc) < pos + Byte(enc, pos) + 1 THEN Bad
  ELSE [ok |-> TRUE, pos |-> pos + Byte(enc, pos) + 1,
        val |-> Slice(enc, pos + 1, pos + Byte(enc, pos) + 1)]

DecodeSender(enc) ==
  LET nonce == Counts(enc, 1, 1)
      balance == Counts(enc, 2, nonce.pos)
  IN  IF enc = <<>> THEN [ok |-> TRUE, pos |-> 0, nonce |-> <<>>, balance |-> <<>>]
      ELSE IF nonce.ok /\ balance.ok
      THEN [ok |-> TRUE, pos |-> balance.pos, nonce |-> nonce.val, balance |-> balance.val]
      ELSE Bad

-----------------------------------------------------------------------------
(* The prefixes of values in the nodes of the trie (rlp/commitment.go): of *)
(* l bytes of which the first is b, encoded once, or twice.                *)

Bytes2(n) == <<(n \div 256) % 256, n % 256>>
Bytes3(n) == <<(n \div 65536) % 256>> \o Bytes2(n)
multiByteHeaderPrefixOfLen(l) == 183 + l

generateByteArrayLen(l) ==
  CASE l < 56 -> <<128 + l>>
    [] l \in 56..255 -> <<multiByteHeaderPrefixOfLen(1), l>>
    [] l \in 256..65535 -> <<multiByteHeaderPrefixOfLen(2)>> \o Bytes2(l)
    [] OTHER -> <<multiByteHeaderPrefixOfLen(3)>> \o Bytes3(l)

generateByteArrayLenDouble(l) ==
  CASE l < 55 -> <<128 + l + 1, 128 + l>>
    [] l = 55 -> <<multiByteHeaderPrefixOfLen(1), l + 1, 128 + l>>
    [] l \in 56..253 -> <<multiByteHeaderPrefixOfLen(1), l + 2, multiByteHeaderPrefixOfLen(1), l>>
    [] l \in 254..255 ->
         <<multiByteHeaderPrefixOfLen(2)>> \o Bytes2(l + 2) \o <<multiByteHeaderPrefixOfLen(1), l>>
    [] l \in 256..65532 ->
         <<multiByteHeaderPrefixOfLen(2)>> \o Bytes2(l + 3)
         \o <<multiByteHeaderPrefixOfLen(2)>> \o Bytes2(l)
    [] l \in 65533..65535 ->
         <<multiByteHeaderPrefixOfLen(3)>> \o Bytes3(l + 3)
         \o <<multiByteHeaderPrefixOfLen(2)>> \o Bytes2(l)
    [] OTHER ->
         <<multiByteHeaderPrefixOfLen(3)>> \o Bytes3(l + 4)
         \o <<multiByteHeaderPrefixOfLen(3)>> \o Bytes3(l)

generateRlpPrefixLenDouble(l, b) ==
  CASE l < 2 -> IF b >= 128 THEN 2 ELSE 0
    [] l \in 2..54 -> 2
    [] l = 55 -> 3
    [] l \in 56..253 -> 4
    [] l \in 254..255 -> 5
    [] l \in 256..65532 -> 6
    [] l \in 65533..65535 -> 7
    [] OTHER -> 8

generateRlpPrefixLen(l) ==
  CASE l < 2 -> 0 [] l \in 2..55 -> 1 [] l \in 56..255 -> 2 [] l \in 256..65535 -> 3 [] OTHER -> 4

GenerateStructLen(l) ==
  CASE l < 56 -> <<192 + l>>
    [] l \in 56..255 -> <<247 + 1, l>>
    [] l \in 256..65535 -> <<247 + 2>> \o Bytes2(l)
    [] OTHER -> <<247 + 3>> \o Bytes3(l)

\* encodeBytesAsRlpToWriter: a byte below 128 has no prefix.
Prefixed(l, b, prefix) == IF l > 1 \/ (l = 1 /\ b >= 128) THEN prefix ELSE <<>>

-----------------------------------------------------------------------------
(* What was to be encoded, by the rules quoted in Prefix: a string of 0-55 *)
(* bytes has a prefix of one byte, a longer one has its length after it.   *)

RefPrefix(base, n) ==
  IF n <= 55 THEN <<base + n>> ELSE <<base + 55 + Len(Be(n))>> \o Be(n)
RefString(s) == IF Len(s) = 1 /\ s[1] < 128 THEN s ELSE RefPrefix(128, Len(s)) \o s
RefList(items) == RefPrefix(192, Len(Concat(items))) \o Concat(items)

\* A transaction is [type, chain, nonce, tip, feeCap, gas, to, value, data,
\* access, replayable, parity, r, s]; access has, for each address, how many
\* storage keys are named with it.
RefAccess(keys) == RefList(<<RefString(Repeat(9, 20)), RefList(Repeat(RefString(Hash(7)), keys))>>)

Unsigned(t) ==
  (IF t.type = 0 THEN <<>> ELSE <<RefString(t.chain)>>)
  \o <<RefString(t.nonce), RefString(t.tip)>>
  \o (IF t.type < 2 THEN <<>> ELSE <<RefString(t.feeCap)>>)
  \o <<RefString(t.gas), RefString(t.to), RefString(t.value), RefString(t.data)>>
  \o (IF t.type = 0 THEN <<>> ELSE <<RefList(Each(RefAccess, t.access))>>)

RefV(t) ==
  IF t.type # 0 THEN Be(t.parity)
  ELSE Be(t.parity + (IF t.replayable THEN 27 ELSE 35 + 2 * Val(t.chain)))

Typed(t, list) == IF t.type = 0 THEN list ELSE <<t.type>> \o list

TxRlp(t) == Typed(t, RefList(Unsigned(t) \o <<RefString(RefV(t)), RefString(t.r), RefString(t.s)>>))

\* EIP-155 signs the chain with a legacy transaction.
Signed(t) ==
  Typed(t, RefList(Unsigned(t) \o
    (IF t.type # 0 \/ t.replayable THEN <<>>
     ELSE <<RefString(t.chain), RefString(<<>>), RefString(<<>>)>>)))

InPacket(t) == IF t.type = 0 THEN TxRlp(t) ELSE RefString(TxRlp(t))

Rlps(p) == Each(TxRlp, p.txs)
Known(p) == {TxRlp(p.txs[i]) : i \in p.known}

-----------------------------------------------------------------------------
(* A packet is made, encoded, and parsed where it arrives.                 *)

Nothing == [ok |-> FALSE]

Init ==
  /\ packet \in Packets
  /\ wire = <<>>
  /\ got = Nothing
  /\ phase = IF packet.kind = "announce" THEN "collected" ELSE "made"

\* MainLoop announces each transaction once.
Dedup ==
  /\ phase = "collected"
  /\ packet' = [packet EXCEPT !.items = DedupCopy(@)]
  /\ phase' = "made"
  /\ UNCHANGED <<wire, got>>

Encoded(p) ==
  CASE p.kind = "announce" -> Buffer(AnnouncementsLen(p.items), EncodeAnnouncements(p.items))
    [] p.kind = "hashes" -> Buffer(HashesLen(p.hashes), EncodeHashes(p.hashes))
    [] p.kind = "get" -> Buffer(ListPrefixLen(GetPooledLen(p)) + GetPooledLen(p),
                                EncodeGetPooledTransactions66(p))
    [] p.kind = "txs" -> EncodeTransactions(Rlps(p))
    [] p.kind = "pooled" -> EncodePooledTransactions66(p.id, Rlps(p))
    [] p.kind = "sender" -> Buffer(EncodeSenderLengthForStorage(p.nonce, p.balance),
                                   EncodeSender(p.nonce, p.balance))

Encode ==
  /\ phase = "made" /\ packet.kind # "value"
  /\ wire' = Encoded(packet)
  /\ phase' = "sent"
  /\ UNCHANGED <<packet, got>>

\* ToDoubleRLP, EncodeByteArrayAsRlp and the list of a node around them.
EncodeValue ==
  /\ phase = "made" /\ packet.kind = "value"
  /\ wire' = [once |-> Prefixed(packet.len, packet.first, generateByteArrayLen(packet.len)),
              twice |-> Prefixed(packet.len, packet.first, generateByteArrayLenDouble(packet.len)),
              list |-> GenerateStructLen(packet.len)]
  /\ phase' = "stored"
  /\ UNCHANGED <<packet, got>>

Parsed(p) ==
  CASE p.kind = "announce" -> ParseAnnouncements(wire)
    [] p.kind = "hashes" -> ParseNewHashes(wire, 0)
    [] p.kind = "get" -> ParseGetPooledTransactions66(wire)
    [] p.kind = "txs" -> ParseTransactions(wire, Known(p))
    [] p.kind = "pooled" -> ParsePooledTransactions66(wire, Known(p))
    [] p.kind = "sender" -> DecodeSender(wire)

Parse ==
  /\ phase = "sent"
  /\ got' = Parsed(packet)
  /\ phase' = "read"
  /\ UNCHANGED <<packet, wire>>

Next == Dedup \/ Encode \/ EncodeValue \/ Parse

Spec == Init /\ [][Next]_vars

-----------------------------------------------------------------------------
RefHash(h) == RefString(Hash(h))
RefHashes(hs) == RefList(Each(RefHash, hs))

Reference(p) ==
  CASE p.kind = "announce" ->
         RefList(<<RefString(Types(p.items)), RefList(Each(RefString, Sizes(p.items))),
                   RefHashes(HashesOf(p.items))>>)
    [] p.kind = "hashes" -> RefHashes(p.hashes)
    [] p.kind = "get" -> RefList(<<RefString(p.id), RefHashes(p.hashes)>>)
    [] p.kind = "txs" -> RefList(Each(InPacket, p.txs))
    [] p.kind = "pooled" -> RefList(<<RefString(p.id), RefList(Each(InPacket, p.txs))>>)
    [] p.kind = "sender" -> EncodeSender(p.nonce, p.balance)

\* The transactions that the receiver takes of a packet, or none of them.
Acceptable(t) ==
  /\ t.chain = Be(ChainID) \/ (t.type # 0 /\ t.chain = <<>>) \/ (t.type = 0 /\ t.replayable)
  /\ t.r # <<>> /\ t.s # <<>> /\ ~(Len(t.s) = 32 /\ t.s[1] > 127)
  /\ Len(TxRlp(t)) <= MaxRlp

Taken(p) == SelectSeq([i \in 1..Len(p.txs) |-> i], LAMBDA i : TxRlp(p.txs[i]) \notin Known(p))

ReadsAs(e, t) ==
  /\ e.id = TxRlp(t) /\ e.slot.rlp = TxRlp(t) /\ e.signed = Signed(t) /\ e.parity = t.parity
  /\ e.slot.nonce = t.nonce /\ e.slot.tip = t.tip /\ e.slot.gas = t.gas /\ e.slot.value = t.value
  /\ e.slot.feeCap = (IF t.type = 2 THEN t.feeCap ELSE t.tip)
  /\ e.slot.creation = (t.to = <<>>)
  /\ e.slot.dataLen = Len(t.data) /\ e.slot.nonZero = NonZero(t.data)
  /\ e.slot.access = <<Len(t.access), Sum(t.access)>>

TxsRead(p) ==
  IF \E i \in 1..Len(p.txs) : ~Acceptable(p.txs[i]) THEN ~got.ok
  ELSE /\ got.ok /\ Len(got.txs) = Len(Taken(p))
       /\ \A i \in 1..Len(got.txs) : ReadsAs(got.txs[i], p.txs[Taken(p)[i]])

Received(p) ==
  CASE p.kind = "announce" ->
         /\ got.types = Types(p.items) /\ got.sizes = Sizes(p.items)
         /\ got.hashes = Each(Hash, HashesOf(p.items))
    [] p.kind = "hashes" -> got.val = Each(Hash, p.hashes)
    [] p.kind = "get" -> got.id = p.id /\ got.hashes = Each(Hash, p.hashes)
    [] p.kind = "txs" -> TxsRead(p)
    [] p.kind = "pooled" -> TxsRead(p) /\ (got.ok => got.id = p.id)
    [] p.kind = "sender" -> got.nonce = p.nonce /\ got.balance = p.balance

RefValue(l) == Prefixed(l, packet.first, RefPrefix(128, l))

\* A packet has the bytes that the rules of RLP give it, in a buffer of just
\* that length, and is read to its end as what was sent (rlp, types): every
\* transaction that the receiver does not know, in order, with what was signed
\* and by what it is identified.  A value of the trie has the prefixes of its
\* encoding and of the encoding of that (ToDoubleRLP).
PacketsReadBack ==
  /\ phase \in {"sent", "read"} => wire = Reference(packet)
  /\ phase = "read" => Received(packet) /\ (got.ok => got.pos = Len(wire))
  /\ phase = "stored" =>
       LET once == RefValue(packet.len) IN
       /\ wire.once = once
       /\ wire.twice = (IF once = <<>> THEN <<>> ELSE RefPrefix(128, Len(once) + packet.len) \o once)
       /\ generateRlpPrefixLenDouble(packet.len, packet.first) = Len(wire.twice)
       /\ packet.len > 1 => generateRlpPrefixLen(packet.len) = Len(wire.once)
       /\ wire.list = RefPrefix(192, packet.len)
=============================================================================
