--------------------------- MODULE RecvQueueProofs ---------------------------
(****************************************************************************)
(* The receive side of a package connection is safe for every stream, every *)
(* set of receive buffers and every number of threads that run package and  *)
(* timer callbacks.                                                         *)
(*                                                                          *)
(* What concerns the queued buffers alone is stated of a read position r    *)
(* and a sequence bs of buffers, so that it can be said of the state before *)
(* and after a step alike.  The last part is about RecvQueueList.tla: the   *)
(* list of blocks and the set of them are kept alike.                       *)
(****************************************************************************)
EXTENDS RecvQueueList, FiniteSetTheorems, SequenceTheorems, WellFoundedInduction, TLAPS

-----------------------------------------------------------------------------
(* The inductive invariant                                                  *)

Data == UNION {[0 .. (n - 1) -> Nat] : n \in Nat}

Buffer == {b \in [id : BufferIds, len : Nat, start : Nat, end : Nat, data : Data] : BufferType(b)}

Job == [start : Nat, end : Nat, part : BOOLEAN, force : BOOLEAN, seen : Nat, bufs : Seq(Buffer)]

Label == {"idle", "update", "pop", "queue", "notify", "callback"}

RecvTypes ==
    /\ ackStreamPos \in Nat /\ readStreamPos \in Nat /\ endStreamPos \in Nat /\ readyStreamPos \in Nat
    /\ blocks \subseteq StreamRange /\ latest \in StreamRange
    /\ onNotifying \in BOOLEAN /\ recvTimer \in BOOLEAN
    /\ buffers \in Seq(Buffer) /\ ready \in Seq(Buffer)
    /\ pc \in [Threads -> Label]
    /\ job \in [Threads -> Job]
    /\ delivered \in Seq(Nat)

(* Where the i-th of the buffers bs begins, if they are laid from r on.    *)
Places(bs, i) == UNION {{k} \X (0 .. (bs[k].len - 1)) : k \in 1 .. (i - 1)}
Begin(r, bs, i) == r + Cardinality(Places(bs, i))

Space(r, bs) == Begin(r, bs, Len(bs) + 1)

(* The byte of position p is in its place.                                 *)
Stored(r, bs, p) ==
    \E i \in DOMAIN bs :
        /\ p >= Begin(r, bs, i) /\ p < Begin(r, bs, i) + bs[i].len
        /\ bs[i].data[p - Begin(r, bs, i)] = p

(* A buffer holds bytes of its own positions only, below its end, and      *)
(* nothing at all as long as its end is not set.                           *)
Fits(r, bs, top) ==
    \A i \in DOMAIN bs :
        /\ \/ bs[i].end = 0
           \/ /\ Begin(r, bs, i) < bs[i].end
              /\ bs[i].end <= Begin(r, bs, i) + bs[i].len
              /\ bs[i].end <= top
        /\ \A o \in 0 .. (bs[i].len - 1) :
              bs[i].data[o] # 0 => /\ bs[i].data[o] = Begin(r, bs, i) + o
                                   /\ Begin(r, bs, i) + o < bs[i].end

(* The positions of the queue, in their order.                             *)
Positions ==
    /\ InitStreamPos <= readyStreamPos
    /\ readyStreamPos <= readStreamPos
    /\ readStreamPos <= ackStreamPos
    /\ ackStreamPos <= endStreamPos
    /\ endStreamPos <= Space(readStreamPos, buffers)

(* What was acknowledged, is in a block, or was saved by a thread that has *)
(* yet to enter it.                                                        *)
AckedStored == \A p \in readStreamPos .. (ackStreamPos - 1) : Stored(readStreamPos, buffers, p)

BlocksStored ==
    \A b \in blocks : /\ b.end <= endStreamPos
                      /\ \A p \in BytesOf(b) : Stored(readStreamPos, buffers, p)

SavedStored ==
    \A t \in Threads :
        pc[t] = "update" =>
            /\ job[t].start < job[t].end /\ job[t].end <= endStreamPos
            /\ \A p \in job[t].start .. (job[t].end - 1) :
                  p >= readStreamPos => Stored(readStreamPos, buffers, p)

(* recvBlock.latest points to a block of the list or to none.              *)
LatestIsBlock == latest = NoBlock \/ latest \in blocks

StreamInv ==
    /\ Positions
    /\ Fits(readStreamPos, buffers, endStreamPos)
    /\ AckedStored /\ BlocksStored /\ SavedStored
    /\ LatestIsBlock /\ BlocksAheadOfAck

(* The buffers that were popped and not taken for a callback.              *)
Elements(bs) == {bs[i] : i \in DOMAIN bs}
Pieces == Elements(ready) \cup UNION {Elements(job[t].bufs) : t \in {u \in Threads : pc[u] = "queue"}}

(* A popped buffer holds the bytes it stands for.                          *)
Whole(b) ==
    /\ b.start < b.end
    /\ \A o \in 0 .. (b.end - b.start - 1) : b.data[o] = b.start + o

(* From readyStreamPos one piece leads to the next, up to readStreamPos.   *)
Chain ==
    /\ \A b \in Pieces : /\ Whole(b) /\ readyStreamPos <= b.start /\ b.end <= readStreamPos
                         /\ b.end = readStreamPos \/ \E c \in Pieces : c.start = b.end
    /\ readyStreamPos = readStreamPos \/ \E c \in Pieces : c.start = readyStreamPos

Ordered(bs) == \A i, j \in DOMAIN bs : i < j => bs[i].end <= bs[j].start

(* What a thread popped is a run: no other piece lies inside it.           *)
Runs ==
    /\ Ordered(ready)
    /\ \A t \in Threads :
        pc[t] = "queue" =>
            /\ job[t].bufs # <<>> /\ Ordered(job[t].bufs)
            /\ \A j \in DOMAIN ready :
                  \/ ready[j].end <= job[t].bufs[1].start
                  \/ job[t].bufs[Len(job[t].bufs)].end <= ready[j].start
    /\ \A t, u \in Threads :
        pc[t] = "queue" /\ pc[u] = "queue" =>
            \/ t = u
            \/ job[t].bufs[Len(job[t].bufs)].end <= job[u].bufs[1].start
            \/ job[u].bufs[Len(job[u].bufs)].end <= job[t].bufs[1].start

(* onNotifying is the mark of the one thread that runs callbacks; when it  *)
(* is cleared the head of the queue has to wait for an earlier buffer.     *)
Notifying(t) == pc[t] \in {"notify", "callback"}

OneNotifier ==
    /\ \A t, u \in Threads : Notifying(t) /\ Notifying(u) => t = u
    /\ onNotifying <=> \E t \in Threads : Notifying(t)

HeadWaits == ~onNotifying /\ ready # <<>> => ready[1].start # readyStreamPos

(* What was handed over, and the buffer in the callback.                   *)
Delivery ==
    /\ DeliveredInOrder
    /\ \A t \in Threads :
        pc[t] = "callback" =>
            /\ job[t].bufs # <<>> /\ Whole(job[t].bufs[1])
            /\ job[t].bufs[1].start = InitStreamPos + Len(delivered)
            /\ job[t].bufs[1].end = readyStreamPos
    /\ (\A t \in Threads : pc[t] # "callback") => readyStreamPos = InitStreamPos + Len(delivered)

QueueInv == Chain /\ Runs /\ OneNotifier /\ HeadWaits /\ Delivery

RecvInv == RecvTypes /\ StreamInv /\ QueueInv

(* A block begins where the peer cut the stream, and what a thread saved   *)
(* is the front part of one payload.  So no block begins inside another    *)
(* payload, and to try the first block only is enough.  This is the only   *)
(* thing the queue needs to know about the payloads of its peer.           *)
AsCut ==
    /\ \A b \in blocks : \E s \in Segments : b.start = s.start
    /\ \A t \in Threads :
        pc[t] = "update" => \E s \in Segments : job[t].start = s.start /\ job[t].end <= s.end

RecvCutInv == RecvInv /\ AsCut

-----------------------------------------------------------------------------
(* Smallest numbers                                                         *)

Less == {ss \in Nat \X Nat : ss[1] < ss[2]}

(* Natural numbers do not descend for ever.                                *)
LEMMA LessWellFounded == IsWellFoundedOn(Less, Nat)
<1>1. OpToRel(<, Nat) = Less
  BY Zenon DEF OpToRel, Less
<1> QED
  BY <1>1, NatLessThanWellFounded, Zenon

(* A set of natural numbers that is not empty has a smallest element.      *)
LEMMA Least ==
  ASSUME NEW S \in SUBSET Nat, S # {}
  PROVE  \E x \in S : \A y \in S : x <= y
<1>1. PICK x \in S : \A y \in S : ~(<<y, x>> \in Less)
  BY LessWellFounded, WFMin
<1>2. \A u, v \in Nat : <<u, v>> \in Less <=> u < v
  BY DEF Less
<1> HIDE DEF Less
<1>3. \A y \in S : ~(y < x)
  BY <1>1, <1>2
<1> QED
  BY <1>3

-----------------------------------------------------------------------------
(* How buffers are laid                                                     *)

(* The type of a buffer, spelled out.                                      *)
LEMMA BufferFields ==
  ASSUME NEW b \in Buffer
  PROVE  /\ b \in [id : BufferIds, len : Nat, start : Nat, end : Nat, data : Data]
         /\ b.id \in BufferIds /\ b.len \in Nat \ {0} /\ b.len = BufferLen[b.id]
         /\ b.start \in Nat /\ b.end \in Nat
         /\ b.data \in [0 .. (b.len - 1) -> Nat]
<1>1. b.id \in BufferIds /\ b.len = BufferLen[b.id] /\ b.data \in [0 .. (b.len - 1) -> Nat]
  BY DEF Buffer, BufferType
<1>2. BufferLen[b.id] \in Nat \ {0}
  BY <1>1, RecvQueueAssumption DEF RecvQueueAssumption
<1> QED
  BY <1>1, <1>2 DEF Buffer

(* The places of one buffer.                                               *)
LEMMA OwnPlaces ==
  ASSUME NEW i, NEW n \in Nat \ {0}
  PROVE  IsFiniteSet({i} \X (0 .. (n - 1))) /\ Cardinality({i} \X (0 .. (n - 1))) = n
<1>1. IsFiniteSet({i}) /\ Cardinality({i}) = 1
  BY FS_Singleton
<1>2. 0 \in Int /\ n - 1 \in Int
  OBVIOUS
<1>3. IsFiniteSet(0 .. (n - 1)) /\ Cardinality(0 .. (n - 1)) = IF 0 > n - 1 THEN 0 ELSE (n - 1) - 0 + 1
  BY <1>2, FS_Interval
<1>4. Cardinality(0 .. (n - 1)) = n
  BY <1>3
<1>5. /\ IsFiniteSet({i} \X (0 .. (n - 1)))
      /\ Cardinality({i} \X (0 .. (n - 1))) = Cardinality({i}) * Cardinality(0 .. (n - 1))
  BY <1>1, <1>3, FS_Product
<1> QED
  BY <1>1, <1>4, <1>5

(* The places of the first i buffers are those of the first i - 1 and its  *)
(* own.                                                                    *)
LEMMA PlacesNext ==
  ASSUME NEW bs \in Seq(Buffer), NEW i \in 1 .. Len(bs)
  PROVE  /\ Places(bs, i + 1) = Places(bs, i) \cup ({i} \X (0 .. (bs[i].len - 1)))
         /\ Places(bs, i) \cap ({i} \X (0 .. (bs[i].len - 1))) = {}
<1>1. 1 .. ((i + 1) - 1) = (1 .. (i - 1)) \cup {i}
  OBVIOUS
<1>2. i \notin 1 .. (i - 1)
  OBVIOUS
<1>3. Places(bs, i + 1) = Places(bs, i) \cup ({i} \X (0 .. (bs[i].len - 1)))
  BY <1>1, Zenon DEF Places
<1>4. ASSUME NEW x \in Places(bs, i), x \in {i} \X (0 .. (bs[i].len - 1)) PROVE FALSE
  <2>1. PICK k \in 1 .. (i - 1) : x \in {k} \X (0 .. (bs[k].len - 1))
    BY DEF Places
  <2>2. x[1] = k /\ x[1] = i
    BY <1>4, <2>1
  <2> QED
    BY <1>2, <2>2
<1> QED
  BY <1>3, <1>4

(* There are finitely many.                                                *)
LEMMA PlacesFinite ==
  ASSUME NEW bs \in Seq(Buffer)
  PROVE  \A i \in 1 .. (Len(bs) + 1) : IsFiniteSet(Places(bs, i)) /\ Cardinality(Places(bs, i)) \in Nat
<1> DEFINE Bad == {i \in 1 .. (Len(bs) + 1) : ~IsFiniteSet(Places(bs, i))}
<1>1. Bad = {}
  <2> SUFFICES ASSUME Bad # {} PROVE FALSE
    OBVIOUS
  <2>1. Bad \in SUBSET Nat
    OBVIOUS
  <2>2. PICK i \in Bad : \A j \in Bad : i <= j
    BY <2>1, Least
  <2>3. i \in 1 .. (Len(bs) + 1) /\ ~IsFiniteSet(Places(bs, i)) /\ Len(bs) \in Nat
    OBVIOUS
  <2>4. CASE i = 1
    <3>1. Places(bs, i) = {}
      BY <2>4 DEF Places
    <3> QED
      BY <2>3, <3>1, FS_EmptySet
  <2>5. CASE i > 1
    <3>1. i - 1 \in 1 .. Len(bs) /\ i - 1 \in 1 .. (Len(bs) + 1) /\ (i - 1) + 1 = i
      BY <2>3, <2>5
    <3>2. IsFiniteSet(Places(bs, i - 1))
      BY <2>2, <2>3, <2>5, <3>1
    <3>3. bs[i - 1].len \in Nat \ {0}
      BY <3>1, BufferFields, ElementOfSeq
    <3> DEFINE Y == {i - 1} \X (0 .. (bs[i - 1].len - 1))
    <3>4. IsFiniteSet(Y)
      BY <3>3, OwnPlaces
    <3>5. Places(bs, (i - 1) + 1) = Places(bs, i - 1) \cup Y
      BY <3>1, PlacesNext
    <3> HIDE DEF Y
    <3>6. IsFiniteSet(Places(bs, i - 1) \cup Y)
      BY <3>2, <3>4, FS_Union
    <3> QED
      BY <2>3, <3>1, <3>5, <3>6
  <2> QED
    BY <2>3, <2>4, <2>5
<1> QED
  BY <1>1, FS_CardinalityType

(* Buffers follow each other: the first begins at r, each other where the  *)
(* one before it ends.                                                     *)
LEMMA BeginLaid ==
  ASSUME NEW bs \in Seq(Buffer), NEW r \in Nat
  PROVE  /\ Begin(r, bs, 1) = r
         /\ \A i \in 1 .. (Len(bs) + 1) : Begin(r, bs, i) \in Nat /\ Begin(r, bs, i) >= r
         /\ \A i \in 1 .. Len(bs) : Begin(r, bs, i + 1) = Begin(r, bs, i) + bs[i].len
         /\ \A i, j \in 1 .. (Len(bs) + 1) : i <= j => Begin(r, bs, i) <= Begin(r, bs, j)
<1>1. Begin(r, bs, 1) = r
  <2>1. Places(bs, 1) = {}
    BY DEF Places
  <2>2. Cardinality(Places(bs, 1)) = 0
    BY <2>1, FS_EmptySet
  <2> QED
    BY <2>2 DEF Begin
<1>2. \A i \in 1 .. (Len(bs) + 1) : Begin(r, bs, i) \in Nat /\ Begin(r, bs, i) >= r
  BY PlacesFinite DEF Begin
<1>3. ASSUME NEW i \in 1 .. Len(bs) PROVE Begin(r, bs, i + 1) = Begin(r, bs, i) + bs[i].len
  <2> DEFINE X == Places(bs, i)
             Y == {i} \X (0 .. (bs[i].len - 1))
  <2>1. Places(bs, i + 1) = X \cup Y /\ X \cap Y = {}
    BY PlacesNext
  <2>2. bs[i].len \in Nat \ {0}
    BY BufferFields, ElementOfSeq
  <2>5. IsFiniteSet(Y) /\ Cardinality(Y) = bs[i].len
    BY <2>2, OwnPlaces
  <2>6. IsFiniteSet(X) /\ Cardinality(X) \in Nat
    BY PlacesFinite
  <2> HIDE DEF X, Y
  <2>7. Cardinality(X \cup Y) = Cardinality(X) + Cardinality(Y) - Cardinality(X \cap Y)
    BY <2>5, <2>6, FS_Union
  <2>8. Cardinality(X \cap Y) = 0
    BY <2>1, FS_EmptySet
  <2>9. Cardinality(X \cup Y) = Cardinality(X) + bs[i].len
    BY <2>2, <2>5, <2>6, <2>7, <2>8
  <2>10. Begin(r, bs, i + 1) = r + Cardinality(X \cup Y) /\ Begin(r, bs, i) = r + Cardinality(X)
    BY <2>1 DEF Begin, X
  <2> QED
    BY <2>2, <2>6, <2>9, <2>10
<1>4. ASSUME NEW i \in 1 .. (Len(bs) + 1), NEW j \in 1 .. (Len(bs) + 1), i <= j
      PROVE  Begin(r, bs, i) <= Begin(r, bs, j)
  <2>1. 1 .. (i - 1) \subseteq 1 .. (j - 1)
    BY <1>4
  <2>2. Places(bs, i) \subseteq Places(bs, j)
    BY <2>1, Zenon DEF Places
  <2>3. Cardinality(Places(bs, i)) <= Cardinality(Places(bs, j))
    BY <2>2, PlacesFinite, FS_Subset
  <2> QED
    BY <2>3, PlacesFinite DEF Begin
<1> QED
  BY <1>1, <1>2, <1>3, <1>4

(* The end of the space is a position.                                     *)
LEMMA SpaceIsPosition ==
  ASSUME NEW bs \in Seq(Buffer), NEW r \in Nat
  PROVE  Space(r, bs) \in Nat /\ Space(r, bs) >= r
<1>1. Len(bs) + 1 \in 1 .. (Len(bs) + 1)
  OBVIOUS
<1> QED
  BY <1>1, BeginLaid DEF Space

(* Only the lengths of the buffers before it decide where one begins.      *)
LEMMA BeginSame ==
  ASSUME NEW r, NEW bs, NEW cs, NEW i, \A k \in 1 .. (i - 1) : bs[k].len = cs[k].len
  PROVE  Begin(r, bs, i) = Begin(r, cs, i)
<1>1. Places(bs, i) = Places(cs, i)
  BY Zenon DEF Places
<1> QED
  BY <1>1 DEF Begin

(* Every position from r to the end of the space has a buffer.             *)
LEMMA Locate ==
  ASSUME NEW bs \in Seq(Buffer), NEW r \in Nat, NEW p \in Nat, r <= p, p < Space(r, bs)
  PROVE  \E i \in DOMAIN bs : p >= Begin(r, bs, i) /\ p < Begin(r, bs, i) + bs[i].len
<1> DEFINE S == {i \in 1 .. Len(bs) : p < Begin(r, bs, i + 1)}
<1>1. /\ Begin(r, bs, 1) = r
      /\ \A i \in 1 .. (Len(bs) + 1) : Begin(r, bs, i) \in Nat
      /\ \A i \in 1 .. Len(bs) : Begin(r, bs, i + 1) = Begin(r, bs, i) + bs[i].len
  BY BeginLaid
<1>2. Len(bs) \in Nat /\ DOMAIN bs = 1 .. Len(bs)
  OBVIOUS
<1>3. S # {}
  <2>1. Len(bs) # 0
    BY <1>1 DEF Space
  <2>2. Len(bs) \in S
    BY <1>2, <2>1 DEF Space
  <2> QED
    BY <2>2
<1>4. PICK i \in S : \A j \in S : i <= j
  <2>1. S \in SUBSET Nat
    OBVIOUS
  <2> HIDE DEF S
  <2> QED
    BY <1>3, <2>1, Least
<1>5. Begin(r, bs, i) <= p
  <2>1. CASE i = 1
    BY <1>1, <2>1
  <2>2. CASE i # 1
    <3>0. i \in 1 .. Len(bs) /\ i - 1 \in 1 .. Len(bs) /\ (i - 1) + 1 = i /\ ~(i <= i - 1)
      BY <1>2, <2>2
    <3>1. i - 1 \in 1 .. Len(bs) /\ i - 1 \notin S /\ (i - 1) + 1 = i
      <4> HIDE DEF S
      <4> QED
        BY <1>4, <3>0
    <3>2. ~(p < Begin(r, bs, i))
      BY <3>1
    <3> QED
      BY <1>1, <1>2, <3>2
  <2> QED
    BY <2>1, <2>2
<1> QED
  BY <1>1, <1>2, <1>4, <1>5

(* Buffers do not overlap.                                                 *)
LEMMA OneHome ==
  ASSUME NEW bs \in Seq(Buffer), NEW r \in Nat, NEW p \in Nat, NEW i \in DOMAIN bs, NEW j \in DOMAIN bs,
         p >= Begin(r, bs, i), p < Begin(r, bs, i) + bs[i].len,
         p >= Begin(r, bs, j), p < Begin(r, bs, j) + bs[j].len
  PROVE  i = j
<1>1. /\ \A k \in 1 .. (Len(bs) + 1) : Begin(r, bs, k) \in Nat
      /\ \A k \in 1 .. Len(bs) : Begin(r, bs, k + 1) = Begin(r, bs, k) + bs[k].len
      /\ \A k, l \in 1 .. (Len(bs) + 1) : k <= l => Begin(r, bs, k) <= Begin(r, bs, l)
  BY BeginLaid
<1>2. /\ Len(bs) \in Nat /\ i \in 1 .. Len(bs) /\ j \in 1 .. Len(bs)
      /\ i + 1 \in 1 .. (Len(bs) + 1) /\ j + 1 \in 1 .. (Len(bs) + 1)
      /\ i \in 1 .. (Len(bs) + 1) /\ j \in 1 .. (Len(bs) + 1)
  OBVIOUS
<1>3. ~(i < j)
  BY <1>1, <1>2
<1>4. ~(j < i)
  BY <1>1, <1>2
<1> QED
  BY <1>2, <1>3, <1>4

(* A stored byte is in the buffer that has its position.                   *)
LEMMA StoredAtHome ==
  ASSUME NEW bs \in Seq(Buffer), NEW r \in Nat, NEW p \in Nat, NEW i \in DOMAIN bs,
         Stored(r, bs, p), p >= Begin(r, bs, i), p < Begin(r, bs, i) + bs[i].len
  PROVE  bs[i].data[p - Begin(r, bs, i)] = p
<1>1. PICK j \in DOMAIN bs : /\ p >= Begin(r, bs, j) /\ p < Begin(r, bs, j) + bs[j].len
                             /\ bs[j].data[p - Begin(r, bs, j)] = p
  BY DEF Stored
<1>2. i = j
  BY <1>1, OneHome
<1> QED
  BY <1>1, <1>2

Rest(bs, n) == SubSeq(bs, n + 1, Len(bs))

(* Popping full buffers leaves the others where they are.                  *)
LEMMA BeginShift ==
  ASSUME NEW bs \in Seq(Buffer), NEW r \in Nat, NEW n \in 0 .. Len(bs)
  PROVE  /\ Rest(bs, n) \in Seq(Buffer) /\ Len(Rest(bs, n)) = Len(bs) - n
         /\ \A j \in 1 .. Len(Rest(bs, n)) : Rest(bs, n)[j] = bs[n + j]
         /\ \A j \in 1 .. (Len(Rest(bs, n)) + 1) :
               Begin(Begin(r, bs, n + 1), Rest(bs, n), j) = Begin(r, bs, n + j)
<1> DEFINE cs == Rest(bs, n)
           q == Begin(r, bs, n + 1)
           Bad == {j \in 1 .. (Len(cs) + 1) : Begin(q, cs, j) # Begin(r, bs, n + j)}
<1>1. Len(bs) \in Nat
  OBVIOUS
<1>2. /\ cs \in Seq(Buffer) /\ Len(cs) = Len(bs) - n
      /\ \A j \in 1 .. Len(cs) : cs[j] = bs[n + j]
  BY <1>1 DEF Rest
<1> HIDE DEF cs
<1>3. /\ \A i \in 1 .. (Len(bs) + 1) : Begin(r, bs, i) \in Nat
      /\ \A i \in 1 .. Len(bs) : Begin(r, bs, i + 1) = Begin(r, bs, i) + bs[i].len
  BY BeginLaid
<1>4. q \in Nat
  BY <1>1, <1>3
<1> HIDE DEF q
<1>5. /\ Begin(q, cs, 1) = q
      /\ \A j \in 1 .. Len(cs) : Begin(q, cs, j + 1) = Begin(q, cs, j) + cs[j].len
  BY <1>2, <1>4, BeginLaid
<1>6. Bad = {}
  <2> SUFFICES ASSUME Bad # {} PROVE FALSE
    OBVIOUS
  <2>1. Bad \in SUBSET Nat
    BY <1>2
  <2>2. PICK j \in Bad : \A k \in Bad : j <= k
    BY <2>1, Least
  <2>3. j \in 1 .. (Len(cs) + 1) /\ Begin(q, cs, j) # Begin(r, bs, n + j) /\ Len(cs) \in Nat
    BY <1>2
  <2>4. j # 1
    BY <1>5, <2>3 DEF q
  <2>5. j - 1 \in 1 .. Len(cs) /\ (j - 1) + 1 = j /\ j - 1 \in 1 .. (Len(cs) + 1)
    BY <2>3, <2>4
  <2>6. Begin(q, cs, j - 1) = Begin(r, bs, n + (j - 1))
    <3>1. j - 1 \notin Bad
      BY <2>2, <2>3
    <3> QED
      BY <2>5, <3>1
  <2>7. Begin(q, cs, j) = Begin(q, cs, j - 1) + cs[j - 1].len
    BY <1>5, <2>5
  <2>8. n + (j - 1) \in 1 .. Len(bs) /\ (n + (j - 1)) + 1 = n + j
    BY <1>1, <1>2, <2>5
  <2>9. Begin(r, bs, n + j) = Begin(r, bs, n + (j - 1)) + bs[n + (j - 1)].len
    BY <1>3, <2>8
  <2>10. cs[j - 1] = bs[n + (j - 1)]
    BY <1>2, <2>5
  <2> QED
    BY <2>3, <2>6, <2>7, <2>9, <2>10
<1> QED
  BY <1>2, <1>6 DEF q, cs

-----------------------------------------------------------------------------
(* Saving a payload                                                         *)

Saved(r, bs, s) ==
    [i \in DOMAIN bs |->
        LET hit == {p \in BytesOf(s) : p >= Begin(r, bs, i) /\ p < Begin(r, bs, i) + bs[i].len}
        IN  IF hit = {} THEN bs[i]
            ELSE [bs[i] EXCEPT !.data = [o \in DOMAIN bs[i].data |->
                                          IF Begin(r, bs, i) + o \in hit THEN Begin(r, bs, i) + o
                                          ELSE bs[i].data[o]],
                               !.end = MaxPos(bs[i].end, MinPos(s.end, Begin(r, bs, i) + bs[i].len))]]

(* One buffer of RecvQueueSavePayload: positions of the payload are        *)
(* written, all others keep what they hold.                                *)
LEMMA SaveBuffer ==
  ASSUME NEW bs \in Seq(Buffer), NEW r \in Nat, NEW s \in StreamRange, NEW i \in DOMAIN bs
  PROVE  LET c == Saved(r, bs, s)[i]
             begin == Begin(r, bs, i)
             hit == {p \in BytesOf(s) : p >= begin /\ p < begin + bs[i].len}
         IN  /\ c \in Buffer /\ c.len = bs[i].len /\ c.id = bs[i].id
             /\ \A o \in 0 .. (c.len - 1) :
                   c.data[o] = IF begin + o \in hit THEN begin + o ELSE bs[i].data[o]
             /\ hit = {} => c.end = bs[i].end
             /\ hit # {} => c.end = MaxPos(bs[i].end, MinPos(s.end, begin + bs[i].len))
<1> DEFINE begin == Begin(r, bs, i)
           b == bs[i]
           hit == {p \in BytesOf(s) : p >= begin /\ p < begin + b.len}
           d == [o \in DOMAIN b.data |-> IF begin + o \in hit THEN begin + o ELSE b.data[o]]
           e == MaxPos(b.end, MinPos(s.end, begin + b.len))
           c == Saved(r, bs, s)[i]
<1>1. b \in Buffer
  BY ElementOfSeq
<1>2. /\ b \in [id : BufferIds, len : Nat, start : Nat, end : Nat, data : Data]
      /\ b.id \in BufferIds /\ b.len \in Nat \ {0} /\ b.len = BufferLen[b.id]
      /\ b.start \in Nat /\ b.end \in Nat
      /\ b.data \in [0 .. (b.len - 1) -> Nat]
  BY <1>1, BufferFields
<1>3. begin \in Nat
  BY BeginLaid
<1>4. c = IF hit = {} THEN b ELSE [b EXCEPT !.data = d, !.end = e]
  BY DEF Saved
<1>5. d \in [0 .. (b.len - 1) -> Nat] /\ \A o \in 0 .. (b.len - 1) : d[o] = IF begin + o \in hit THEN begin + o ELSE b.data[o]
  <2> HIDE DEF hit, begin, b
  <2> QED
    BY <1>2, <1>3, SMTT(40)
<1>6. e \in Nat
  <2> HIDE DEF begin, b
  <2> QED
    BY <1>2, <1>3 DEF MaxPos, MinPos, StreamRange
<1>7. d \in Data
  <2> HIDE DEF d, b
  <2> QED
    BY <1>2, <1>5 DEF Data
<1> HIDE DEF b, hit, d, e, c, begin
<1>8. CASE hit = {}
  <2>1. c = b
    BY <1>4, <1>8
  <2>2. \A o : begin + o \notin hit
    BY <1>8
  <2> QED
    BY <1>1, <1>8, <2>1, <2>2 DEF b, hit, c, begin
<1>9. CASE hit # {}
  <2>1. c = [b EXCEPT !.data = d, !.end = e]
    BY <1>4, <1>9
  <2>2. /\ c \in [id : BufferIds, len : Nat, start : Nat, end : Nat, data : Data]
        /\ c.id = b.id /\ c.len = b.len /\ c.start = b.start /\ c.end = e /\ c.data = d
    BY <1>2, <1>6, <1>7, <2>1
  <2>3. c \in Buffer
    BY <1>2, <1>5, <1>6, <2>2 DEF Buffer, BufferType
  <2>4. \A o \in 0 .. (c.len - 1) : c.data[o] = IF begin + o \in hit THEN begin + o ELSE b.data[o]
    BY <1>5, <2>2
  <2> QED
    BY <1>9, <2>2, <2>3, <2>4 DEF b, hit, e, c, begin
<1> QED
  BY <1>8, <1>9

(* RecvQueueSavePayload: what was stored stays, and the part of the payload *)
(* that has buffers is stored.                                             *)
LEMMA SaveKeeps ==
  ASSUME NEW bs \in Seq(Buffer), NEW r \in Nat, NEW s \in StreamRange, NEW cs, cs = Saved(r, bs, s),
         NEW top \in Nat, NEW newTop \in Nat, Fits(r, bs, top), top <= newTop,
         r < MinPos(s.end, Space(r, bs)) => MinPos(s.end, Space(r, bs)) <= newTop
  PROVE  /\ cs \in Seq(Buffer) /\ Len(cs) = Len(bs)
         /\ Space(r, cs) = Space(r, bs)
         /\ Fits(r, cs, newTop)
         /\ \A p \in Nat : Stored(r, bs, p) => Stored(r, cs, p)
         /\ \A p \in s.start .. (MinPos(s.end, Space(r, bs)) - 1) : p >= r => Stored(r, cs, p)
<1> DEFINE hit(i) == {p \in BytesOf(s) : p >= Begin(r, bs, i) /\ p < Begin(r, bs, i) + bs[i].len}
<1>1. /\ Len(bs) \in Nat /\ DOMAIN bs = 1 .. Len(bs)
      /\ s.start \in Nat /\ s.end \in Nat
  BY DEF StreamRange
<1>2. \A i \in DOMAIN bs :
        /\ cs[i] \in Buffer /\ cs[i].len = bs[i].len
        /\ \A o \in 0 .. (cs[i].len - 1) :
              cs[i].data[o] = IF Begin(r, bs, i) + o \in hit(i) THEN Begin(r, bs, i) + o ELSE bs[i].data[o]
        /\ hit(i) = {} => cs[i].end = bs[i].end
        /\ hit(i) # {} => cs[i].end = MaxPos(bs[i].end, MinPos(s.end, Begin(r, bs, i) + bs[i].len))
  BY SaveBuffer
<1> HIDE DEF hit
<1>3. cs \in Seq(Buffer) /\ Len(cs) = Len(bs) /\ DOMAIN cs = DOMAIN bs
  <2>1. cs \in [1 .. Len(bs) -> Buffer]
    BY <1>1, <1>2 DEF Saved
  <2> QED
    BY <1>1, <2>1
<1>4. \A i \in 1 .. (Len(bs) + 1) : Begin(r, cs, i) = Begin(r, bs, i)
  <2> SUFFICES ASSUME NEW i \in 1 .. (Len(bs) + 1) PROVE Begin(r, cs, i) = Begin(r, bs, i)
    OBVIOUS
  <2>1. \A k \in 1 .. (i - 1) : cs[k].len = bs[k].len
    BY <1>1, <1>2
  <2> QED
    BY <2>1, BeginSame
<1>5. Space(r, cs) = Space(r, bs)
  BY <1>1, <1>3, <1>4 DEF Space
<1>6. /\ \A i \in 1 .. (Len(bs) + 1) : Begin(r, bs, i) \in Nat /\ Begin(r, bs, i) >= r
      /\ \A i \in 1 .. Len(bs) : Begin(r, bs, i + 1) = Begin(r, bs, i) + bs[i].len
      /\ \A i, j \in 1 .. (Len(bs) + 1) : i <= j => Begin(r, bs, i) <= Begin(r, bs, j)
  BY BeginLaid
<1>7. \A i \in DOMAIN bs : bs[i].len \in Nat \ {0} /\ bs[i].end \in Nat /\ bs[i].data \in [0 .. (bs[i].len - 1) -> Nat]
  BY BufferFields, ElementOfSeq, SMTT(40)
<1>8. Fits(r, cs, newTop)
  <2> SUFFICES ASSUME NEW i \in DOMAIN bs
               PROVE  /\ \/ cs[i].end = 0
                         \/ /\ Begin(r, bs, i) < cs[i].end
                            /\ cs[i].end <= Begin(r, bs, i) + cs[i].len
                            /\ cs[i].end <= newTop
                      /\ \A o \in 0 .. (cs[i].len - 1) :
                            cs[i].data[o] # 0 => /\ cs[i].data[o] = Begin(r, bs, i) + o
                                                 /\ Begin(r, bs, i) + o < cs[i].end
    BY <1>1, <1>3, <1>4 DEF Fits
  <2> DEFINE begin == Begin(r, bs, i)
             len == bs[i].len
             e == bs[i].end
  <2>1. begin \in Nat /\ len \in Nat \ {0} /\ e \in Nat /\ r <= begin
    BY <1>1, <1>6, <1>7
  <2>2. /\ e = 0 \/ (begin < e /\ e <= begin + len /\ e <= top)
        /\ \A o \in 0 .. (len - 1) : bs[i].data[o] # 0 => bs[i].data[o] = begin + o /\ begin + o < e
    BY DEF Fits
  <2>3. begin + len <= Space(r, bs) /\ Space(r, bs) \in Nat
    BY <1>1, <1>6 DEF Space
  <2>4. /\ cs[i].len = len
        /\ \A o \in 0 .. (len - 1) : cs[i].data[o] = IF begin + o \in hit(i) THEN begin + o ELSE bs[i].data[o]
        /\ hit(i) = {} => cs[i].end = e
        /\ hit(i) # {} => cs[i].end = MaxPos(e, MinPos(s.end, begin + len))
    BY <1>2
  <2>5. \A p \in hit(i) : p \in Nat /\ s.start <= p /\ p < s.end /\ begin <= p /\ p < begin + len
    BY <1>1 DEF hit, BytesOf
  <2> HIDE DEF begin, len, e
  <2>6. CASE hit(i) = {}
    <3>1. cs[i].end = e /\ \A o \in 0 .. (len - 1) : cs[i].data[o] = bs[i].data[o]
      BY <2>4, <2>6
    <3>2. cs[i].end = 0 \/ (begin < cs[i].end /\ cs[i].end <= begin + cs[i].len /\ cs[i].end <= newTop)
      BY <2>1, <2>2, <2>4, <3>1
    <3>3. \A o \in 0 .. (cs[i].len - 1) :
             cs[i].data[o] # 0 => cs[i].data[o] = begin + o /\ begin + o < cs[i].end
      BY <2>2, <2>4, <3>1
    <3> QED
      BY <3>2, <3>3 DEF begin
  <2>7. CASE hit(i) # {}
    <3> DEFINE m == MinPos(s.end, begin + len)
    <3>1. m \in Nat /\ m <= s.end /\ m <= begin + len /\ (m = s.end \/ m = begin + len)
      BY <1>1, <2>1 DEF MinPos
    <3>2. \A p \in hit(i) : p < m
      BY <2>1, <2>5, <3>1, <1>1
    <3>3. begin < m
      BY <2>1, <2>5, <2>7, <3>1, <3>2
    <3>4. m <= newTop
      <4>1. m <= MinPos(s.end, Space(r, bs))
        BY <1>1, <2>1, <2>3, <3>1 DEF MinPos
      <4>2. MinPos(s.end, Space(r, bs)) \in Nat
        BY <1>1, <2>3 DEF MinPos
      <4> QED
        BY <2>1, <3>1, <3>3, <4>1, <4>2
    <3>5. cs[i].end = MaxPos(e, m)
      BY <2>4, <2>7
    <3> HIDE DEF m
    <3>6. /\ begin < cs[i].end /\ cs[i].end <= begin + len /\ cs[i].end <= newTop
          /\ e <= cs[i].end /\ m <= cs[i].end /\ cs[i].end \in Nat
      BY <2>1, <2>2, <3>1, <3>3, <3>4, <3>5 DEF MaxPos
    <3>7. ASSUME NEW o \in 0 .. (len - 1), cs[i].data[o] # 0
          PROVE  cs[i].data[o] = begin + o /\ begin + o < cs[i].end
      <4>1. CASE begin + o \in hit(i)
        BY <2>1, <2>4, <3>1, <3>2, <3>6, <4>1, SMTT(40)
      <4>2. CASE begin + o \notin hit(i)
        <5>1. cs[i].data[o] = bs[i].data[o]
          BY <2>4, <4>2
        <5>2. cs[i].data[o] = begin + o /\ begin + o < e
          BY <2>2, <3>7, <5>1
        <5> QED
          BY <2>1, <3>6, <5>2
      <4> QED
        BY <4>1, <4>2
    <3> QED
      BY <2>4, <3>6, <3>7 DEF begin
  <2> QED
    BY <2>6, <2>7
<1>9. ASSUME NEW p \in Nat, Stored(r, bs, p) PROVE Stored(r, cs, p)
  <2>1. PICK i \in DOMAIN bs : /\ p >= Begin(r, bs, i) /\ p < Begin(r, bs, i) + bs[i].len
                               /\ bs[i].data[p - Begin(r, bs, i)] = p
    BY <1>9 DEF Stored
  <2>2. /\ Begin(r, cs, i) = Begin(r, bs, i) /\ cs[i].len = bs[i].len /\ i \in DOMAIN cs
        /\ Begin(r, bs, i) \in Nat /\ bs[i].len \in Nat
    BY <1>1, <1>2, <1>3, <1>4, <1>6, <1>7
  <2>3. /\ p - Begin(r, bs, i) \in 0 .. (cs[i].len - 1)
        /\ Begin(r, bs, i) + (p - Begin(r, bs, i)) = p
    BY <2>1, <2>2
  <2>4. cs[i].data[p - Begin(r, bs, i)] = p
    BY <1>2, <2>1, <2>3
  <2> QED
    BY <2>1, <2>2, <2>4 DEF Stored
<1>10. ASSUME NEW p \in s.start .. (MinPos(s.end, Space(r, bs)) - 1), p >= r PROVE Stored(r, cs, p)
  <2>1. Space(r, bs) \in Nat
    BY <1>1, <1>6 DEF Space
  <2>2. p \in Nat /\ p < Space(r, bs) /\ p < s.end /\ p >= s.start
    BY <1>1, <2>1 DEF MinPos
  <2>3. PICK i \in DOMAIN bs : p >= Begin(r, bs, i) /\ p < Begin(r, bs, i) + bs[i].len
    BY <1>10, <2>2, Locate
  <2>4. p \in hit(i)
    BY <1>1, <2>2, <2>3 DEF hit, BytesOf
  <2>5. /\ Begin(r, cs, i) = Begin(r, bs, i) /\ cs[i].len = bs[i].len /\ i \in DOMAIN cs
        /\ Begin(r, bs, i) \in Nat /\ bs[i].len \in Nat
    BY <1>1, <1>2, <1>3, <1>4, <1>6, <1>7
  <2>6. /\ p - Begin(r, bs, i) \in 0 .. (cs[i].len - 1)
        /\ Begin(r, bs, i) + (p - Begin(r, bs, i)) = p
    BY <2>2, <2>3, <2>5
  <2>7. cs[i].data[p - Begin(r, bs, i)] = p
    BY <1>2, <2>4, <2>6
  <2> QED
    BY <2>3, <2>5, <2>7 DEF Stored
<1> QED
  BY <1>3, <1>5, <1>8, <1>9, <1>10

-----------------------------------------------------------------------------
(* Popping buffers                                                          *)

From(r, bs, i) == IF i = 1 THEN r ELSE bs[i - 1].end

Can(r, bs, top, i, ack, force) ==
    \/ bs[i].end = From(r, bs, i) + bs[i].len /\ bs[i].end <= ack
    \/ force /\ bs[i].end # 0 /\ top <= ack

(* Everything from r up to acked is stored.                                *)
AllStored(r, bs, acked) == \A p \in r .. (acked - 1) : Stored(r, bs, p)

(* The first n buffers can be popped and no more.                          *)
PopStops(r, bs, top, n, ack, force) ==
    /\ \A i \in 1 .. n : Can(r, bs, top, i, ack, force)
    /\ n < Len(bs) => ~Can(r, bs, top, n + 1, ack, force)

(* The first n buffers follow each other without a gap, below acked.       *)
Complete(r, bs, n, acked) ==
    \A i \in 1 .. n : From(r, bs, i) = Begin(r, bs, i) /\ bs[i].end # 0 /\ bs[i].end <= acked

(* Behind the first n buffers, q is where the next one begins, or nothing  *)
(* is stored there.                                                        *)
Leaves(r, bs, top, n, q) ==
    \/ q = Begin(r, bs, n + 1)
    \/ q = top /\ \A i \in (n + 1) .. Len(bs) : bs[i].end = 0

(* When everything stored is acknowledged, each buffer that begins below   *)
(* the end of it is filled up to there.                                    *)
LEMMA FilledUp ==
  ASSUME NEW bs \in Seq(Buffer), NEW r \in Nat \ {0}, NEW top \in Nat,
         Fits(r, bs, top), \A p \in r .. (top - 1) : Stored(r, bs, p), NEW i \in DOMAIN bs
  PROVE  bs[i].end = IF Begin(r, bs, i) < top THEN MinPos(Begin(r, bs, i) + bs[i].len, top) ELSE 0
<1> DEFINE begin == Begin(r, bs, i)
           len == bs[i].len
           e == bs[i].end
           m == MinPos(begin + len, top)
           p == m - 1
<1>1. begin \in Nat /\ begin >= r /\ len \in Nat \ {0} /\ e \in Nat
  BY BeginLaid, BufferFields, ElementOfSeq
<1>2. e = 0 \/ (begin < e /\ e <= begin + len /\ e <= top)
  BY DEF Fits
<1>3. CASE begin < top
  <2>1. m \in Nat /\ begin < m /\ m <= top /\ m <= begin + len
    BY <1>1, <1>3 DEF MinPos
  <2>2. p \in r .. (top - 1) /\ p \in Nat /\ p # 0 /\ p >= begin /\ p < begin + len
    BY <1>1, <2>1
  <2>3. bs[i].data[p - begin] = p
    BY <2>2, StoredAtHome
  <2>4. p - begin \in 0 .. (len - 1)
    BY <1>1, <2>2
  <2>5. begin + (p - begin) < e
    BY <2>2, <2>3, <2>4 DEF Fits
  <2>6. e >= m
    BY <1>1, <2>1, <2>5
  <2>7. e = m
    BY <1>1, <1>2, <2>1, <2>6 DEF MinPos
  <2> QED
    BY <1>3, <2>7
<1>4. CASE ~(begin < top)
  BY <1>1, <1>2, <1>4
<1> QED
  BY <1>3, <1>4

(* The buffers that are popped begin where the one before them ended, and  *)
(* what is left begins behind the last of them, unless by force everything *)
(* that is stored was popped.                                              *)
LEMMA PopPositions ==
  ASSUME NEW bs \in Seq(Buffer), NEW r \in Nat \ {0}, NEW acked \in Nat, NEW top \in Nat, NEW ack \in Nat,
         NEW force \in BOOLEAN, NEW n \in 0 .. Len(bs), NEW q,
         ack <= acked, r <= acked, acked <= top, top <= Space(r, bs),
         Fits(r, bs, top), AllStored(r, bs, acked), PopStops(r, bs, top, n, ack, force),
         q = IF n = 0 THEN r ELSE bs[n].end
  PROVE  /\ Complete(r, bs, n, acked)
         /\ q \in Nat /\ r <= q /\ q <= acked
         /\ Leaves(r, bs, top, n, q)
<1> USE DEF AllStored, PopStops, Complete, Leaves
<1>1. /\ Begin(r, bs, 1) = r
      /\ \A i \in 1 .. (Len(bs) + 1) : Begin(r, bs, i) \in Nat /\ Begin(r, bs, i) >= r
      /\ \A i \in 1 .. Len(bs) : Begin(r, bs, i + 1) = Begin(r, bs, i) + bs[i].len
      /\ \A i, j \in 1 .. (Len(bs) + 1) : i <= j => Begin(r, bs, i) <= Begin(r, bs, j)
  BY BeginLaid
<1>2. \A i \in 1 .. Len(bs) : bs[i].len \in Nat \ {0} /\ bs[i].end \in Nat
  BY BufferFields, ElementOfSeq
<1>3. Len(bs) \in Nat /\ DOMAIN bs = 1 .. Len(bs) /\ n \in Nat /\ n <= Len(bs)
  OBVIOUS
<1>4. \A i \in 1 .. n : From(r, bs, i) \in Nat /\ bs[i].end # 0
  <2> SUFFICES ASSUME NEW i \in 1 .. n PROVE From(r, bs, i) \in Nat /\ bs[i].end # 0
    OBVIOUS
  <2>1. From(r, bs, i) \in Nat
    BY <1>2, <1>3 DEF From
  <2>2. bs[i].len \in Nat \ {0} /\ bs[i].end \in Nat
    BY <1>2, <1>3
  <2> QED
    BY <2>1, <2>2 DEF Can
<1>5. CASE force /\ top <= ack
  <2>1. top = acked /\ ack = top
    BY <1>5
  <2>2. \A i \in 1 .. Len(bs) :
          bs[i].end = IF Begin(r, bs, i) < top THEN MinPos(Begin(r, bs, i) + bs[i].len, top) ELSE 0
    BY <1>3, <2>1, FilledUp
  <2>3. \A i \in 1 .. n : Begin(r, bs, i) < top
    BY <1>3, <1>4, <2>2
  <2>4. \A i \in 1 .. Len(bs) : bs[i].end <= top
    BY <1>2, <1>3, SMTT(40) DEF Fits
  <2>5. ASSUME NEW i \in 1 .. n PROVE From(r, bs, i) = Begin(r, bs, i)
    <3>1. CASE i = 1
      BY <1>1, <3>1 DEF From
    <3>2. CASE i # 1
      <4>1. i - 1 \in 1 .. Len(bs) /\ i - 1 \in 1 .. n /\ (i - 1) + 1 = i /\ i \in 1 .. (Len(bs) + 1)
        BY <1>3, <3>2
      <4>2. bs[i - 1].end = MinPos(Begin(r, bs, i), top)
        BY <1>1, <2>2, <2>3, <4>1
      <4>3. Begin(r, bs, i) < top /\ Begin(r, bs, i) \in Nat
        BY <1>1, <2>3, <4>1
      <4> QED
        BY <3>2, <4>2, <4>3 DEF From, MinPos
    <3> QED
      BY <3>1, <3>2
  <2>6. n + 1 \in 1 .. (Len(bs) + 1) /\ Begin(r, bs, n + 1) \in Nat
    BY <1>1, <1>3
  <2>7. CASE n = 0
    BY <1>1, <1>4, <2>7
  <2>8. CASE n # 0
    <3>1. n \in 1 .. n /\ n \in 1 .. Len(bs)
      BY <1>3, <2>8
    <3>2. q = MinPos(Begin(r, bs, n + 1), top)
      BY <1>1, <2>2, <2>3, <2>8, <3>1
    <3>3. Begin(r, bs, n + 1) >= top
      <4>1. CASE n = Len(bs)
        BY <4>1, <1>1, <2>6 DEF Space
      <4>2. CASE n < Len(bs)
        <5>1. n + 1 \in 1 .. Len(bs)
          BY <1>3, <4>2
        <5>2. bs[n + 1].end = 0
          BY <1>5, <4>2 DEF Can
        <5>3. ~(Begin(r, bs, n + 1) < top)
          BY <1>1, <1>2, <2>2, <2>6, <5>1, <5>2, SMTT(40) DEF MinPos
        <5> QED
          BY <2>6, <5>3
      <4> QED
        BY <1>3, <4>1, <4>2
    <3>4. q = top
      BY <2>6, <3>2, <3>3 DEF MinPos
    <3>5. ASSUME NEW i \in (n + 1) .. Len(bs) PROVE bs[i].end = 0
      <4>1. i \in 1 .. Len(bs) /\ i \in 1 .. (Len(bs) + 1) /\ n + 1 <= i
        BY <1>3
      <4>2. Begin(r, bs, n + 1) <= Begin(r, bs, i) /\ Begin(r, bs, i) \in Nat
        BY <1>1, <2>6, <4>1
      <4>3. ~(Begin(r, bs, i) < top)
        BY <2>6, <3>3, <4>2
      <4> QED
        BY <2>2, <4>1, <4>3
    <3> QED
      BY <1>3, <1>4, <2>1, <2>4, <2>5, <3>4, <3>5
  <2> QED
    BY <2>7, <2>8
<1>6. CASE ~(force /\ top <= ack)
  <2>1. \A i \in 1 .. n : bs[i].end = From(r, bs, i) + bs[i].len /\ bs[i].end <= ack
    BY <1>6 DEF Can
  <2> DEFINE Bad == {i \in 1 .. n : From(r, bs, i) # Begin(r, bs, i)}
  <2>2. Bad = {}
    <3> SUFFICES ASSUME Bad # {} PROVE FALSE
      OBVIOUS
    <3>1. Bad \in SUBSET Nat
      OBVIOUS
    <3>2. PICK i \in Bad : \A j \in Bad : i <= j
      BY <3>1, Least
    <3>3. i \in 1 .. n /\ From(r, bs, i) # Begin(r, bs, i)
      OBVIOUS
    <3>4. i # 1
      BY <1>1, <3>3 DEF From
    <3>5. i - 1 \in 1 .. n /\ i - 1 \in 1 .. Len(bs) /\ (i - 1) + 1 = i
      BY <1>3, <3>3, <3>4
    <3>6. From(r, bs, i - 1) = Begin(r, bs, i - 1)
      <4>1. i - 1 \notin Bad
        BY <3>2, <3>3
      <4> QED
        BY <3>5, <4>1
    <3>7. bs[i - 1].end = Begin(r, bs, i)
      BY <1>1, <2>1, <3>5, <3>6
    <3> QED
      BY <3>3, <3>4, <3>7 DEF From
  <2>3. \A i \in 1 .. n : From(r, bs, i) = Begin(r, bs, i)
    BY <2>2
  <2>4. ASSUME NEW i \in 1 .. n PROVE bs[i].end = Begin(r, bs, i + 1) /\ bs[i].end <= acked
    <3>1. i \in 1 .. Len(bs)
      BY <1>3
    <3>2. bs[i].end = Begin(r, bs, i) + bs[i].len /\ bs[i].end <= ack /\ bs[i].end \in Nat
      BY <1>2, <2>1, <2>3, <3>1
    <3>3. Begin(r, bs, i + 1) = Begin(r, bs, i) + bs[i].len
      BY <1>1, <3>1
    <3> QED
      BY <3>2, <3>3
  <2>5. q = Begin(r, bs, n + 1)
    BY <1>1, <1>3, <2>4
  <2>6. q \in Nat /\ r <= q /\ q <= acked
    <3>1. CASE n = 0
      BY <3>1
    <3>2. CASE n # 0
      BY <1>1, <1>3, <2>4, <2>5, <3>2
    <3> QED
      BY <3>1, <3>2
  <2> QED
    BY <1>4, <2>3, <2>4, <2>5, <2>6
<1> QED
  BY <1>5, <1>6

(* A buffer below the ack position that begins where it should is whole.   *)
LEMMA PopWhole ==
  ASSUME NEW bs \in Seq(Buffer), NEW r \in Nat \ {0}, NEW acked \in Nat, NEW top \in Nat,
         Fits(r, bs, top), \A p \in r .. (acked - 1) : Stored(r, bs, p),
         NEW i \in DOMAIN bs, bs[i].end # 0, bs[i].end <= acked
  PROVE  /\ Begin(r, bs, i) < bs[i].end
         /\ \A o \in 0 .. (bs[i].end - Begin(r, bs, i) - 1) : bs[i].data[o] = Begin(r, bs, i) + o
<1> DEFINE begin == Begin(r, bs, i)
           len == bs[i].len
           e == bs[i].end
<1>1. begin \in Nat /\ begin >= r /\ len \in Nat \ {0} /\ e \in Nat /\ e <= acked
  <2>1. begin \in Nat /\ begin >= r /\ len \in Nat \ {0} /\ e \in Nat
    BY BeginLaid, BufferFields, ElementOfSeq
  <2> QED
    BY <2>1
<1>2. begin < e /\ e <= begin + len
  BY DEF Fits
<1> HIDE DEF begin, len, e
<1>3. ASSUME NEW o \in 0 .. (e - begin - 1) PROVE bs[i].data[o] = begin + o
  <2>1. o \in Nat /\ begin + o < e
    BY <1>1, <1>2
  <2>2. PICK p \in Nat : p = begin + o
    BY <1>1, <2>1
  <2>3. p \in r .. (acked - 1)
    BY <1>1, <2>1, <2>2
  <2>4. p >= begin /\ p < begin + len /\ p - begin = o
    BY <1>1, <1>2, <2>1, <2>2
  <2>5. Stored(r, bs, p)
    BY <2>3
  <2>6. r \in Nat
    OBVIOUS
  <2>7. bs[i].data[p - begin] = p
    BY <2>4, <2>5, <2>6, StoredAtHome DEF begin, len
  <2> QED
    BY <2>2, <2>4, <2>7
<1> QED
  BY <1>2, <1>3 DEF begin, e

(* The buffers that are left keep what they hold, and nothing that was     *)
(* stored behind the popped ones is lost.                                  *)
LEMMA RestFits ==
  ASSUME NEW bs \in Seq(Buffer), NEW r \in Nat, NEW top \in Nat, NEW n \in Nat, n <= Len(bs),
         NEW q \in Nat, NEW cs \in Seq(Buffer), Len(cs) = Len(bs) - n,
         \A j \in 1 .. Len(cs) : cs[j] = bs[n + j],
         \A j \in 1 .. (Len(cs) + 1) : Begin(Begin(r, bs, n + 1), cs, j) = Begin(r, bs, n + j),
         top <= Space(r, bs), Fits(r, bs, top),
         \/ q = Begin(r, bs, n + 1)
         \/ q = top /\ \A i \in (n + 1) .. Len(bs) : bs[i].end = 0
  PROVE  /\ Fits(q, cs, top) /\ top <= Space(q, cs)
         /\ \A p \in Nat : p >= q /\ p < top /\ Stored(r, bs, p) => Stored(q, cs, p)
<1>1. /\ \A j \in 1 .. Len(cs) : cs[j] = bs[n + j]
      /\ \A j \in 1 .. (Len(cs) + 1) : Begin(Begin(r, bs, n + 1), cs, j) = Begin(r, bs, n + j)
  OBVIOUS
<1>2. /\ Len(bs) \in Nat /\ DOMAIN bs = 1 .. Len(bs)
      /\ DOMAIN cs = 1 .. Len(cs) /\ Len(cs) \in Nat
      /\ \A j \in 1 .. Len(cs) : n + j \in 1 .. Len(bs) /\ n + j \in (n + 1) .. Len(bs)
  OBVIOUS
<1>3. /\ \A i \in 1 .. (Len(bs) + 1) : Begin(r, bs, i) \in Nat
      /\ \A i \in 1 .. Len(bs) : Begin(r, bs, i + 1) = Begin(r, bs, i) + bs[i].len
      /\ \A i, j \in 1 .. (Len(bs) + 1) : i <= j => Begin(r, bs, i) <= Begin(r, bs, j)
  BY BeginLaid
<1>4. CASE q = Begin(r, bs, n + 1)
  <2>1. \A j \in 1 .. (Len(cs) + 1) : Begin(q, cs, j) = Begin(r, bs, n + j)
    BY <1>1, <1>4
  <2>2. Space(q, cs) = Space(r, bs)
    <3>1. n + (Len(cs) + 1) = Len(bs) + 1 /\ Len(cs) + 1 \in 1 .. (Len(cs) + 1)
      BY <1>1, <1>2
    <3> QED
      BY <2>1, <3>1 DEF Space
  <2>3. Fits(q, cs, top)
    <3> SUFFICES ASSUME NEW j \in 1 .. Len(cs)
                 PROVE  /\ \/ cs[j].end = 0
                           \/ /\ Begin(q, cs, j) < cs[j].end
                              /\ cs[j].end <= Begin(q, cs, j) + cs[j].len
                              /\ cs[j].end <= top
                        /\ \A o \in 0 .. (cs[j].len - 1) :
                              cs[j].data[o] # 0 => /\ cs[j].data[o] = Begin(q, cs, j) + o
                                                   /\ Begin(q, cs, j) + o < cs[j].end
      BY <1>2 DEF Fits
    <3>1. cs[j] = bs[n + j] /\ n + j \in DOMAIN bs /\ Begin(q, cs, j) = Begin(r, bs, n + j)
      <4>1. j \in 1 .. (Len(cs) + 1)
        BY <1>2
      <4> QED
        BY <1>1, <1>2, <2>1, <4>1
    <3> QED
      BY <3>1 DEF Fits
  <2>4. ASSUME NEW p \in Nat, p >= q, Stored(r, bs, p) PROVE Stored(q, cs, p)
    <3>1. PICK i \in DOMAIN bs : /\ p >= Begin(r, bs, i) /\ p < Begin(r, bs, i) + bs[i].len
                                 /\ bs[i].data[p - Begin(r, bs, i)] = p
      BY <2>4 DEF Stored
    <3>2. i > n
      <4> SUFFICES ASSUME i <= n PROVE FALSE
        BY <1>2
      <4>1. i + 1 \in 1 .. (Len(bs) + 1) /\ n + 1 \in 1 .. (Len(bs) + 1) /\ i + 1 <= n + 1
        BY <1>2
      <4>2. Begin(r, bs, i + 1) <= Begin(r, bs, n + 1)
        BY <1>3, <4>1
      <4>3. Begin(r, bs, i + 1) = Begin(r, bs, i) + bs[i].len /\ Begin(r, bs, i + 1) \in Nat
        BY <1>2, <1>3, <4>1
      <4> QED
        BY <1>4, <2>4, <3>1, <4>2, <4>3
    <3>3. PICK j \in 1 .. Len(cs) : i = n + j
      <4>1. i - n \in 1 .. Len(cs) /\ i = n + (i - n)
        BY <1>1, <1>2, <3>2
      <4> QED
        BY <4>1
    <3>4. cs[j] = bs[i] /\ Begin(q, cs, j) = Begin(r, bs, i)
      BY <1>1, <1>2, <2>1, <3>3
    <3> QED
      BY <1>2, <3>1, <3>4 DEF Stored
  <2> QED
    BY <1>1, <2>2, <2>3, <2>4
<1>5. CASE q = top /\ \A i \in (n + 1) .. Len(bs) : bs[i].end = 0
  <2>1. Space(q, cs) \in Nat /\ Space(q, cs) >= q
    BY <1>1, <1>2, SpaceIsPosition
  <2>2. Fits(q, cs, top)
    <3> SUFFICES ASSUME NEW j \in 1 .. Len(cs)
                 PROVE  /\ cs[j].end = 0
                        /\ \A o \in 0 .. (cs[j].len - 1) : cs[j].data[o] = 0
      BY <1>2 DEF Fits
    <3>1. cs[j] = bs[n + j] /\ n + j \in DOMAIN bs /\ bs[n + j].end = 0
      BY <1>1, <1>2, <1>5
    <3>2. Begin(r, bs, n + j) \in Nat
      <4>1. n + j \in 1 .. (Len(bs) + 1)
        BY <1>2
      <4> QED
        BY <1>3, <4>1
    <3>3. \A o \in 0 .. (bs[n + j].len - 1) : ~(Begin(r, bs, n + j) + o < 0)
      BY <3>2
    <3>4. \A o \in 0 .. (bs[n + j].len - 1) : bs[n + j].data[o] = 0
      BY <3>1, <3>3 DEF Fits
    <3> QED
      BY <3>1, <3>4
  <2> QED
    BY <1>1, <1>5, <2>1, <2>2
<1> QED
  BY <1>4, <1>5

(* So for what RecvQueuePopCompleteBuffers leaves in the queue.            *)
LEMMA PopLeaves ==
  ASSUME NEW bs \in Seq(Buffer), NEW r \in Nat, NEW top \in Nat, NEW n \in 0 .. Len(bs), NEW q \in Nat,
         top <= Space(r, bs), Fits(r, bs, top),
         Leaves(r, bs, top, n, q)
  PROVE  /\ Rest(bs, n) \in Seq(Buffer)
         /\ Fits(q, Rest(bs, n), top) /\ top <= Space(q, Rest(bs, n))
         /\ \A p \in Nat : p >= q /\ p < top /\ Stored(r, bs, p) => Stored(q, Rest(bs, n), p)
<1> USE DEF Leaves
<1> DEFINE cs == Rest(bs, n)
<1>1. /\ cs \in Seq(Buffer) /\ Len(cs) = Len(bs) - n
      /\ \A j \in 1 .. Len(cs) : cs[j] = bs[n + j]
      /\ \A j \in 1 .. (Len(cs) + 1) : Begin(Begin(r, bs, n + 1), cs, j) = Begin(r, bs, n + j)
  BY BeginShift
<1>2. n \in Nat /\ n <= Len(bs)
  OBVIOUS
<1> HIDE DEF cs
<1>3. /\ Fits(q, cs, top) /\ top <= Space(q, cs)
      /\ \A p \in Nat : p >= q /\ p < top /\ Stored(r, bs, p) => Stored(q, cs, p)
  BY <1>1, <1>2, RestFits
<1> QED
  BY <1>1, <1>3 DEF cs

-----------------------------------------------------------------------------
(* Steps that leave a part of the state alone                               *)

(* The package of a thread that saved a payload.                           *)
Filled(start, end, part, force) ==
    [NoJob EXCEPT !.start = start, !.end = end, !.part = part, !.force = force]

(* A thread's package, before and after its fields are filled.             *)
LEMMA JobTypes ==
  /\ NoJob \in Job
  /\ \A a \in Nat, e \in Nat, b \in BOOLEAN, f \in BOOLEAN :
        Filled(a, e, b, f) \in Job /\ Filled(a, e, b, f).start = a /\ Filled(a, e, b, f).end = e
<1>1. <<>> \in Seq(Buffer)
  OBVIOUS
<1>2. NoJob \in Job
  BY <1>1 DEF NoJob, Job
<1>3. ASSUME NEW a \in Nat, NEW e \in Nat, NEW b \in BOOLEAN, NEW f \in BOOLEAN
      PROVE  Filled(a, e, b, f) \in Job /\ Filled(a, e, b, f).start = a /\ Filled(a, e, b, f).end = e
  BY <1>2 DEF Job, Filled
<1> QED
  BY <1>2, <1>3

(* The stream keeps its invariant when only threads that saved a payload   *)
(* and the positions handed over matter.                                   *)
LEMMA StreamFrame ==
  ASSUME StreamInv, UNCHANGED <<blockVars, streamVars>>,
         InitStreamPos <= readyStreamPos', readyStreamPos' <= readStreamPos,
         \A u \in Threads : pc'[u] = "update" => pc[u] = "update" /\ job'[u] = job[u]
  PROVE  StreamInv'
<1> USE DEF blockVars, streamVars
<1>1. Positions'
  BY DEF StreamInv, Positions, Space, Begin, Places
<1>2. Fits(readStreamPos, buffers, endStreamPos)'
  BY Zenon DEF StreamInv
<1>3. AckedStored'
  BY Zenon DEF StreamInv, AckedStored
<1>4. BlocksStored'
  BY Zenon DEF StreamInv, BlocksStored
<1>5. SavedStored'
  BY Zenon DEF StreamInv, SavedStored
<1>6. LatestIsBlock' /\ BlocksAheadOfAck'
  BY Zenon DEF StreamInv, LatestIsBlock, BlocksAheadOfAck
<1> QED
  BY <1>1, <1>2, <1>3, <1>4, <1>5, <1>6 DEF StreamInv

(* What was popped keeps its invariant when no thread begins or ends to    *)
(* queue or to hand over buffers.                                          *)
LEMMA QueueFrame ==
  ASSUME QueueInv, UNCHANGED <<readyVars, readStreamPos, delivered>>,
         \A u \in Threads :
            \/ pc'[u] = pc[u] /\ job'[u] = job[u]
            \/ /\ pc'[u] \notin {"queue", "notify", "callback"}
               /\ pc[u] \notin {"queue", "notify", "callback"}
  PROVE  QueueInv'
<1> USE DEF readyVars, QueueInv
<1>1. \A u \in Threads : /\ (pc'[u] = "queue") <=> (pc[u] = "queue")
                         /\ (pc'[u] = "callback") <=> (pc[u] = "callback")
                         /\ Notifying(u)' <=> Notifying(u)
                         /\ pc[u] \in {"queue", "callback"} => job'[u] = job[u]
  BY DEF Notifying
<1>2. Pieces' = Pieces
  <2>1. {u \in Threads : pc[u] = "queue"}' = {u \in Threads : pc[u] = "queue"}
    BY <1>1
  <2>2. \A u \in {v \in Threads : pc[v] = "queue"} : Elements(job[u].bufs)' = Elements(job[u].bufs)
    BY <1>1 DEF Elements
  <2>3. Elements(ready)' = Elements(ready)
    BY DEF Elements
  <2> QED
    BY <2>1, <2>2, <2>3, SMTT(20) DEF Pieces
<1>3. Chain'
  BY <1>2, Zenon DEF Chain
<1>4. Runs'
  BY <1>1, Zenon DEF Runs
<1>5. OneNotifier'
  BY <1>1, Zenon DEF OneNotifier
<1>6. HeadWaits'
  BY DEF HeadWaits
<1>7. Delivery'
  BY <1>1, Zenon DEF Delivery, DeliveredInOrder
<1> QED
  BY <1>3, <1>4, <1>5, <1>6, <1>7

-----------------------------------------------------------------------------
(* Steps of one thread or of the application                                *)

(* PackageConnectionRecvTimerCallback, and a FIN without payload: the      *)
(* thread goes on to pop by force.                                         *)
LEMMA ForcedPopInv ==
  ASSUME RecvInv, NEW t \in Threads, pc[t] = "idle", recvTimer' \in BOOLEAN,
         pc' = [pc EXCEPT ![t] = "pop"],
         job' = [job EXCEPT ![t] = [NoJob EXCEPT !.force = TRUE, !.seen = ackStreamPos]],
         UNCHANGED <<blockVars, streamVars, readyVars, delivered>>
  PROVE  RecvInv'
<1>1. RecvTypes'
  <2>1. [NoJob EXCEPT !.force = TRUE, !.seen = ackStreamPos] \in Job
    BY JobTypes DEF Job, RecvInv, RecvTypes
  <2>2. pc' \in [Threads -> Label] /\ job' \in [Threads -> Job]
    BY <2>1 DEF RecvInv, RecvTypes, Label
  <2> QED
    BY <2>2 DEF RecvInv, RecvTypes, blockVars, streamVars, readyVars
<1>2. /\ \A u \in Threads \ {t} : pc'[u] = pc[u] /\ job'[u] = job[u]
      /\ pc'[t] = "pop"
  BY DEF RecvInv, RecvTypes
<1>3. StreamInv'
  BY <1>2, StreamFrame DEF RecvInv, StreamInv, Positions, readyVars
<1>4. QueueInv'
  BY <1>2, QueueFrame DEF RecvInv, readyVars, streamVars
<1> QED
  BY <1>1, <1>3, <1>4 DEF RecvInv

(* The fresh buffer of RecvQueueAddBuffer.                                 *)
Fresh(id) == [id |-> id, len |-> BufferLen[id], start |-> 0, end |-> 0,
              data |-> [o \in 0 .. (BufferLen[id] - 1) |-> 0]]

(* It holds nothing.                                                       *)
LEMMA FreshBuffer ==
  ASSUME NEW id \in BufferIds
  PROVE  /\ Fresh(id) \in Buffer /\ Fresh(id).end = 0
         /\ \A o \in 0 .. (Fresh(id).len - 1) : Fresh(id).data[o] = 0
<1>1. BufferLen[id] \in Nat /\ BufferLen[id] > 0
  BY RecvQueueAssumption DEF RecvQueueAssumption
<1> DEFINE d == [o \in 0 .. (BufferLen[id] - 1) |-> 0]
<1>2. d \in [0 .. (BufferLen[id] - 1) -> Nat] /\ \A o \in 0 .. (BufferLen[id] - 1) : d[o] = 0
  OBVIOUS
<1> HIDE DEF d
<1>3. d \in Data
  BY <1>1, <1>2 DEF Data
<1> DEFINE b == [id |-> id, len |-> BufferLen[id], start |-> 0, end |-> 0, data |-> d]
<1>4. b \in [id : BufferIds, len : Nat, start : Nat, end : Nat, data : Data]
  BY <1>1, <1>3
<1>5. BufferType(b)
  BY <1>1, <1>2 DEF BufferType
<1>6. b \in Buffer /\ b.end = 0 /\ \A o \in 0 .. (b.len - 1) : b.data[o] = 0
  BY <1>2, <1>4, <1>5 DEF Buffer
<1> QED
  BY <1>6 DEF Fresh, d

(* A buffer behind the others moves none of them.                          *)
LEMMA AppendKeeps ==
  ASSUME NEW bs \in Seq(Buffer), NEW r \in Nat, NEW top \in Nat, NEW b \in Buffer, b.end = 0,
         \A o \in 0 .. (b.len - 1) : b.data[o] = 0, Fits(r, bs, top), NEW cs, cs = Append(bs, b)
  PROVE  /\ cs \in Seq(Buffer)
         /\ Space(r, bs) <= Space(r, cs)
         /\ Fits(r, cs, top)
         /\ \A p \in Nat : Stored(r, bs, p) => Stored(r, cs, p)
<1>1. /\ cs \in Seq(Buffer) /\ Len(cs) = Len(bs) + 1 /\ Len(bs) \in Nat
      /\ DOMAIN bs = 1 .. Len(bs) /\ DOMAIN cs = 1 .. (Len(bs) + 1)
      /\ \A i \in 1 .. Len(bs) : cs[i] = bs[i]
      /\ cs[Len(bs) + 1] = b
  OBVIOUS
<1>2. \A i \in 1 .. (Len(bs) + 1) : Begin(r, cs, i) = Begin(r, bs, i)
  <2> SUFFICES ASSUME NEW i \in 1 .. (Len(bs) + 1) PROVE Begin(r, cs, i) = Begin(r, bs, i)
    OBVIOUS
  <2>1. \A k \in 1 .. (i - 1) : cs[k].len = bs[k].len
    BY <1>1
  <2> QED
    BY <2>1, BeginSame
<1>3. Space(r, bs) <= Space(r, cs)
  <2>1. Len(bs) + 1 \in 1 .. (Len(cs) + 1) /\ Len(cs) + 1 \in 1 .. (Len(cs) + 1) /\ Len(bs) + 1 <= Len(cs) + 1
    BY <1>1
  <2>2. Begin(r, cs, Len(bs) + 1) <= Begin(r, cs, Len(cs) + 1)
    BY <1>1, <2>1, BeginLaid
  <2>3. Len(bs) + 1 \in 1 .. (Len(bs) + 1)
    BY <1>1
  <2> QED
    BY <1>2, <2>2, <2>3 DEF Space
<1>4. \A i \in 1 .. Len(bs) : i \in 1 .. (Len(bs) + 1)
  BY <1>1
<1>5. Fits(r, cs, top)
  <2> SUFFICES ASSUME NEW i \in 1 .. (Len(bs) + 1)
               PROVE  /\ \/ cs[i].end = 0
                         \/ /\ Begin(r, cs, i) < cs[i].end
                            /\ cs[i].end <= Begin(r, cs, i) + cs[i].len
                            /\ cs[i].end <= top
                      /\ \A o \in 0 .. (cs[i].len - 1) :
                            cs[i].data[o] # 0 => /\ cs[i].data[o] = Begin(r, cs, i) + o
                                                 /\ Begin(r, cs, i) + o < cs[i].end
    BY <1>1 DEF Fits
  <2>1. CASE i \in 1 .. Len(bs)
    <3>1. cs[i] = bs[i] /\ Begin(r, cs, i) = Begin(r, bs, i) /\ i \in DOMAIN bs
      BY <1>1, <1>2, <2>1
    <3> QED
      BY <3>1 DEF Fits
  <2>2. CASE i = Len(bs) + 1
    BY <1>1, <2>2
  <2> QED
    BY <1>1, <2>1, <2>2
<1>6. ASSUME NEW p \in Nat, Stored(r, bs, p) PROVE Stored(r, cs, p)
  <2>1. PICK i \in DOMAIN bs : /\ p >= Begin(r, bs, i) /\ p < Begin(r, bs, i) + bs[i].len
                               /\ bs[i].data[p - Begin(r, bs, i)] = p
    BY <1>6 DEF Stored
  <2>2. cs[i] = bs[i] /\ Begin(r, cs, i) = Begin(r, bs, i) /\ i \in DOMAIN cs
    BY <1>1, <1>2, <1>4
  <2> QED
    BY <2>1, <2>2 DEF Stored
<1> QED
  BY <1>1, <1>3, <1>5, <1>6

(* What is stored stays stored if the buffers only gain.                   *)
LEMMA StreamGains ==
  ASSUME RecvInv, UNCHANGED <<blockVars, readStreamPos, readyStreamPos>>, endStreamPos' \in Nat,
         endStreamPos <= endStreamPos', endStreamPos' <= Space(readStreamPos, buffers)',
         Fits(readStreamPos, buffers, endStreamPos)',
         \A p \in Nat : Stored(readStreamPos, buffers, p) => Stored(readStreamPos, buffers', p),
         \A u \in Threads :
            pc'[u] = "update" =>
               \/ pc[u] = "update" /\ job'[u] = job[u]
               \/ /\ job'[u].start < job'[u].end /\ job'[u].end <= endStreamPos'
                  /\ \A p \in job'[u].start .. (job'[u].end - 1) :
                        p >= readStreamPos => Stored(readStreamPos, buffers', p)
  PROVE  StreamInv'
<1>0. RecvTypes /\ StreamInv
  BY DEF RecvInv
<1>1. Positions'
  BY <1>0 DEF StreamInv, Positions, RecvTypes, blockVars
<1>2. AckedStored'
  BY <1>0 DEF StreamInv, AckedStored, RecvTypes, blockVars
<1>3. BlocksStored'
  <2> SUFFICES ASSUME NEW b \in blocks
               PROVE  /\ b.end <= endStreamPos'
                      /\ \A p \in BytesOf(b) : Stored(readStreamPos, buffers', p)
    BY DEF BlocksStored, blockVars
  <2>1. b.start \in Nat /\ b.end \in Nat /\ endStreamPos \in Nat
    BY <1>0 DEF RecvTypes, StreamRange
  <2>2. b.end <= endStreamPos /\ \A p \in BytesOf(b) : Stored(readStreamPos, buffers, p)
    BY <1>0 DEF StreamInv, BlocksStored
  <2>3. BytesOf(b) \subseteq Nat
    BY <2>1 DEF BytesOf
  <2> QED
    BY <2>1, <2>2, <2>3
<1>4. SavedStored'
  <2> SUFFICES ASSUME NEW u \in Threads, pc'[u] = "update"
               PROVE  /\ job'[u].start < job'[u].end /\ job'[u].end <= endStreamPos'
                      /\ \A p \in job'[u].start .. (job'[u].end - 1) :
                            p >= readStreamPos => Stored(readStreamPos, buffers', p)
    BY DEF SavedStored
  <2>1. CASE pc[u] = "update" /\ job'[u] = job[u]
    <3>1. /\ job[u].start < job[u].end /\ job[u].end <= endStreamPos
          /\ \A p \in job[u].start .. (job[u].end - 1) :
                p >= readStreamPos => Stored(readStreamPos, buffers, p)
      BY <1>0, <2>1 DEF StreamInv, SavedStored
    <3>2. job[u].start \in Nat /\ job[u].end \in Nat /\ endStreamPos \in Nat
      BY <1>0 DEF RecvTypes, Job
    <3> QED
      BY <2>1, <3>1, <3>2
  <2> QED
    BY <2>1
<1>5. LatestIsBlock' /\ BlocksAheadOfAck'
  BY <1>0, Zenon DEF StreamInv, LatestIsBlock, BlocksAheadOfAck, blockVars
<1> QED
  BY <1>1, <1>2, <1>3, <1>4, <1>5 DEF StreamInv

(* RecvQueueAddBuffer                                                      *)
LEMMA AddBufferInv ==
  ASSUME RecvInv, NEW id \in BufferIds, AddBuffer(id)
  PROVE  RecvInv'
<1>0. /\ buffers' = Append(buffers, Fresh(id))
      /\ UNCHANGED <<blockVars, readStreamPos, endStreamPos, readyVars, recvTimer, pc, job, delivered>>
  BY DEF AddBuffer, Fresh
<1>1. RecvTypes /\ StreamInv /\ QueueInv
  BY DEF RecvInv
<1>2. Fresh(id) \in Buffer /\ Fresh(id).end = 0 /\ \A o \in 0 .. (Fresh(id).len - 1) : Fresh(id).data[o] = 0
  BY FreshBuffer
<1>3. /\ buffers \in Seq(Buffer) /\ readStreamPos \in Nat /\ endStreamPos \in Nat
      /\ Fits(readStreamPos, buffers, endStreamPos)
      /\ endStreamPos <= Space(readStreamPos, buffers)
  BY <1>1 DEF RecvTypes, StreamInv, Positions
<1>4. /\ buffers' \in Seq(Buffer)
      /\ Space(readStreamPos, buffers) <= Space(readStreamPos, buffers')
      /\ Fits(readStreamPos, buffers', endStreamPos)
      /\ \A p \in Nat : Stored(readStreamPos, buffers, p) => Stored(readStreamPos, buffers', p)
  BY <1>0, <1>2, <1>3, AppendKeeps
<1>5. RecvTypes'
  BY <1>0, <1>1, <1>4 DEF RecvTypes, blockVars, readyVars
<1>6. StreamInv'
  <2>1. Space(readStreamPos, buffers) \in Nat /\ Space(readStreamPos, buffers') \in Nat
    BY <1>3, <1>4, SpaceIsPosition
  <2>2. readStreamPos' = readStreamPos /\ endStreamPos' = endStreamPos /\ readyStreamPos' = readyStreamPos
        /\ pc' = pc /\ job' = job
    BY <1>0 DEF readyVars
  <2>3. endStreamPos' <= Space(readStreamPos, buffers)'
    BY <1>3, <1>4, <2>1, <2>2
  <2>4. Fits(readStreamPos, buffers, endStreamPos)'
    BY <1>4, <2>2
  <2>5. endStreamPos' \in Nat /\ endStreamPos <= endStreamPos'
    BY <1>3, <2>2
  <2> QED
    BY <1>0, <1>4, <2>2, <2>3, <2>4, <2>5, StreamGains
<1>7. QueueInv'
  BY <1>0, <1>1, QueueFrame
<1> QED
  BY <1>5, <1>6, <1>7 DEF RecvInv

(* RecvQueueSavePayload: what the thread enters next is in the buffers.    *)
LEMMA SavePayloadInv ==
  ASSUME RecvInv, NEW t \in Threads, NEW s \in StreamRange, SavePayload(t, s)
  PROVE  /\ RecvInv'
         /\ job'[t].start = s.start /\ job'[t].end <= s.end
         /\ \A u \in Threads \ {t} : pc'[u] = pc[u] /\ job'[u] = job[u]
<1> DEFINE r == readStreamPos
           space == Space(readStreamPos, buffers)
           e == SavedEnd(s)
           top == endStreamPos'
<1>1. RecvTypes /\ StreamInv /\ QueueInv
  BY DEF RecvInv
<1>2. s \in StreamRange /\ s.start \in Nat /\ s.end \in Nat
  BY DEF StreamRange
<1>3. /\ buffers \in Seq(Buffer) /\ r \in Nat /\ endStreamPos \in Nat
      /\ Fits(r, buffers, endStreamPos) /\ endStreamPos <= space /\ r <= endStreamPos
      /\ space \in Nat
  <2>1. /\ buffers \in Seq(Buffer) /\ r \in Nat /\ endStreamPos \in Nat /\ ackStreamPos \in Nat
        /\ Fits(r, buffers, endStreamPos) /\ endStreamPos <= space
        /\ r <= ackStreamPos /\ ackStreamPos <= endStreamPos
    BY <1>1 DEF RecvTypes, StreamInv, Positions
  <2> QED
    BY <2>1, SpaceIsPosition
<1>4. BufferSpace = space /\ buffers' = Saved(r, buffers, s)
  <2>1. \A i : BufferBegin(i) = Begin(r, buffers, i)
    BY Zenon DEF BufferBegin, Begin, Places
  <2>2. BufferSpace = space
    BY <2>1, Zenon DEF BufferSpace, Space
  <2>3. \A i : SaveInto(i, s) =
          LET hit == {p \in BytesOf(s) : p >= Begin(r, buffers, i) /\ p < Begin(r, buffers, i) + buffers[i].len}
          IN  IF hit = {} THEN buffers[i]
              ELSE [buffers[i] EXCEPT !.data = [o \in DOMAIN buffers[i].data |->
                                          IF Begin(r, buffers, i) + o \in hit THEN Begin(r, buffers, i) + o
                                          ELSE buffers[i].data[o]],
                               !.end = MaxPos(buffers[i].end, MinPos(s.end, Begin(r, buffers, i) + buffers[i].len))]
    BY <2>1, Zenon DEF SaveInto
  <2>4. buffers' = [i \in DOMAIN buffers |-> SaveInto(i, s)]
    BY DEF SavePayload
  <2> QED
    BY <2>2, <2>3, <2>4, Zenon DEF Saved
<1>5. /\ e \in Nat /\ s.start < e /\ top \in Nat /\ endStreamPos <= top /\ top <= space
      /\ e <= top
      /\ r < MinPos(s.end, space) => MinPos(s.end, space) <= top
      /\ e > r => e = MinPos(s.end, space)
      /\ e <= s.end
  <2>1. e = MaxPos(MinPos(s.end, r), MinPos(s.end, space)) /\ s.start < e
        /\ top = IF e > r THEN MaxPos(endStreamPos, e) ELSE endStreamPos
    BY <1>4 DEF SavedEnd, SavePayload
  <2> HIDE DEF e, top, space
  <2> QED
    BY <1>2, <1>3, <2>1 DEF MaxPos, MinPos
<1>6. /\ buffers' \in Seq(Buffer) /\ Len(buffers') = Len(buffers)
      /\ Space(r, buffers') = space
      /\ Fits(r, buffers', top)
      /\ \A p \in Nat : Stored(r, buffers, p) => Stored(r, buffers', p)
      /\ \A p \in s.start .. (MinPos(s.end, space) - 1) : p >= r => Stored(r, buffers', p)
  <2> HIDE DEF top
  <2> QED
    BY <1>2, <1>3, <1>4, <1>5, SaveKeeps
<1>7. /\ UNCHANGED <<blockVars, readStreamPos, readyVars, recvTimer, delivered>>
      /\ pc[t] = "idle"
      /\ pc' = [pc EXCEPT ![t] = "update"]
      /\ job' = [job EXCEPT ![t] = [NoJob EXCEPT
                  !.start = s.start, !.end = SavedEnd(s),
                  !.part = SavedEnd(s) < s.end, !.force = s.end - s.start < Mtu]]
  BY DEF SavePayload
<1> HIDE DEF e, top
<1>8. RecvTypes' /\ job'[t].start = s.start /\ job'[t].end = e
  <2> DEFINE part == SavedEnd(s) < s.end
             force == s.end - s.start < Mtu
             j == Filled(s.start, e, part, force)
  <2>0. part \in BOOLEAN /\ force \in BOOLEAN
    OBVIOUS
  <2>2. job' = [job EXCEPT ![t] = j]
    BY <1>7, Zenon DEF e, Filled
  <2> HIDE DEF part, force
  <2>1. j \in Job /\ j.start = s.start /\ j.end = e
    BY <1>2, <1>5, <2>0, JobTypes
  <2> HIDE DEF j
  <2>3. pc' \in [Threads -> Label] /\ job' \in [Threads -> Job] /\ job'[t] = j
    BY <1>1, <1>7, <2>1, <2>2 DEF RecvTypes, Label
  <2> QED
    BY <1>1, <1>5, <1>6, <1>7, <2>1, <2>3 DEF RecvTypes, blockVars, readyVars, top
<1>9. /\ \A u \in Threads \ {t} : pc'[u] = pc[u] /\ job'[u] = job[u]
      /\ pc'[t] = "update"
  BY <1>1, <1>7 DEF RecvTypes
<1>10. StreamInv'
  <2>1. \A p \in s.start .. (e - 1) : p >= r => Stored(r, buffers', p)
    BY <1>2, <1>3, <1>5, <1>6
  <2>2. \A u \in Threads :
            pc'[u] = "update" =>
               \/ pc[u] = "update" /\ job'[u] = job[u]
               \/ /\ job'[u].start < job'[u].end /\ job'[u].end <= endStreamPos'
                  /\ \A p \in job'[u].start .. (job'[u].end - 1) :
                        p >= readStreamPos => Stored(readStreamPos, buffers', p)
    BY <1>5, <1>8, <1>9, <2>1 DEF top
  <2>3. readStreamPos' = readStreamPos /\ readyStreamPos' = readyStreamPos
    BY <1>7 DEF readyVars
  <2>4. endStreamPos' <= Space(readStreamPos, buffers)' /\ Fits(readStreamPos, buffers, endStreamPos)'
    BY <1>5, <1>6, <2>3 DEF top
  <2> QED
    BY <1>5, <1>6, <1>7, <2>2, <2>3, <2>4, StreamGains DEF top
<1>11. QueueInv'
  <2>1. \A u \in Threads :
            \/ pc'[u] = pc[u] /\ job'[u] = job[u]
            \/ /\ pc'[u] \notin {"queue", "notify", "callback"}
               /\ pc[u] \notin {"queue", "notify", "callback"}
    BY <1>7, <1>9
  <2> QED
    BY <1>1, <1>7, <2>1, QueueFrame
<1> QED
  BY <1>5, <1>8, <1>9, <1>10, <1>11 DEF RecvInv

(* The first of several blocks.                                            *)
LEMMA FirstBlock ==
  ASSUME NEW S \in SUBSET StreamRange, S # {}
  PROVE  First(S) \in S /\ \A s \in S : First(S).start <= s.start
<1> DEFINE N == {s.start : s \in S}
<1>1. N \in SUBSET Nat /\ N # {}
  BY DEF StreamRange
<1>2. PICK x \in N : \A y \in N : x <= y
  BY <1>1, Least
<1>3. PICK s \in S : x = s.start
  OBVIOUS
<1>4. \E r \in S : \A u \in S : r.start <= u.start
  BY <1>2, <1>3
<1> QED
  BY <1>4 DEF First

(* The block that ends last.                                               *)
LEMMA LastEnd ==
  ASSUME NEW S \in SUBSET StreamRange, S # {}, NEW top \in Nat, \A s \in S : s.end <= top
  PROVE  \E b \in S : \A c \in S : c.end <= b.end
<1> DEFINE N == {top - s.end : s \in S}
<1>0. \A s \in S : s.end \in Nat /\ s.end <= top
  BY DEF StreamRange
<1>1. N \in SUBSET Nat /\ N # {}
  BY <1>0
<1>2. PICK x \in N : \A y \in N : x <= y
  BY <1>1, Least
<1>3. PICK s \in S : x = top - s.end
  OBVIOUS
<1>4. \A c \in S : top - s.end <= top - c.end
  BY <1>2, <1>3
<1>5. \A c \in S : c.end <= s.end
  BY <1>0, <1>4
<1> QED
  BY <1>5

(* No payload begins inside another one.                                   *)
LEMMA CutsApart ==
  ASSUME NEW s \in Segments, NEW u \in Segments, s.start < u.start
  PROVE  s.end <= u.start
  BY RecvQueueAssumption DEF RecvQueueAssumption

(* No block begins inside the range r.                                     *)
BeginsOutside(B, r) == \A b \in B : r.start < b.start => r.end <= b.start

(* Position p was received: it is acknowledged or in a block.              *)
Received(a, B, p) == p < a \/ \E b \in B : p \in BytesOf(b)

(* The ack position a and the blocks B become a2 and B2 by a range r that  *)
(* was received: nothing is lost and no border is new but those of r.      *)
Grows(a, B, r, a2, B2) ==
    /\ a <= a2
    /\ a2 \in {a, r.end} \/ \E c \in B : a2 = c.end
    /\ \A b \in B2 : b.start = r.start \/ \E c \in B : b.start = c.start
    /\ \A b \in B2 : b.end = r.end \/ \E c \in B : b.end = c.end
    /\ \A p \in Nat : Received(a, B, p) => Received(a2, B2, p)

(* RecvQueueUpdateStreamPos in order: the ack position moves over bytes    *)
(* that are stored and does not reach another block.                       *)
LEMMA InOrderBlocks ==
  ASSUME RecvInv, NEW t \in Threads, pc[t] = "update", NEW r \in StreamRange,
         r.start = job[t].start, r.end = job[t].end, r.start <= ackStreamPos, ackStreamPos < r.end,
         BeginsOutside(blocks, r), InOrder(r)
  PROVE  /\ ackStreamPos' \in Nat /\ ackStreamPos <= ackStreamPos' /\ ackStreamPos' <= endStreamPos
         /\ blocks' \subseteq blocks /\ latest' \in StreamRange /\ LatestIsBlock'
         /\ Grows(ackStreamPos, blocks, r, ackStreamPos', blocks')
         /\ \A p \in readStreamPos .. (ackStreamPos' - 1) : Stored(readStreamPos, buffers, p)
         /\ BlocksAheadOfAck'
<1> DEFINE f == First(blocks)
           joins == blocks # {} /\ Touches(f, r)
<1>1. RecvTypes /\ StreamInv
  BY DEF RecvInv
<1>2. /\ ackStreamPos \in Nat /\ readStreamPos \in Nat /\ endStreamPos \in Nat /\ r.start \in Nat /\ r.end \in Nat
      /\ \A b \in blocks : b.start \in Nat /\ b.end \in Nat
      /\ readStreamPos <= ackStreamPos
  BY <1>1 DEF RecvTypes, StreamRange, StreamInv, Positions
<1>5. \A b \in blocks : ackStreamPos < b.start /\ b.start < b.end /\ r.end <= b.start
  <2> SUFFICES ASSUME NEW b \in blocks PROVE ackStreamPos < b.start /\ b.start < b.end /\ r.end <= b.start
    OBVIOUS
  <2>1. ackStreamPos < b.start /\ b.start < b.end
    BY <1>1 DEF StreamInv, BlocksAheadOfAck
  <2> QED
    BY <1>2, <2>1 DEF BeginsOutside
<1>6. /\ r.end <= endStreamPos
      /\ \A p \in r.start .. (r.end - 1) : p >= readStreamPos => Stored(readStreamPos, buffers, p)
  BY <1>1 DEF StreamInv, SavedStored
<1>7. \A p \in readStreamPos .. (r.end - 1) : Stored(readStreamPos, buffers, p)
  <2> SUFFICES ASSUME NEW p \in readStreamPos .. (r.end - 1) PROVE Stored(readStreamPos, buffers, p)
    OBVIOUS
  <2>1. CASE p < ackStreamPos
    <3>1. p \in readStreamPos .. (ackStreamPos - 1)
      BY <1>2, <2>1
    <3> QED
      BY <1>1, <3>1 DEF StreamInv, AckedStored
  <2>2. CASE p >= ackStreamPos
    <3>1. p \in r.start .. (r.end - 1) /\ p >= readStreamPos
      BY <1>2, <2>2
    <3> QED
      BY <1>6, <3>1
  <2> QED
    BY <1>2, <2>1, <2>2
<1>8. blocks # {} => f \in blocks /\ \A b \in blocks : f.start <= b.start
  BY <1>1, FirstBlock DEF RecvTypes
<1>9. /\ ackStreamPos' = IF joins THEN MaxPos(r.end, f.end) ELSE r.end
      /\ blocks' = IF joins THEN blocks \ {f} ELSE blocks
      /\ latest' = IF joins /\ latest = f THEN NoBlock ELSE latest
  BY DEF InOrder
<1> HIDE DEF f
<1>10. latest' \in StreamRange /\ LatestIsBlock'
  <2>1. latest' \in StreamRange
    BY <1>1, <1>9 DEF RecvTypes, NoBlock, StreamRange
  <2>2. latest = NoBlock \/ latest \in blocks
    BY <1>1 DEF StreamInv, LatestIsBlock
  <2> QED
    BY <1>9, <2>1, <2>2 DEF LatestIsBlock
<1>11. \A b, c \in blocks : b = c \/ ~Touches(b, c)
  BY <1>1 DEF StreamInv, BlocksAheadOfAck
<1>12. CASE ~joins
  <2>1. ackStreamPos' = r.end /\ blocks' = blocks
    BY <1>9, <1>12
  <2>2. ASSUME NEW b \in blocks PROVE r.end < b.start
    <3>1. f \in blocks /\ f.start <= b.start /\ ~Touches(f, r)
      BY <1>8, <1>12
    <3>2. r.start <= f.end
      BY <1>2, <1>5, <3>1
    <3>3. r.end < f.start
      BY <1>2, <3>1, <3>2 DEF Touches
    <3> QED
      BY <1>2, <3>1, <3>3
  <2>3. BlocksAheadOfAck'
    BY <1>5, <1>11, <2>1, <2>2 DEF BlocksAheadOfAck
  <2>4. Grows(ackStreamPos, blocks, r, ackStreamPos', blocks')
    BY <1>2, <2>1 DEF Grows, Received
  <2> QED
    BY <1>2, <1>6, <1>7, <1>10, <2>1, <2>3, <2>4
<1>13. CASE joins
  <2>1. /\ f \in blocks /\ f.start = r.end /\ f.start \in Nat /\ f.end \in Nat /\ f.start < f.end
    BY <1>2, <1>5, <1>8, <1>13 DEF Touches
  <2>2. ackStreamPos' = f.end /\ blocks' = blocks \ {f}
    BY <1>2, <1>9, <1>13, <2>1 DEF MaxPos
  <2>3. f.end <= endStreamPos /\ \A p \in BytesOf(f) : Stored(readStreamPos, buffers, p)
    BY <1>1, <2>1 DEF StreamInv, BlocksStored
  <2>4. \A p \in readStreamPos .. (f.end - 1) : Stored(readStreamPos, buffers, p)
    <3> SUFFICES ASSUME NEW p \in readStreamPos .. (f.end - 1) PROVE Stored(readStreamPos, buffers, p)
      OBVIOUS
    <3>1. p \in readStreamPos .. (r.end - 1) \/ p \in BytesOf(f)
      BY <1>2, <2>1 DEF BytesOf
    <3> QED
      BY <1>7, <2>3, <3>1
  <2>5. ASSUME NEW b \in blocks \ {f} PROVE f.end < b.start
    <3>1. ~Touches(f, b) /\ f.start <= b.start /\ b.start < b.end
      BY <1>5, <1>8, <1>11, <2>1
    <3> QED
      BY <1>2, <2>1, <3>1 DEF Touches
  <2>6. BlocksAheadOfAck'
    BY <1>5, <1>11, <2>2, <2>5 DEF BlocksAheadOfAck
  <2>7. Grows(ackStreamPos, blocks, r, ackStreamPos', blocks')
    <3>1. \A p \in Nat : Received(ackStreamPos, blocks, p) => Received(ackStreamPos', blocks', p)
      <4> SUFFICES ASSUME NEW p \in Nat, Received(ackStreamPos, blocks, p) PROVE Received(f.end, blocks \ {f}, p)
        BY <2>2
      <4>1. p < ackStreamPos => p < f.end
        BY <1>2, <2>1
      <4>2. p \in BytesOf(f) => p < f.end
        BY <2>1 DEF BytesOf
      <4> QED
        BY <4>1, <4>2 DEF Received
    <3>2. ackStreamPos <= f.end
      BY <1>2, <2>1
    <3> QED
      BY <2>1, <2>2, <3>1, <3>2 DEF Grows
  <2> QED
    BY <1>2, <1>10, <2>1, <2>2, <2>3, <2>4, <2>6, <2>7
<1> QED
  BY <1>12, <1>13
Touched(S, r) == {b \in S : Touches(b, r)}

(* Blocks that lie apart, below top.                                       *)
Apart(S, top) ==
    /\ \A b \in S : b.start < b.end /\ b.end <= top
    /\ \A b, c \in S : b = c \/ ~Touches(b, c)

(* m has the bytes of r and of the blocks T, and touches no other one.     *)
Joins(S, T, r, m) ==
    /\ m \in StreamRange /\ m.start < m.end
    /\ \A b \in T : m.start <= b.start /\ b.end <= m.end
    /\ m.start = r.start \/ \E b \in T : m.start = b.start
    /\ m.end = r.end \/ \E b \in T : m.end = b.end
    /\ \A p \in BytesOf(m) : p \in BytesOf(r) \/ \E b \in T : p \in BytesOf(b)
    /\ \A b \in S \ T : ~Touches(b, m) /\ ~Touches(m, b)

(* RecvQueueBlocksMerge makes such a block.                                *)
LEMMA MergedBlock ==
  ASSUME NEW S, S \subseteq StreamRange, NEW top \in Nat, NEW r \in StreamRange, r.start < r.end,
         Apart(S, top), NEW T, T = Touched(S, r), T # {}, NEW m, m = Merged(r, T)
  PROVE  Joins(S, T, r, m)
<1> USE DEF Apart
<1>1. /\ T \in SUBSET StreamRange /\ \A b \in T : b \in S /\ b.end <= top /\ Touches(b, r)
      /\ \A b \in S \ T : ~Touches(b, r)
  BY DEF Touched
<1> DEFINE lo == First(T)
           hi == CHOOSE b \in T : \A c \in T : c.end <= b.end
<1>2. lo \in T /\ \A b \in T : lo.start <= b.start
  BY <1>1, FirstBlock
<1>3. hi \in T /\ \A b \in T : b.end <= hi.end
  <2>1. \E b \in T : \A c \in T : c.end <= b.end
    BY <1>1, LastEnd
  <2> QED
    BY <2>1
<1>4. m = [start |-> MinPos(r.start, lo.start), end |-> MaxPos(r.end, hi.end)]
  BY DEF Merged
<1>5. m.start = MinPos(r.start, lo.start) /\ m.end = MaxPos(r.end, hi.end)
  BY <1>4
<1> HIDE DEF lo, hi
<1>6. /\ \A b \in S : b.start \in Nat /\ b.end \in Nat
      /\ r.start \in Nat /\ r.end \in Nat
      /\ lo.start \in Nat /\ lo.end \in Nat /\ hi.start \in Nat /\ hi.end \in Nat
      /\ lo.start < lo.end /\ hi.start < hi.end
  BY <1>1, <1>2, <1>3 DEF StreamRange
<1>7. /\ lo.start <= r.end /\ r.start <= lo.end
      /\ hi.start <= r.end /\ r.start <= hi.end
      /\ lo.end <= hi.end /\ lo.start <= hi.start
  BY <1>1, <1>2, <1>3 DEF Touches
<1>8. /\ m.start \in Nat /\ m.end \in Nat /\ m.start < m.end
      /\ m.start = r.start \/ (m.start = lo.start /\ lo.start <= r.start)
      /\ m.end = r.end \/ (m.end = hi.end /\ r.end <= hi.end)
      /\ m.start <= r.start /\ r.end <= m.end
  BY <1>5, <1>6, <1>7 DEF MinPos, MaxPos
<1>9. m \in StreamRange
  BY <1>4, <1>5, <1>8 DEF StreamRange
<1>10. ASSUME NEW p \in BytesOf(m) PROVE p \in BytesOf(r) \/ \E b \in T : p \in BytesOf(b)
  <2>1. p \in BytesOf(r) \/ p \in BytesOf(lo) \/ p \in BytesOf(hi)
    BY <1>6, <1>7, <1>8 DEF BytesOf
  <2> QED
    BY <1>2, <1>3, <2>1
<1>11. ASSUME NEW b \in S \ T PROVE ~Touches(b, m) /\ ~Touches(m, b)
  <2>1. ~Touches(b, r) /\ b # lo /\ b # hi /\ b.start \in Nat /\ b.end \in Nat /\ b.start < b.end
    BY <1>1, <1>2, <1>3, <1>6
  <2>2. ~Touches(b, lo) /\ ~Touches(b, hi)
    BY <1>1, <1>2, <1>3, <2>1
  <2>3. CASE b.end < r.start
    <3>1. b.end < lo.start
      BY <1>6, <1>7, <2>1, <2>2, <2>3 DEF Touches
    <3>2. b.end < m.start
      BY <1>6, <1>8, <2>1, <2>3, <3>1
    <3> QED
      BY <1>8, <2>1, <3>2 DEF Touches
  <2>4. CASE r.end < b.start
    <3>1. hi.end < b.start
      BY <1>6, <1>7, <2>1, <2>2, <2>4 DEF Touches
    <3>2. m.end < b.start
      BY <1>6, <1>8, <2>1, <2>4, <3>1
    <3> QED
      BY <1>8, <2>1, <3>2 DEF Touches
  <2> QED
    BY <1>6, <2>1, <2>3, <2>4 DEF Touches
<1>12. ASSUME NEW b \in T PROVE m.start <= b.start /\ b.end <= m.end
  <2>1. b.start \in Nat /\ b.end \in Nat /\ lo.start <= b.start /\ b.end <= hi.end
    BY <1>1, <1>2, <1>3, <1>6
  <2>2. m.start <= lo.start /\ hi.end <= m.end
    BY <1>5, <1>6 DEF MinPos, MaxPos
  <2> QED
    BY <1>6, <1>8, <2>1, <2>2
<1> QED
  BY <1>2, <1>3, <1>8, <1>9, <1>10, <1>11, <1>12 DEF Joins

(* RecvQueueAddToBlocks: the new or joined block keeps the rules.          *)
LEMMA AddToBlocksKeeps ==
  ASSUME RecvInv, NEW t \in Threads, pc[t] = "update", NEW r \in StreamRange,
         r.start = job[t].start, r.end = job[t].end, ackStreamPos < r.start,
         AddToBlocks(r), UNCHANGED ackStreamPos
  PROVE  /\ blocks' \subseteq StreamRange /\ latest' \in StreamRange /\ LatestIsBlock'
         /\ \A b \in blocks' : /\ b.end <= endStreamPos
                               /\ \A p \in BytesOf(b) : Stored(readStreamPos, buffers, p)
         /\ BlocksAheadOfAck'
         /\ Grows(ackStreamPos, blocks, r, ackStreamPos', blocks')
<1> DEFINE T == {b \in blocks : Touches(b, r)}
           m == IF T = {} THEN r ELSE Merged(r, T)
<1>1. RecvTypes /\ StreamInv
  BY DEF RecvInv
<1>2. /\ ackStreamPos \in Nat /\ readStreamPos \in Nat /\ endStreamPos \in Nat /\ r.start \in Nat /\ r.end \in Nat
      /\ \A b \in blocks : b.start \in Nat /\ b.end \in Nat
      /\ readStreamPos <= ackStreamPos
      /\ blocks \in SUBSET StreamRange
  BY <1>1 DEF RecvTypes, StreamRange, StreamInv, Positions
<1>3. /\ r.start < r.end /\ r.end <= endStreamPos
      /\ \A p \in r.start .. (r.end - 1) : p >= readStreamPos => Stored(readStreamPos, buffers, p)
  BY <1>1 DEF StreamInv, SavedStored
<1>4. \A p \in BytesOf(r) : Stored(readStreamPos, buffers, p)
  BY <1>2, <1>3 DEF BytesOf
<1>6. \A b \in blocks : /\ ackStreamPos < b.start /\ b.start < b.end /\ b.end <= endStreamPos
                        /\ \A p \in BytesOf(b) : Stored(readStreamPos, buffers, p)
  BY <1>1 DEF StreamInv, BlocksAheadOfAck, BlocksStored
<1>7. \A b, c \in blocks : b = c \/ ~Touches(b, c)
  BY <1>1 DEF StreamInv, BlocksAheadOfAck
<1>8. /\ blocks' = (blocks \ T) \cup {m}
      /\ latest' = m \/ (latest' = latest /\ latest \notin T)
      /\ T \subseteq blocks
  BY DEF AddToBlocks
<1>9. /\ m \in StreamRange /\ m.start < m.end
      /\ \A b \in T : m.start <= b.start /\ b.end <= m.end
      /\ m.start = r.start \/ \E b \in blocks : m.start = b.start
      /\ m.end = r.end \/ \E b \in blocks : m.end = b.end
      /\ \A p \in BytesOf(m) : p \in BytesOf(r) \/ \E b \in blocks : p \in BytesOf(b)
      /\ \A b \in blocks \ T : ~Touches(b, m) /\ ~Touches(m, b)
  <2>1. CASE T = {}
    <3>1. m = r
      BY <2>1
    <3>2. \A b \in blocks \ T : ~Touches(b, r)
      OBVIOUS
    <3>3. \A b \in blocks \ T : ~Touches(r, b)
      BY <3>2 DEF Touches
    <3> HIDE DEF T, m
    <3> QED
      BY <1>3, <2>1, <3>1, <3>2, <3>3
  <2>2. CASE T # {}
    <3>1. m = Merged(r, T)
      BY <2>2
    <3>2. T = Touched(blocks, r) /\ T \subseteq blocks
      BY DEF Touched
    <3>4. Apart(blocks, endStreamPos)
      BY <1>6, <1>7 DEF Apart
    <3> HIDE DEF T, m
    <3>3. Joins(blocks, T, r, m)
      BY <1>2, <1>3, <2>2, <3>1, <3>2, <3>4, MergedBlock
    <3> QED
      BY <3>2, <3>3, Zenon DEF Joins
  <2> QED
    BY <2>1, <2>2
<1> HIDE DEF T, m
<1>10. /\ ackStreamPos < m.start /\ m.end <= endStreamPos
       /\ \A p \in BytesOf(m) : Stored(readStreamPos, buffers, p)
  BY <1>3, <1>4, <1>6, <1>9
<1>11. blocks' \subseteq StreamRange /\ latest' \in StreamRange /\ LatestIsBlock'
  <2>1. latest = NoBlock \/ latest \in blocks
    BY <1>1 DEF StreamInv, LatestIsBlock
  <2> QED
    BY <1>1, <1>8, <1>9, <2>1 DEF RecvTypes, LatestIsBlock
<1>12. \A b \in blocks' : /\ b.end <= endStreamPos
                          /\ \A p \in BytesOf(b) : Stored(readStreamPos, buffers, p)
  BY <1>6, <1>8, <1>10
<1>13. BlocksAheadOfAck'
  <2>1. \A b \in blocks' : ackStreamPos < b.start /\ b.start < b.end
    BY <1>6, <1>8, <1>9, <1>10
  <2>2. \A b, c \in blocks' : b = c \/ ~Touches(b, c)
    BY <1>7, <1>8, <1>9
  <2> QED
    BY <2>1, <2>2 DEF BlocksAheadOfAck
<1>14. Grows(ackStreamPos, blocks, r, ackStreamPos', blocks')
  <2>1. \A b \in blocks' : b.start = r.start \/ \E c \in blocks : b.start = c.start
    BY <1>8, <1>9
  <2>4. \A b \in blocks' : b.end = r.end \/ \E c \in blocks : b.end = c.end
    BY <1>8, <1>9
  <2>2. \A p \in Nat : Received(ackStreamPos, blocks, p) => Received(ackStreamPos', blocks', p)
    <3>1. ASSUME NEW p \in Nat, NEW b \in T, p \in BytesOf(b) PROVE p \in BytesOf(m)
      <4>1. b.start \in Nat /\ b.end \in Nat /\ m.start \in Nat /\ m.end \in Nat
        BY <1>2, <1>8, <1>9 DEF StreamRange
      <4> QED
        BY <1>9, <3>1, <4>1 DEF BytesOf
    <3> QED
      BY <1>8, <3>1 DEF Received
  <2>3. ackStreamPos <= ackStreamPos' /\ ackStreamPos' \in {ackStreamPos, r.end}
    BY <1>2
  <2> QED
    BY <2>1, <2>2, <2>3, <2>4 DEF Grows
<1> QED
  BY <1>11, <1>12, <1>13, <1>14

(* RecvQueueUpdateStreamPos                                                *)
LEMMA UpdateStreamPosInv ==
  ASSUME RecvInv, NEW t \in Threads, BeginsOutside(blocks, job[t]), UpdateStreamPos(t)
  PROVE  /\ RecvInv'
         /\ Grows(ackStreamPos, blocks, job[t], ackStreamPos', blocks')
         /\ \A u \in Threads \ {t} : pc'[u] = pc[u] /\ job'[u] = job[u]
         /\ pc'[t] # "update"
<1> DEFINE r == [start |-> job[t].start, end |-> job[t].end]
           isOld == \/ job[t].end <= ackStreamPos
                    \/ job[t].start > ackStreamPos /\ InOldBlock(job[t])
           goOn == ~isOld \/ job[t].part
<1>1. RecvTypes /\ StreamInv /\ QueueInv
  BY DEF RecvInv
<1>2. /\ pc[t] = "update"
      /\ \/ UNCHANGED blockVars
         \/ ~isOld /\ job[t].start <= ackStreamPos /\ InOrder(r)
         \/ ~isOld /\ job[t].start > ackStreamPos /\ AddToBlocks(r) /\ UNCHANGED ackStreamPos
      /\ recvTimer' = (recvTimer \/ goOn)
      /\ pc' = [pc EXCEPT ![t] = IF goOn THEN "pop" ELSE "idle"]
      /\ job' = [job EXCEPT ![t] = IF goOn THEN [job[t] EXCEPT !.seen = ackStreamPos'] ELSE NoJob]
      /\ UNCHANGED <<streamVars, readyVars, delivered>>
  BY DEF UpdateStreamPos
<1>3. /\ job[t] \in Job /\ job[t].start \in Nat /\ job[t].end \in Nat /\ ackStreamPos \in Nat
      /\ endStreamPos \in Nat
      /\ readyStreamPos \in Nat /\ readStreamPos \in Nat
      /\ r \in StreamRange /\ r.start = job[t].start /\ r.end = job[t].end
  BY <1>1 DEF RecvTypes, Job, StreamRange
<1>4. /\ ackStreamPos' \in Nat /\ ackStreamPos <= ackStreamPos' /\ ackStreamPos' <= endStreamPos
      /\ blocks' \subseteq StreamRange /\ latest' \in StreamRange /\ LatestIsBlock'
      /\ Grows(ackStreamPos, blocks, r, ackStreamPos', blocks')
      /\ \A p \in readStreamPos .. (ackStreamPos' - 1) : Stored(readStreamPos, buffers, p)
      /\ \A b \in blocks' : /\ b.end <= endStreamPos
                            /\ \A p \in BytesOf(b) : Stored(readStreamPos, buffers, p)
      /\ BlocksAheadOfAck'
  <2>0. /\ ackStreamPos <= endStreamPos /\ blocks \subseteq StreamRange /\ latest \in StreamRange /\ LatestIsBlock
        /\ \A p \in readStreamPos .. (ackStreamPos - 1) : Stored(readStreamPos, buffers, p)
        /\ \A b \in blocks : /\ b.end <= endStreamPos
                             /\ \A p \in BytesOf(b) : Stored(readStreamPos, buffers, p)
        /\ BlocksAheadOfAck
    BY <1>1 DEF RecvTypes, StreamInv, Positions, AckedStored, BlocksStored
  <2>1. CASE UNCHANGED blockVars
    <3>1. Grows(ackStreamPos, blocks, r, ackStreamPos', blocks')
      BY <1>3, <2>1 DEF blockVars, Grows
    <3> HIDE DEF r
    <3> QED
      BY <1>3, <2>0, <2>1, <3>1 DEF blockVars, BlocksAheadOfAck, LatestIsBlock
  <2>2. CASE ~isOld /\ job[t].start <= ackStreamPos /\ InOrder(r)
    <3>1. r.start <= ackStreamPos /\ ackStreamPos < r.end
      BY <1>3, <2>2
    <3>2. InOrder(r) /\ BeginsOutside(blocks, r)
      BY <1>3, <2>2 DEF BeginsOutside
    <3> HIDE DEF r, isOld
    <3>3. /\ ackStreamPos' \in Nat /\ ackStreamPos <= ackStreamPos' /\ ackStreamPos' <= endStreamPos
          /\ blocks' \subseteq blocks /\ latest' \in StreamRange /\ LatestIsBlock'
          /\ Grows(ackStreamPos, blocks, r, ackStreamPos', blocks')
          /\ \A p \in readStreamPos .. (ackStreamPos' - 1) : Stored(readStreamPos, buffers, p)
          /\ BlocksAheadOfAck'
      BY <1>2, <1>3, <3>1, <3>2, InOrderBlocks
    <3> QED
      BY <2>0, <3>3
  <2>3. CASE ~isOld /\ job[t].start > ackStreamPos /\ AddToBlocks(r) /\ UNCHANGED ackStreamPos
    <3>1. ackStreamPos < r.start
      BY <1>3, <2>3
    <3>2. AddToBlocks(r) /\ UNCHANGED ackStreamPos
      BY <2>3
    <3> HIDE DEF r, isOld
    <3>3. /\ blocks' \subseteq StreamRange /\ latest' \in StreamRange /\ LatestIsBlock'
          /\ Grows(ackStreamPos, blocks, r, ackStreamPos', blocks')
          /\ \A b \in blocks' : /\ b.end <= endStreamPos
                                /\ \A p \in BytesOf(b) : Stored(readStreamPos, buffers, p)
          /\ BlocksAheadOfAck'
      BY <1>2, <1>3, <3>1, <3>2, AddToBlocksKeeps
    <3> QED
      BY <1>3, <2>0, <3>2, <3>3
  <2> QED
    BY <1>2, <2>1, <2>2, <2>3
<1>5. /\ pc' \in [Threads -> Label] /\ job' \in [Threads -> Job] /\ recvTimer' \in BOOLEAN
      /\ \A u \in Threads \ {t} : pc'[u] = pc[u] /\ job'[u] = job[u]
      /\ pc'[t] \in {"pop", "idle"}
  <2> HIDE DEF goOn
  <2>1. recvTimer' \in BOOLEAN
    BY <1>2
  <2>2. (IF goOn THEN [job[t] EXCEPT !.seen = ackStreamPos'] ELSE NoJob) \in Job
    <3>1. [job[t] EXCEPT !.seen = ackStreamPos'] \in Job
      BY <1>3, <1>4 DEF Job
    <3> QED
      BY <3>1, JobTypes
  <2>3. (IF goOn THEN "pop" ELSE "idle") \in {"pop", "idle"}
    OBVIOUS
  <2>4. pc \in [Threads -> Label] /\ job \in [Threads -> Job]
    BY <1>1 DEF RecvTypes
  <2>5. pc' \in [Threads -> Label] /\ pc'[t] \in {"pop", "idle"} /\ \A u \in Threads \ {t} : pc'[u] = pc[u]
    BY <1>2, <2>3, <2>4 DEF Label
  <2>6. job' \in [Threads -> Job] /\ \A u \in Threads \ {t} : job'[u] = job[u]
    BY <1>2, <2>2, <2>4
  <2> QED
    BY <2>1, <2>5, <2>6
<1> HIDE DEF r, isOld, goOn
<1>6. RecvTypes'
  BY <1>1, <1>2, <1>4, <1>5 DEF RecvTypes, streamVars, readyVars
<1>7. StreamInv'
  <2> USE DEF streamVars, readyVars
  <2>1. Positions'
    BY <1>1, <1>2, <1>3, <1>4 DEF StreamInv, Positions, Space, Begin, Places
  <2>2. Fits(readStreamPos, buffers, endStreamPos)'
    BY <1>1, <1>2, Zenon DEF StreamInv
  <2>3. AckedStored'
    BY <1>2, <1>4 DEF AckedStored
  <2>4. BlocksStored'
    BY <1>2, <1>4, Zenon DEF BlocksStored
  <2>5. SavedStored'
    <3>1. \A u \in Threads : pc'[u] = "update" => pc[u] = "update" /\ job'[u] = job[u]
      BY <1>5
    <3> QED
      BY <1>1, <1>2, <3>1, Zenon DEF StreamInv, SavedStored
  <2> QED
    BY <1>4, <2>1, <2>2, <2>3, <2>4, <2>5 DEF StreamInv
<1>8. QueueInv'
  <2>1. \A u \in Threads :
            \/ pc'[u] = pc[u] /\ job'[u] = job[u]
            \/ /\ pc'[u] \notin {"queue", "notify", "callback"}
               /\ pc[u] \notin {"queue", "notify", "callback"}
    BY <1>2, <1>5
  <2>2. UNCHANGED <<readyVars, readStreamPos, delivered>>
    BY <1>2 DEF streamVars
  <2> QED
    BY <1>1, <2>1, <2>2, QueueFrame
<1>9. Grows(ackStreamPos, blocks, job[t], ackStreamPos', blocks')
  BY <1>3, <1>4 DEF Grows
<1> QED
  BY <1>5, <1>6, <1>7, <1>8, <1>9 DEF RecvInv
-----------------------------------------------------------------------------
(* Buffers that were popped                                                 *)

Restart(b, x) == [b EXCEPT !.start = x]

Popped(r, bs, n) == [i \in 1 .. n |-> Restart(bs[i], From(r, bs, i))]

(* Only the start of a popped buffer is set.                               *)
LEMMA RestartFields ==
  ASSUME NEW b \in Buffer, NEW x \in Nat
  PROVE  /\ Restart(b, x) \in Buffer /\ Restart(b, x).start = x
         /\ Restart(b, x).end = b.end /\ Restart(b, x).data = b.data
<1> DEFINE c == Restart(b, x)
<1>1. b \in [id : BufferIds, len : Nat, start : Nat, end : Nat, data : Data]
  BY BufferFields
<1>2. /\ c \in [id : BufferIds, len : Nat, start : Nat, end : Nat, data : Data]
      /\ c.start = x /\ c.id = b.id /\ c.len = b.len /\ c.end = b.end /\ c.data = b.data
  BY <1>1 DEF Restart
<1> HIDE DEF c
<1>3. b.id \in BufferIds /\ b.len = BufferLen[b.id] /\ b.end \in Nat /\ b.data \in [0 .. (b.len - 1) -> Nat]
  BY BufferFields
<1>4. BufferType(c)
  BY <1>2, <1>3 DEF BufferType
<1>5. c \in Buffer
  BY <1>2, <1>4 DEF Buffer
<1> QED
  BY <1>2, <1>5 DEF c

(* Buffers that hold what they stand for and follow each other from r.     *)
RunFrom(r, bs, n, ps) ==
    /\ ps \in Seq(Buffer) /\ Len(ps) = n
    /\ \A i \in 1 .. n : Whole(ps[i]) /\ ps[i].end = bs[i].end /\ ps[i].start >= r
    /\ \A i \in 1 .. (n - 1) : ps[i + 1].start = ps[i].end
    /\ n > 0 => ps[1].start = r
    /\ Ordered(ps)

(* The popped buffers are such a run.                                      *)
LEMMA PoppedRun ==
  ASSUME NEW bs \in Seq(Buffer), NEW r \in Nat \ {0}, NEW acked \in Nat, NEW top \in Nat, NEW n \in 0 .. Len(bs),
         Fits(r, bs, top), AllStored(r, bs, acked), Complete(r, bs, n, acked),
         NEW ps, ps = Popped(r, bs, n)
  PROVE  RunFrom(r, bs, n, ps)
<1> USE DEF AllStored, Complete
<1>1. /\ Len(bs) \in Nat /\ DOMAIN bs = 1 .. Len(bs) /\ n \in Nat /\ n <= Len(bs)
      /\ \A i \in 1 .. n : i \in 1 .. Len(bs) /\ i \in DOMAIN bs /\ i \in 1 .. (Len(bs) + 1)
                           /\ i + 1 \in 1 .. (Len(bs) + 1)
  OBVIOUS
<1>2. /\ Begin(r, bs, 1) = r
      /\ \A i \in 1 .. (Len(bs) + 1) : Begin(r, bs, i) \in Nat /\ Begin(r, bs, i) >= r
      /\ \A i \in 1 .. Len(bs) : Begin(r, bs, i + 1) = Begin(r, bs, i) + bs[i].len
      /\ \A i, j \in 1 .. (Len(bs) + 1) : i <= j => Begin(r, bs, i) <= Begin(r, bs, j)
  BY BeginLaid
<1>3. ASSUME NEW i \in 1 .. n
      PROVE  /\ ps[i] \in Buffer /\ ps[i].start = Begin(r, bs, i)
             /\ ps[i].end = bs[i].end /\ ps[i].data = bs[i].data
             /\ bs[i].end \in Nat /\ bs[i].len \in Nat
  <2>1. ps[i] = Restart(bs[i], Begin(r, bs, i))
    BY DEF Popped
  <2>2. bs[i] \in Buffer /\ Begin(r, bs, i) \in Nat
    BY <1>1, <1>2, ElementOfSeq
  <2>3. bs[i].end \in Nat /\ bs[i].len \in Nat
    BY <2>2, BufferFields
  <2>4. \A b \in Buffer, x \in Nat :
          /\ Restart(b, x) \in Buffer /\ Restart(b, x).start = x
          /\ Restart(b, x).end = b.end /\ Restart(b, x).data = b.data
    BY RestartFields
  <2>5. /\ Restart(bs[i], Begin(r, bs, i)) \in Buffer /\ Restart(bs[i], Begin(r, bs, i)).start = Begin(r, bs, i)
        /\ Restart(bs[i], Begin(r, bs, i)).end = bs[i].end /\ Restart(bs[i], Begin(r, bs, i)).data = bs[i].data
    BY <2>2, <2>4, Zenon
  <2> QED
    BY <2>1, <2>3, <2>5
<1>4. ps \in Seq(Buffer) /\ Len(ps) = n /\ DOMAIN ps = 1 .. n
  <2>1. ps = [i \in 1 .. n |-> ps[i]]
    BY DEF Popped
  <2>2. ps \in [1 .. n -> Buffer]
    BY <1>3, <2>1
  <2> QED
    BY <1>1, <2>2
<1>5. ASSUME NEW i \in 1 .. n PROVE Whole(ps[i]) /\ bs[i].end <= Begin(r, bs, i) + bs[i].len
  <2>1. bs[i].end # 0 /\ bs[i].end <= acked /\ i \in DOMAIN bs
    BY <1>1
  <2>2. /\ Begin(r, bs, i) < bs[i].end
        /\ \A o \in 0 .. (bs[i].end - Begin(r, bs, i) - 1) : bs[i].data[o] = Begin(r, bs, i) + o
    BY <2>1, PopWhole
  <2>3. bs[i].end <= Begin(r, bs, i) + bs[i].len
    BY <2>1 DEF Fits
  <2> QED
    BY <1>3, <2>2, <2>3 DEF Whole
<1>6. ASSUME NEW i \in 1 .. (n - 1) PROVE ps[i + 1].start = ps[i].end
  <2>1. i \in 1 .. n /\ i + 1 \in 1 .. n /\ i + 1 # 1 /\ (i + 1) - 1 = i
    BY <1>1
  <2>2. ps[i + 1].start = From(r, bs, i + 1)
    BY <1>3, <2>1
  <2>3. From(r, bs, i + 1) = bs[i].end
    BY <2>1 DEF From
  <2> QED
    BY <1>3, <2>1, <2>2, <2>3
<1>7. n > 0 => ps[1].start = r
  <2>1. n > 0 => 1 \in 1 .. n
    BY <1>1
  <2> QED
    BY <1>2, <1>3, <2>1
<1>8. Ordered(ps)
  <2> SUFFICES ASSUME NEW i \in 1 .. n, NEW j \in 1 .. n, i < j PROVE ps[i].end <= ps[j].start
    BY <1>4 DEF Ordered
  <2>1. /\ i + 1 <= j /\ i + 1 \in 1 .. (Len(bs) + 1) /\ j \in 1 .. (Len(bs) + 1) /\ i \in 1 .. (Len(bs) + 1)
        /\ i \in 1 .. Len(bs)
    BY <1>1
  <2>2. Begin(r, bs, i + 1) <= Begin(r, bs, j) /\ Begin(r, bs, i + 1) = Begin(r, bs, i) + bs[i].len
        /\ Begin(r, bs, i) \in Nat /\ Begin(r, bs, j) \in Nat
    BY <1>2, <2>1
  <2>3. bs[i].end <= Begin(r, bs, i) + bs[i].len /\ ps[i].end = bs[i].end /\ ps[j].start = Begin(r, bs, j)
        /\ bs[i].end \in Nat /\ bs[i].len \in Nat
    BY <1>3, <1>5
  <2> QED
    BY <2>2, <2>3, SMTT(40)
<1>9. \A i \in 1 .. n : Whole(ps[i]) /\ ps[i].end = bs[i].end /\ ps[i].start >= r
  BY <1>1, <1>2, <1>3, <1>5
<1> QED
  BY <1>4, <1>6, <1>7, <1>8, <1>9 DEF RunFrom

(* The stream after a pop: what is left in the queue holds all that was    *)
(* acknowledged, entered or saved and not popped.                          *)
LEMMA PopStream ==
  ASSUME RecvInv, NEW q \in Nat, readStreamPos <= q, q <= ackStreamPos,
         UNCHANGED <<blockVars, endStreamPos, readyVars>>, readStreamPos' = q,
         Fits(q, buffers', endStreamPos), endStreamPos <= Space(q, buffers'),
         \A p \in Nat : p >= q /\ p < endStreamPos /\ Stored(readStreamPos, buffers, p) => Stored(q, buffers', p),
         \A u \in Threads : pc'[u] = "update" => pc[u] = "update" /\ job'[u] = job[u]
  PROVE  StreamInv'
<1> USE DEF blockVars, readyVars
<1>1. RecvTypes /\ StreamInv
  BY DEF RecvInv
<1>2. /\ ackStreamPos \in Nat /\ readStreamPos \in Nat /\ endStreamPos \in Nat /\ readyStreamPos \in Nat
      /\ InitStreamPos \in Nat
      /\ InitStreamPos <= readyStreamPos /\ readyStreamPos <= readStreamPos /\ ackStreamPos <= endStreamPos
  BY <1>1, RecvQueueAssumption DEF RecvTypes, StreamInv, Positions, RecvQueueAssumption
<1>3. Positions'
  BY <1>2 DEF Positions
<1>4. Fits(readStreamPos, buffers, endStreamPos)'
  OBVIOUS
<1>5. AckedStored'
  <2> SUFFICES ASSUME NEW p \in q .. (ackStreamPos - 1) PROVE Stored(q, buffers', p)
    BY DEF AckedStored
  <2>1. p \in Nat /\ p >= q /\ p < endStreamPos /\ p \in readStreamPos .. (ackStreamPos - 1)
    BY <1>2
  <2> QED
    BY <1>1, <2>1 DEF StreamInv, AckedStored
<1>6. BlocksStored'
  <2> SUFFICES ASSUME NEW b \in blocks
               PROVE  b.end <= endStreamPos /\ \A p \in BytesOf(b) : Stored(q, buffers', p)
    BY DEF BlocksStored
  <2>1. b.start \in Nat /\ b.end \in Nat /\ ackStreamPos < b.start
    BY <1>1 DEF RecvTypes, StreamRange, StreamInv, BlocksAheadOfAck
  <2>2. b.end <= endStreamPos /\ \A p \in BytesOf(b) : Stored(readStreamPos, buffers, p)
    BY <1>1 DEF StreamInv, BlocksStored
  <2>3. \A p \in BytesOf(b) : p \in Nat /\ p >= q /\ p < endStreamPos
    BY <1>2, <2>1, <2>2 DEF BytesOf
  <2> QED
    BY <2>2, <2>3
<1>7. SavedStored'
  <2> SUFFICES ASSUME NEW u \in Threads, pc[u] = "update"
               PROVE  /\ job[u].start < job[u].end /\ job[u].end <= endStreamPos
                      /\ \A p \in job[u].start .. (job[u].end - 1) : p >= q => Stored(q, buffers', p)
    BY DEF SavedStored
  <2>1. job[u].start \in Nat /\ job[u].end \in Nat
    BY <1>1 DEF RecvTypes, Job
  <2>2. /\ job[u].start < job[u].end /\ job[u].end <= endStreamPos
        /\ \A p \in job[u].start .. (job[u].end - 1) : p >= readStreamPos => Stored(readStreamPos, buffers, p)
    BY <1>1 DEF StreamInv, SavedStored
  <2>3. ASSUME NEW p \in job[u].start .. (job[u].end - 1), p >= q PROVE Stored(q, buffers', p)
    <3>1. p \in Nat /\ p >= readStreamPos /\ p < endStreamPos
      BY <1>2, <2>1, <2>2, <2>3
    <3> QED
      BY <2>2, <2>3, <3>1
  <2> QED
    BY <2>2, <2>3
<1>8. LatestIsBlock' /\ BlocksAheadOfAck'
  BY <1>1, Zenon DEF StreamInv, LatestIsBlock, BlocksAheadOfAck
<1> QED
  BY <1>3, <1>4, <1>5, <1>6, <1>7, <1>8 DEF StreamInv

(* Popped buffers continue the chain of the pieces where it ended.         *)
LEMMA PopChain ==
  ASSUME RecvInv, NEW t \in Threads, NEW q \in Nat, NEW n \in Nat \ {0}, NEW ps \in Seq(Buffer), Len(ps) = n,
         readStreamPos <= q, readStreamPos' = q, UNCHANGED <<readyVars, delivered>>,
         pc[t] = "pop", pc'[t] = "queue", job'[t].bufs = ps,
         \A u \in Threads \ {t} : pc'[u] = pc[u] /\ job'[u] = job[u],
         \A i \in 1 .. n : Whole(ps[i]) /\ ps[i].start >= readStreamPos /\ ps[i].end <= q,
         \A i \in 1 .. (n - 1) : ps[i + 1].start = ps[i].end,
         ps[1].start = readStreamPos, ps[n].end = q, Ordered(ps)
  PROVE  QueueInv'
<1> USE DEF readyVars
<1>1. RecvTypes /\ StreamInv /\ QueueInv
  BY DEF RecvInv
<1>2. /\ readStreamPos \in Nat /\ readyStreamPos \in Nat /\ readyStreamPos <= readStreamPos
      /\ ready \in Seq(Buffer) /\ \A u \in Threads : job[u].bufs \in Seq(Buffer)
      /\ DOMAIN ps = 1 .. n /\ 1 \in 1 .. n /\ n \in 1 .. n
  BY <1>1 DEF RecvTypes, StreamInv, Positions, Job
<1>3. \A u \in Threads : /\ (pc'[u] = "queue") <=> (pc[u] = "queue" \/ u = t)
                         /\ (pc'[u] = "callback") <=> (pc[u] = "callback")
                         /\ Notifying(u)' <=> Notifying(u)
                         /\ u # t => job'[u] = job[u]
  BY DEF Notifying
<1>4. Pieces' = Pieces \cup Elements(ps)
  <2>1. \A x : x \in Pieces <=>
          x \in Elements(ready) \/ \E u \in Threads : pc[u] = "queue" /\ x \in Elements(job[u].bufs)
    BY Zenon DEF Pieces
  <2>2. \A x : x \in Pieces' <=>
          x \in Elements(ready)' \/ \E u \in Threads : pc'[u] = "queue" /\ x \in Elements(job'[u].bufs)
    BY Zenon DEF Pieces
  <2>3. Elements(ready)' = Elements(ready)
    BY DEF Elements
  <2>4. pc[t] # "queue" /\ job'[t].bufs = ps
    OBVIOUS
  <2>5. \A x : x \in Pieces' <=> x \in Pieces \/ x \in Elements(ps)
    BY <1>3, <2>1, <2>2, <2>3, <2>4, Zenon
  <2> QED
    BY <2>5, Zenon
<1>5. \A b \in Elements(ps) : \E i \in 1 .. n : b = ps[i]
  BY <1>2 DEF Elements
<1>6. \A i \in 1 .. n : ps[i] \in Elements(ps)
  BY <1>2 DEF Elements
<1>7. \A b \in Pieces : b \in Buffer /\ b.start \in Nat /\ b.end \in Nat
  <2>1. \A b \in Pieces : b \in Buffer
    BY <1>2, ElementOfSeq DEF Pieces, Elements
  <2> QED
    BY <2>1, BufferFields
<1>8. \A i \in 1 .. n : ps[i].start \in Nat /\ ps[i].end \in Nat
  BY BufferFields, ElementOfSeq
<1>9. Chain'
  <2>1. ASSUME NEW b \in Pieces
        PROVE  /\ Whole(b) /\ readyStreamPos <= b.start /\ b.end <= q
               /\ b.end = q \/ \E c \in Pieces \cup Elements(ps) : c.start = b.end
    <3>1. /\ Whole(b) /\ readyStreamPos <= b.start /\ b.end <= readStreamPos
          /\ b.end = readStreamPos \/ \E c \in Pieces : c.start = b.end
      BY <1>1 DEF QueueInv, Chain
    <3>2. b.end <= q
      BY <1>2, <1>7, <3>1
    <3>3. CASE b.end = readStreamPos
      BY <1>2, <1>6, <3>1, <3>2, <3>3
    <3>4. CASE \E c \in Pieces : c.start = b.end
      BY <3>1, <3>2, <3>4
    <3> QED
      BY <3>1, <3>3, <3>4
  <2>2. ASSUME NEW i \in 1 .. n
        PROVE  /\ Whole(ps[i]) /\ readyStreamPos <= ps[i].start /\ ps[i].end <= q
               /\ ps[i].end = q \/ \E c \in Pieces \cup Elements(ps) : c.start = ps[i].end
    <3>0. Whole(ps[i]) /\ ps[i].start >= readStreamPos /\ ps[i].end <= q /\ ps[i].start \in Nat
      BY <1>8
    <3>1. Whole(ps[i]) /\ readyStreamPos <= ps[i].start /\ ps[i].end <= q
      BY <1>2, <3>0
    <3>2. CASE i = n
      BY <3>1, <3>2
    <3>3. CASE i # n
      <4>1. i \in 1 .. (n - 1) /\ i + 1 \in 1 .. n
        BY <3>3
      <4> QED
        BY <1>6, <3>1, <4>1
    <3> QED
      BY <3>2, <3>3
  <2>3. readyStreamPos = q \/ \E c \in Pieces \cup Elements(ps) : c.start = readyStreamPos
    <3>1. CASE readyStreamPos = readStreamPos
      BY <1>2, <1>6, <3>1
    <3>2. CASE \E c \in Pieces : c.start = readyStreamPos
      BY <3>2
    <3> QED
      BY <1>1, <3>1, <3>2 DEF QueueInv, Chain
  <2>4. \A b \in Pieces \cup Elements(ps) :
          /\ Whole(b) /\ readyStreamPos <= b.start /\ b.end <= q
          /\ b.end = q \/ \E c \in Pieces \cup Elements(ps) : c.start = b.end
    <3> HIDE DEF Pieces
    <3> QED
      BY <1>5, <2>1, <2>2
  <2> QED
    BY <1>4, <2>3, <2>4, Zenon DEF Chain
<1>10. \A b \in Pieces : b.end <= readStreamPos
  BY <1>1 DEF QueueInv, Chain
<1>11. \A j \in DOMAIN ready : ready[j].end <= ps[1].start
  <2>1. \A j \in DOMAIN ready : ready[j] \in Pieces
    BY DEF Pieces, Elements
  <2> QED
    BY <1>10, <2>1
<1>12. \A u \in Threads : pc[u] = "queue" => job[u].bufs[Len(job[u].bufs)].end <= ps[1].start
  <2> SUFFICES ASSUME NEW u \in Threads, pc[u] = "queue"
               PROVE  job[u].bufs[Len(job[u].bufs)].end <= ps[1].start
    OBVIOUS
  <2>1. job[u].bufs # <<>> /\ job[u].bufs \in Seq(Buffer)
    BY <1>1, <1>2 DEF QueueInv, Runs
  <2>2. Len(job[u].bufs) \in DOMAIN job[u].bufs
    BY <2>1
  <2>3. job[u].bufs[Len(job[u].bufs)] \in Elements(job[u].bufs)
    BY <2>2 DEF Elements
  <2>4. job[u].bufs[Len(job[u].bufs)] \in Pieces
    BY <2>3 DEF Pieces
  <2> QED
    BY <1>10, <2>4
<1>13. Runs'
  <2>1. Ordered(ready)'
    BY <1>1, Zenon DEF QueueInv, Runs
  <2>2. ASSUME NEW u \in Threads, pc'[u] = "queue"
        PROVE  /\ job'[u].bufs # <<>> /\ Ordered(job[u].bufs)'
               /\ \A j \in DOMAIN ready :
                     \/ ready[j].end <= job'[u].bufs[1].start
                     \/ job'[u].bufs[Len(job'[u].bufs)].end <= ready[j].start
    <3>1. CASE u = t
      <4>1. ps # <<>>
        OBVIOUS
      <4> QED
        BY <1>11, <3>1, <4>1 DEF Ordered
    <3>2. CASE u # t
      <4>1. pc[u] = "queue" /\ job'[u] = job[u]
        BY <1>3, <2>2, <3>2
      <4> QED
        BY <1>1, <4>1, Zenon DEF QueueInv, Runs, Ordered
    <3> QED
      BY <3>1, <3>2
  <2>3. ASSUME NEW u \in Threads, NEW v \in Threads, pc'[u] = "queue", pc'[v] = "queue", u # v
        PROVE  \/ job'[u].bufs[Len(job'[u].bufs)].end <= job'[v].bufs[1].start
               \/ job'[v].bufs[Len(job'[v].bufs)].end <= job'[u].bufs[1].start
    <3>1. CASE u = t
      <4>1. pc[v] = "queue" /\ job'[v] = job[v]
        BY <1>3, <2>3, <3>1
      <4> QED
        BY <1>12, <3>1, <4>1
    <3>2. CASE v = t
      <4>1. pc[u] = "queue" /\ job'[u] = job[u]
        BY <1>3, <2>3, <3>2
      <4> QED
        BY <1>12, <3>2, <4>1
    <3>3. CASE u # t /\ v # t
      <4>1. pc[u] = "queue" /\ job'[u] = job[u] /\ pc[v] = "queue" /\ job'[v] = job[v]
        BY <1>3, <2>3, <3>3
      <4> QED
        BY <1>1, <2>3, <4>1, Zenon DEF QueueInv, Runs
    <3> QED
      BY <3>1, <3>2, <3>3
  <2> QED
    BY <2>1, <2>2, <2>3, Zenon DEF Runs
<1>14. OneNotifier'
  BY <1>1, <1>3, Zenon DEF QueueInv, OneNotifier
<1>15. HeadWaits'
  BY <1>1 DEF QueueInv, HeadWaits
<1>16. Delivery'
  <2>1. \A u \in Threads : pc[u] = "callback" => job'[u] = job[u]
    <3>1. \A u \in Threads : pc[u] = "callback" => u # t
      OBVIOUS
    <3> QED
      BY <1>3, <3>1
  <2> QED
    BY <1>1, <1>3, <2>1, Zenon DEF QueueInv, Delivery, DeliveredInOrder
<1> QED
  BY <1>9, <1>13, <1>14, <1>15, <1>16 DEF QueueInv

(* RecvQueuePopCompleteBuffers                                             *)
LEMMA PopCompleteBuffersInv ==
  ASSUME RecvInv, NEW t \in Threads, PopCompleteBuffers(t)
  PROVE  RecvInv'
<1>1. RecvTypes /\ StreamInv /\ QueueInv
  BY DEF RecvInv
<1>2. PICK ack \in job[t].seen .. ackStreamPos :
        \E n \in 0 .. Len(buffers) :
        /\ pc[t] = "pop"
        /\ \A i \in 1 .. n : CanPop(i, ack, job[t].force)
        /\ n < Len(buffers) => ~CanPop(n + 1, ack, job[t].force)
        /\ buffers' = SubSeq(buffers, n + 1, Len(buffers))
        /\ readStreamPos' = IF n = 0 THEN readStreamPos ELSE buffers[n].end
        /\ job' = [job EXCEPT ![t] = [NoJob EXCEPT
                      !.bufs = [i \in 1 .. n |-> [buffers[i] EXCEPT !.start = PopStart(i)]]]]
        /\ pc' = [pc EXCEPT ![t] = IF n = 0 THEN "idle" ELSE "queue"]
        /\ UNCHANGED <<blockVars, endStreamPos, readyVars, recvTimer, delivered>>
  BY DEF PopCompleteBuffers
<1>3. PICK n \in 0 .. Len(buffers) :
        /\ pc[t] = "pop"
        /\ \A i \in 1 .. n : CanPop(i, ack, job[t].force)
        /\ n < Len(buffers) => ~CanPop(n + 1, ack, job[t].force)
        /\ buffers' = SubSeq(buffers, n + 1, Len(buffers))
        /\ readStreamPos' = IF n = 0 THEN readStreamPos ELSE buffers[n].end
        /\ job' = [job EXCEPT ![t] = [NoJob EXCEPT
                      !.bufs = [i \in 1 .. n |-> [buffers[i] EXCEPT !.start = PopStart(i)]]]]
        /\ pc' = [pc EXCEPT ![t] = IF n = 0 THEN "idle" ELSE "queue"]
        /\ UNCHANGED <<blockVars, endStreamPos, readyVars, recvTimer, delivered>>
  BY <1>2
<1> DEFINE q == IF n = 0 THEN readStreamPos ELSE buffers[n].end
           ps == Popped(readStreamPos, buffers, n)
           force == job[t].force
<1>4. /\ buffers \in Seq(Buffer) /\ readStreamPos \in Nat \ {0} /\ ackStreamPos \in Nat /\ endStreamPos \in Nat
      /\ ack \in Nat /\ ack <= ackStreamPos /\ force \in BOOLEAN
      /\ readStreamPos <= ackStreamPos /\ ackStreamPos <= endStreamPos
      /\ endStreamPos <= Space(readStreamPos, buffers)
      /\ Fits(readStreamPos, buffers, endStreamPos)
      /\ AllStored(readStreamPos, buffers, ackStreamPos)
  <2>1. job[t].seen \in Nat /\ force \in BOOLEAN /\ InitStreamPos \in Nat \ {0}
    BY <1>1, RecvQueueAssumption DEF RecvTypes, Job, RecvQueueAssumption
  <2> QED
    BY <1>1, <2>1 DEF RecvTypes, StreamInv, Positions, AckedStored, AllStored
<1>5. \A i : CanPop(i, ack, force) <=> Can(readStreamPos, buffers, endStreamPos, i, ack, force)
  BY Zenon DEF CanPop, Can, PopStart, From
<1>6. PopStops(readStreamPos, buffers, endStreamPos, n, ack, force)
  BY <1>3, <1>5 DEF PopStops
<1>7. q = IF n = 0 THEN readStreamPos ELSE buffers[n].end
  OBVIOUS
<1>8. readStreamPos' = q /\ buffers' = Rest(buffers, n)
  BY <1>3 DEF Rest
<1>9. job' = [job EXCEPT ![t] = [NoJob EXCEPT !.bufs = ps]]
  <2>1. \A i : PopStart(i) = From(readStreamPos, buffers, i)
    BY Zenon DEF PopStart, From
  <2>2. [i \in 1 .. n |-> [buffers[i] EXCEPT !.start = PopStart(i)]] = ps
    BY <2>1, Zenon DEF Popped, Restart
  <2> QED
    BY <1>3, <2>2
<1> HIDE DEF q, ps, force
<1>10. /\ Complete(readStreamPos, buffers, n, ackStreamPos)
       /\ q \in Nat /\ readStreamPos <= q /\ q <= ackStreamPos
       /\ Leaves(readStreamPos, buffers, endStreamPos, n, q)
  BY <1>4, <1>6, <1>7, PopPositions, SMTT(40)
<1>11. /\ Rest(buffers, n) \in Seq(Buffer)
       /\ Fits(q, Rest(buffers, n), endStreamPos) /\ endStreamPos <= Space(q, Rest(buffers, n))
       /\ \A p \in Nat : p >= q /\ p < endStreamPos /\ Stored(readStreamPos, buffers, p)
                         => Stored(q, Rest(buffers, n), p)
  <2>1. readStreamPos \in Nat
    BY <1>4
  <2> QED
    BY <1>4, <1>10, <2>1, PopLeaves
<1>12. /\ ps \in Seq(Buffer) /\ Len(ps) = n
       /\ \A i \in 1 .. n : Whole(ps[i]) /\ ps[i].end = buffers[i].end /\ ps[i].start >= readStreamPos
       /\ \A i \in 1 .. (n - 1) : ps[i + 1].start = ps[i].end
       /\ n > 0 => ps[1].start = readStreamPos
       /\ Ordered(ps)
  <2>1. ps = Popped(readStreamPos, buffers, n)
    BY DEF ps
  <2>2. RunFrom(readStreamPos, buffers, n, ps)
    BY <1>4, <1>10, <2>1, PoppedRun
  <2> QED
    BY <2>2 DEF RunFrom
<1>13. /\ pc' \in [Threads -> Label] /\ job' \in [Threads -> Job]
       /\ \A u \in Threads \ {t} : pc'[u] = pc[u] /\ job'[u] = job[u]
       /\ pc'[t] = IF n = 0 THEN "idle" ELSE "queue"
       /\ job'[t].bufs = ps
  <2>1. [NoJob EXCEPT !.bufs = ps] \in Job /\ [NoJob EXCEPT !.bufs = ps].bufs = ps
    BY <1>12, JobTypes DEF Job
  <2>2. pc \in [Threads -> Label] /\ job \in [Threads -> Job]
    BY <1>1 DEF RecvTypes
  <2>3. (IF n = 0 THEN "idle" ELSE "queue") \in Label
    BY DEF Label
  <2>4. pc' = [pc EXCEPT ![t] = IF n = 0 THEN "idle" ELSE "queue"]
    BY <1>3
  <2> QED
    BY <1>9, <2>1, <2>2, <2>3, <2>4
<1>14. UNCHANGED <<blockVars, endStreamPos, readyVars, recvTimer, delivered>> /\ pc[t] = "pop"
  BY <1>3
<1>15. RecvTypes'
  BY <1>1, <1>8, <1>10, <1>11, <1>13, <1>14 DEF RecvTypes, blockVars, readyVars
<1>16. StreamInv'
  <2>1. \A u \in Threads : pc'[u] = "update" => pc[u] = "update" /\ job'[u] = job[u]
    BY <1>13
  <2> QED
    BY <1>8, <1>10, <1>11, <1>14, <2>1, PopStream
<1>17. QueueInv'
  <2>1. CASE n = 0
    <3>1. UNCHANGED <<readyVars, readStreamPos, delivered>>
      BY <1>8, <1>14, <2>1 DEF q
    <3>2. \A u \in Threads :
            \/ pc'[u] = pc[u] /\ job'[u] = job[u]
            \/ /\ pc'[u] \notin {"queue", "notify", "callback"}
               /\ pc[u] \notin {"queue", "notify", "callback"}
      BY <1>13, <1>14, <2>1
    <3> QED
      BY <1>1, <3>1, <3>2, QueueFrame
  <2>2. CASE n # 0
    <3>1. n \in Nat \ {0} /\ n \in 1 .. n /\ n > 0 /\ n \in 1 .. Len(buffers)
      BY <2>2
    <3>2. ps[n].end = q
      BY <1>12, <2>2, <3>1 DEF q
    <3>3. \A i \in 1 .. n : ps[i].end <= q
      <4> SUFFICES ASSUME NEW i \in 1 .. n PROVE ps[i].end <= ps[n].end
        BY <3>2
      <4>1. CASE i = n
        BY <1>10, <3>2, <4>1
      <4>2. CASE i # n
        <5>1. i < n /\ i \in DOMAIN ps /\ n \in DOMAIN ps
          BY <1>12, <3>1, <4>2
        <5>2. ps[i].end <= ps[n].start /\ Whole(ps[n])
          BY <1>12, <3>1, <5>1 DEF Ordered
        <5>3. ps[i].end \in Nat /\ ps[n].start \in Nat /\ ps[n].end \in Nat
          BY <1>12, <5>1, BufferFields, ElementOfSeq
        <5> QED
          BY <5>2, <5>3 DEF Whole
      <4> QED
        BY <4>1, <4>2
    <3>4. \A i \in 1 .. n : Whole(ps[i]) /\ ps[i].start >= readStreamPos /\ ps[i].end <= q
      BY <1>12, <3>3
    <3>5. pc'[t] = "queue"
      BY <1>13, <2>2
    <3> QED
      BY <1>8, <1>10, <1>12, <1>13, <1>14, <3>1, <3>2, <3>4, <3>5, PopChain, ZenonT(60)
  <2> QED
    BY <2>1, <2>2
<1> QED
  BY <1>15, <1>16, <1>17 DEF RecvInv
-----------------------------------------------------------------------------
(* The ready queue                                                          *)

Inserted(w, at, ps) == SubSeq(w, 1, at) \o ps \o SubSeq(w, at + 1, Len(w))

(* What is where after buffers were queued behind the at-th one.           *)
LEMMA InsertedAt ==
  ASSUME NEW w \in Seq(Buffer), NEW ps \in Seq(Buffer), NEW at \in 0 .. Len(w), NEW v, v = Inserted(w, at, ps)
  PROVE  /\ v \in Seq(Buffer) /\ Len(v) = Len(w) + Len(ps)
         /\ \A k \in 1 .. at : v[k] = w[k]
         /\ \A k \in (at + 1) .. (at + Len(ps)) : v[k] = ps[k - at]
         /\ \A k \in (at + Len(ps) + 1) .. Len(v) : v[k] = w[k - Len(ps)]
         /\ Elements(v) = Elements(w) \cup Elements(ps)
<1>1. Len(w) \in Nat /\ Len(ps) \in Nat /\ at \in Nat /\ at <= Len(w)
  OBVIOUS
<1> DEFINE a == SubSeq(w, 1, at)
           z == SubSeq(w, at + 1, Len(w))
<1>2. a \in Seq(Buffer) /\ Len(a) = at /\ \A k \in 1 .. at : a[k] = w[k]
  BY <1>1
<1>3. z \in Seq(Buffer) /\ Len(z) = Len(w) - at /\ \A k \in 1 .. (Len(w) - at) : z[k] = w[at + k]
  BY <1>1
<1> HIDE DEF a, z
<1> DEFINE x == a \o ps
<1>4. /\ x \in Seq(Buffer) /\ Len(x) = at + Len(ps)
      /\ \A k \in 1 .. at : x[k] = w[k]
      /\ \A k \in (at + 1) .. (at + Len(ps)) : x[k] = ps[k - at]
  BY <1>1, <1>2
<1> HIDE DEF x
<1>5. v = x \o z
  BY DEF Inserted, x, a, z
<1>6. v \in Seq(Buffer) /\ Len(v) = Len(w) + Len(ps)
  <2>1. x \in Seq(Buffer) /\ z \in Seq(Buffer)
    BY <1>3, <1>4
  <2>2. x \o z \in Seq(Buffer) /\ Len(x \o z) = Len(x) + Len(z)
    BY <2>1, ConcatProperties
  <2> QED
    BY <1>1, <1>3, <1>4, <1>5, <2>2
<1>7. \A k \in 1 .. (at + Len(ps)) : v[k] = x[k]
  BY <1>1, <1>3, <1>4, <1>5
<1>8. \A k \in 1 .. at : v[k] = w[k]
  BY <1>1, <1>4, <1>7
<1>9. \A k \in (at + 1) .. (at + Len(ps)) : v[k] = ps[k - at]
  BY <1>1, <1>4, <1>7
<1>10. \A k \in (at + Len(ps) + 1) .. Len(v) : v[k] = w[k - Len(ps)]
  <2> SUFFICES ASSUME NEW k \in (at + Len(ps) + 1) .. Len(v) PROVE v[k] = w[k - Len(ps)]
    OBVIOUS
  <2>1. v[k] = z[k - Len(x)]
    BY <1>1, <1>3, <1>4, <1>5, <1>6, SMTT(40)
  <2>2. k - Len(x) \in 1 .. (Len(w) - at) /\ at + (k - Len(x)) = k - Len(ps)
    BY <1>1, <1>4, <1>6
  <2> QED
    BY <1>3, <2>1, <2>2
<1>11. Elements(v) = Elements(w) \cup Elements(ps)
  <2>0. DOMAIN v = 1 .. Len(v) /\ DOMAIN w = 1 .. Len(w) /\ DOMAIN ps = 1 .. Len(ps)
    BY <1>6
  <2>1. ASSUME NEW k \in 1 .. Len(v) PROVE v[k] \in Elements(w) \cup Elements(ps)
    <3>1. CASE k \in 1 .. at
      <4>1. k \in 1 .. Len(w)
        BY <1>1, <3>1
      <4> QED
        BY <1>8, <2>0, <3>1, <4>1 DEF Elements
    <3>2. CASE k \in (at + 1) .. (at + Len(ps))
      <4>1. k - at \in 1 .. Len(ps)
        BY <1>1, <3>2
      <4> QED
        BY <1>9, <2>0, <3>2, <4>1 DEF Elements
    <3>3. CASE k \in (at + Len(ps) + 1) .. Len(v)
      <4>1. k - Len(ps) \in 1 .. Len(w)
        BY <1>1, <1>6, <3>3
      <4> QED
        BY <1>10, <2>0, <3>3, <4>1 DEF Elements
    <3> QED
      BY <1>1, <1>6, <3>1, <3>2, <3>3
  <2>2. ASSUME NEW k \in 1 .. Len(w) PROVE w[k] \in Elements(v)
    <3>1. CASE k <= at
      <4>1. k \in 1 .. at /\ k \in 1 .. Len(v)
        BY <1>1, <1>6, <3>1
      <4> QED
        BY <1>8, <2>0, <4>1 DEF Elements
    <3>2. CASE k > at
      <4>1. /\ k + Len(ps) \in (at + Len(ps) + 1) .. Len(v) /\ k + Len(ps) \in 1 .. Len(v)
            /\ (k + Len(ps)) - Len(ps) = k
        BY <1>1, <1>6, <3>2
      <4>2. v[k + Len(ps)] = w[k]
        BY <1>10, <4>1
      <4> QED
        BY <2>0, <4>1, <4>2 DEF Elements
    <3> QED
      BY <1>1, <3>1, <3>2
  <2>3. ASSUME NEW k \in 1 .. Len(ps) PROVE ps[k] \in Elements(v)
    <3>1. at + k \in (at + 1) .. (at + Len(ps)) /\ at + k \in 1 .. Len(v) /\ (at + k) - at = k
      BY <1>1, <1>6
    <3>2. v[at + k] = ps[k]
      BY <1>9, <3>1
    <3> QED
      BY <2>0, <3>1, <3>2 DEF Elements
  <2>4. Elements(v) \subseteq Elements(w) \cup Elements(ps)
    BY <2>0, <2>1 DEF Elements
  <2>5. Elements(w) \subseteq Elements(v) /\ Elements(ps) \subseteq Elements(v)
    BY <2>0, <2>2, <2>3 DEF Elements
  <2> QED
    BY <2>4, <2>5
<1> QED
  BY <1>6, <1>8, <1>9, <1>10, <1>11

AllWhole(bs) == \A b \in Elements(bs) : Whole(b)

(* No buffer of w lies inside the run ps.                                  *)
Outside(w, ps) == \A j \in DOMAIN w : w[j].end <= ps[1].start \/ ps[Len(ps)].end <= w[j].start

(* A run lies between the start of its first buffer and the end of its     *)
(* last one.                                                               *)
LEMMA RunBounds ==
  ASSUME NEW ps \in Seq(Buffer), ps # <<>>, Ordered(ps), AllWhole(ps), NEW k \in DOMAIN ps
  PROVE  /\ ps[1].start <= ps[k].start /\ ps[k].end <= ps[Len(ps)].end
         /\ ps[1].start \in Nat /\ ps[k].start \in Nat /\ ps[k].end \in Nat /\ ps[Len(ps)].end \in Nat
         /\ ps[k].start < ps[k].end
<1> USE DEF AllWhole
<1>1. /\ Len(ps) \in Nat \ {0} /\ DOMAIN ps = 1 .. Len(ps) /\ 1 \in DOMAIN ps /\ Len(ps) \in DOMAIN ps
  OBVIOUS
<1>2. \A i \in DOMAIN ps : ps[i].start \in Nat /\ ps[i].end \in Nat
  BY BufferFields, ElementOfSeq
<1>3. \A i \in DOMAIN ps : ps[i].start < ps[i].end
  BY DEF Elements, Whole
<1>4. k = 1 \/ ps[1].end <= ps[k].start
  BY <1>1 DEF Ordered
<1>5. k = Len(ps) \/ ps[k].end <= ps[Len(ps)].start
  BY <1>1 DEF Ordered
<1>6. ps[1].start <= ps[k].start
  BY <1>1, <1>2, <1>3, <1>4
<1>7. ps[k].end <= ps[Len(ps)].end
  BY <1>1, <1>2, <1>3, <1>5
<1> QED
  BY <1>1, <1>2, <1>3, <1>6, <1>7

(* A run that no queued buffer lies in is queued behind the last buffer    *)
(* that ends before it.                                                    *)
Behind(w, at, ps) ==
    /\ at > 0 => ps[1].start >= w[at].end
    /\ \A j \in (at + 1) .. Len(w) : ps[1].start < w[j].end

(* There is such a place.                                                  *)
LEMMA PlaceExists ==
  ASSUME NEW w \in Seq(Buffer), NEW ps \in Seq(Buffer), ps # <<>>
  PROVE  \E at \in 0 .. Len(w) : Behind(w, at, ps)
<1> DEFINE S == {n \in 0 .. Len(w) : n < Len(w) => ps[1].start >= w[Len(w) - n].end}
<1>1. Len(w) \in Nat /\ Len(w) \in 0 .. Len(w)
  OBVIOUS
<1>2. S \in SUBSET Nat /\ Len(w) \in S
  BY <1>1
<1>3. PICK n \in S : \A m \in S : n <= m
  BY <1>2, Least
<1>4. n \in 0 .. Len(w) /\ Len(w) - n \in 0 .. Len(w) /\ Len(w) - n > 0 => ps[1].start >= w[Len(w) - n].end
  BY <1>1, <1>3
<1>5. ASSUME NEW j \in (Len(w) - n + 1) .. Len(w) PROVE ps[1].start < w[j].end
  <2>1. /\ Len(w) - j \in 0 .. Len(w) /\ Len(w) - j < n /\ Len(w) - (Len(w) - j) = j /\ Len(w) - j < Len(w)
        /\ j \in 1 .. Len(w)
    BY <1>1, <1>4
  <2>2. Len(w) - j \notin S
    BY <1>1, <1>3, <1>4, <2>1
  <2>3. ~(ps[1].start >= w[j].end)
    BY <2>1, <2>2
  <2>4. ps[1].start \in Nat /\ w[j].end \in Nat
    <3>1. 1 \in 1 .. Len(ps)
      OBVIOUS
    <3> QED
      BY <2>1, <3>1, BufferFields, ElementOfSeq
  <2> QED
    BY <2>3, <2>4
<1>6. Behind(w, Len(w) - n, ps)
  BY <1>3, <1>4, <1>5 DEF Behind
<1> QED
  BY <1>1, <1>4, <1>6
(* PackageConnectionNotifyRecvReadyBuffers keeps the queue in order.       *)
LEMMA InsertedOrdered ==
  ASSUME NEW w \in Seq(Buffer), NEW ps \in Seq(Buffer), ps # <<>>, NEW at \in 0 .. Len(w), Behind(w, at, ps),
         Ordered(w), Ordered(ps), AllWhole(w), AllWhole(ps), Outside(w, ps),
         NEW v, v = Inserted(w, at, ps)
  PROVE  Ordered(v)
<1> USE DEF AllWhole, Outside
<1>1. /\ v \in Seq(Buffer) /\ Len(v) = Len(w) + Len(ps)
      /\ \A k \in 1 .. at : v[k] = w[k]
      /\ \A k \in (at + 1) .. (at + Len(ps)) : v[k] = ps[k - at]
      /\ \A k \in (at + Len(ps) + 1) .. Len(v) : v[k] = w[k - Len(ps)]
  BY InsertedAt
<1>2. /\ Len(w) \in Nat /\ Len(ps) \in Nat \ {0} /\ at \in Nat /\ at <= Len(w)
      /\ DOMAIN w = 1 .. Len(w) /\ DOMAIN ps = 1 .. Len(ps) /\ DOMAIN v = 1 .. Len(v)
  BY <1>1
<1>3. /\ \A j \in 1 .. Len(w) : w[j].start \in Nat /\ w[j].end \in Nat /\ w[j].start < w[j].end
      /\ ps[1].start \in Nat /\ ps[Len(ps)].end \in Nat
  <2>1. \A j \in 1 .. Len(w) : w[j].start \in Nat /\ w[j].end \in Nat
    BY BufferFields, ElementOfSeq
  <2>2. \A j \in 1 .. Len(w) : w[j].start < w[j].end
    BY <1>2 DEF Elements, Whole
  <2>3. 1 \in 1 .. Len(ps) /\ Len(ps) \in 1 .. Len(ps)
    BY <1>2
  <2>4. ps[1].start \in Nat /\ ps[Len(ps)].end \in Nat
    BY <2>3, BufferFields, ElementOfSeq
  <2> QED
    BY <2>1, <2>2, <2>4
<1>4. \A k \in 1 .. Len(ps) : /\ ps[1].start <= ps[k].start /\ ps[k].end <= ps[Len(ps)].end
                              /\ ps[k].start \in Nat /\ ps[k].end \in Nat
  <2> HIDE DEF AllWhole
  <2> QED
    BY <1>2, RunBounds
<1>5. \A i \in 1 .. at : w[i].end <= ps[1].start
  <2> SUFFICES ASSUME NEW i \in 1 .. at PROVE w[i].end <= ps[1].start
    OBVIOUS
  <2>1. i \in 1 .. Len(w) /\ at \in 1 .. Len(w) /\ at > 0 /\ i <= at
    BY <1>2
  <2>2. w[at].end <= ps[1].start
    BY <1>3, <2>1 DEF Behind
  <2>3. i = at \/ w[i].end <= w[at].start
    BY <1>2, <2>1 DEF Ordered
  <2> QED
    BY <1>3, <2>1, <2>2, <2>3
<1>6. \A j \in (at + 1) .. Len(w) : ps[Len(ps)].end <= w[j].start
  <2> SUFFICES ASSUME NEW j \in (at + 1) .. Len(w) PROVE ps[Len(ps)].end <= w[j].start
    OBVIOUS
  <2>1. j \in 1 .. Len(w)
    BY <1>2
  <2>2. ps[1].start < w[j].end
    BY DEF Behind
  <2>3. w[j].end <= ps[1].start \/ ps[Len(ps)].end <= w[j].start
    BY <1>2, <2>1
  <2> QED
    BY <1>3, <2>1, <2>2, <2>3
<1> SUFFICES ASSUME NEW i \in 1 .. Len(v), NEW j \in 1 .. Len(v), i < j PROVE v[i].end <= v[j].start
  BY <1>2 DEF Ordered
<1>7. CASE j \in 1 .. at
  <2>1. i \in 1 .. at /\ i \in 1 .. Len(w) /\ j \in 1 .. Len(w)
    BY <1>2, <1>7
  <2> QED
    BY <1>1, <1>2, <1>7, <2>1 DEF Ordered
<1>8. CASE i \in 1 .. at /\ j \in (at + 1) .. (at + Len(ps))
  <2>1. j - at \in 1 .. Len(ps) /\ i \in 1 .. Len(w)
    BY <1>2, <1>8
  <2>2. v[i] = w[i] /\ v[j] = ps[j - at]
    BY <1>1, <1>8
  <2>3. w[i].end <= ps[1].start /\ ps[1].start <= ps[j - at].start /\ w[i].end \in Nat /\ ps[j - at].start \in Nat
    BY <1>3, <1>4, <1>5, <1>8, <2>1
  <2> QED
    BY <1>3, <2>2, <2>3, SMTT(40)
<1>9. CASE i \in 1 .. at /\ j \in (at + Len(ps) + 1) .. Len(v)
  <2>1. j - Len(ps) \in 1 .. Len(w) /\ i \in 1 .. Len(w) /\ i < j - Len(ps)
    BY <1>1, <1>2, <1>9
  <2>2. v[i] = w[i] /\ v[j] = w[j - Len(ps)]
    BY <1>1, <1>9
  <2> QED
    BY <1>2, <2>1, <2>2 DEF Ordered
<1>10. CASE i \in (at + 1) .. (at + Len(ps)) /\ j \in (at + 1) .. (at + Len(ps))
  <2>1. i - at \in 1 .. Len(ps) /\ j - at \in 1 .. Len(ps) /\ i - at < j - at
    BY <1>2, <1>10
  <2>2. v[i] = ps[i - at] /\ v[j] = ps[j - at]
    BY <1>1, <1>10
  <2> QED
    BY <1>2, <2>1, <2>2 DEF Ordered
<1>11. CASE i \in (at + 1) .. (at + Len(ps)) /\ j \in (at + Len(ps) + 1) .. Len(v)
  <2>1. i - at \in 1 .. Len(ps) /\ j - Len(ps) \in (at + 1) .. Len(w) /\ j - Len(ps) \in 1 .. Len(w)
    BY <1>1, <1>2, <1>11
  <2>2. v[i] = ps[i - at] /\ v[j] = w[j - Len(ps)]
    BY <1>1, <1>11
  <2>3. /\ ps[i - at].end <= ps[Len(ps)].end /\ ps[Len(ps)].end <= w[j - Len(ps)].start
        /\ ps[i - at].end \in Nat /\ w[j - Len(ps)].start \in Nat
    BY <1>3, <1>4, <1>6, <2>1
  <2> QED
    BY <1>3, <2>2, <2>3, SMTT(40)
<1>12. CASE i \in (at + Len(ps) + 1) .. Len(v)
  <2>1. /\ j \in (at + Len(ps) + 1) .. Len(v)
        /\ i - Len(ps) \in 1 .. Len(w) /\ j - Len(ps) \in 1 .. Len(w) /\ i - Len(ps) < j - Len(ps)
    BY <1>1, <1>2, <1>12
  <2>2. v[i] = w[i - Len(ps)] /\ v[j] = w[j - Len(ps)]
    BY <1>1, <1>12, <2>1
  <2> QED
    BY <1>2, <2>1, <2>2 DEF Ordered
<1>13. \/ j \in 1 .. at
       \/ i \in 1 .. at /\ j \in (at + 1) .. (at + Len(ps))
       \/ i \in 1 .. at /\ j \in (at + Len(ps) + 1) .. Len(v)
       \/ i \in (at + 1) .. (at + Len(ps)) /\ j \in (at + 1) .. (at + Len(ps))
       \/ i \in (at + 1) .. (at + Len(ps)) /\ j \in (at + Len(ps) + 1) .. Len(v)
       \/ i \in (at + Len(ps) + 1) .. Len(v)
  BY <1>1, <1>2
<1> QED
  BY <1>7, <1>8, <1>9, <1>10, <1>11, <1>12, <1>13
(* The buffers of a piece of the chain are whole.                          *)
LEMMA PiecesWhole ==
  ASSUME RecvInv
  PROVE  /\ AllWhole(ready)
         /\ \A u \in Threads : pc[u] = "queue" => /\ AllWhole(job[u].bufs) /\ job[u].bufs # <<>>
                                                  /\ Ordered(job[u].bufs) /\ Outside(ready, job[u].bufs)
<1>1. \A b \in Pieces : Whole(b)
  BY Zenon DEF RecvInv, QueueInv, Chain
<1>2. Elements(ready) \subseteq Pieces /\ \A u \in Threads : pc[u] = "queue" => Elements(job[u].bufs) \subseteq Pieces
  BY Zenon DEF Pieces
<1>3. AllWhole(ready) /\ \A u \in Threads : pc[u] = "queue" => AllWhole(job[u].bufs)
  BY <1>1, <1>2, Zenon DEF AllWhole
<1>4. \A u \in Threads : pc[u] = "queue" => job[u].bufs # <<>> /\ Ordered(job[u].bufs) /\ Outside(ready, job[u].bufs)
  BY Zenon DEF RecvInv, QueueInv, Runs, Outside
<1> QED
  BY <1>3, <1>4

(* PackageConnectionNotifyRecvReadyBuffers, first part                     *)
LEMMA QueueReadyInv ==
  ASSUME RecvInv, NEW t \in Threads, QueueReady(t)
  PROVE  RecvInv'
<1> DEFINE ps == job[t].bufs
           Good(i) == /\ i > 0 => ps[1].start >= ready[i].end
                      /\ \A j \in (i + 1) .. Len(ready) : ps[1].start < ready[j].end
           at == CHOOSE i \in 0 .. Len(ready) : Good(i)
<1>1. RecvTypes /\ StreamInv /\ QueueInv
  BY DEF RecvInv
<1>2. /\ pc[t] = "queue"
      /\ ready' = Inserted(ready, at, ps)
      /\ onNotifying' = TRUE
      /\ pc' = [pc EXCEPT ![t] = IF onNotifying THEN "idle" ELSE "notify"]
      /\ job' = [job EXCEPT ![t] = NoJob]
      /\ UNCHANGED <<blockVars, streamVars, readyStreamPos, recvTimer, delivered>>
  BY DEF QueueReady, Inserted
<1>3. ready \in Seq(Buffer) /\ ps \in Seq(Buffer) /\ pc \in [Threads -> Label] /\ job \in [Threads -> Job]
      /\ \A u \in Threads : job[u].bufs \in Seq(Buffer)
  BY <1>1 DEF RecvTypes, Job
<1>4. AllWhole(ready) /\ AllWhole(ps) /\ ps # <<>> /\ Ordered(ps) /\ Outside(ready, ps)
  BY <1>2, PiecesWhole
<1>5. at \in 0 .. Len(ready) /\ Behind(ready, at, ps)
  <2>1. \E i \in 0 .. Len(ready) : Behind(ready, i, ps)
    BY <1>3, <1>4, PlaceExists
  <2>2. \A i : Good(i) <=> Behind(ready, i, ps)
    BY Zenon DEF Behind
  <2> HIDE DEF Good
  <2>3. at \in 0 .. Len(ready) /\ Good(at)
    BY <2>1, <2>2, Zenon
  <2> QED
    BY <2>2, <2>3
<1> HIDE DEF ps, at
<1>6. ready' \in Seq(Buffer) /\ Elements(ready') = Elements(ready) \cup Elements(ps)
  BY <1>2, <1>3, <1>5, InsertedAt
<1>7. Ordered(ready')
  <2>1. Ordered(ready)
    BY <1>1 DEF QueueInv, Runs
  <2> QED
    BY <1>2, <1>3, <1>4, <1>5, <2>1, InsertedOrdered
<1>8. /\ pc' \in [Threads -> Label] /\ job' \in [Threads -> Job]
      /\ \A u \in Threads \ {t} : pc'[u] = pc[u] /\ job'[u] = job[u]
      /\ pc'[t] = IF onNotifying THEN "idle" ELSE "notify"
  BY <1>2, <1>3, JobTypes DEF Label
<1>9. RecvTypes'
  BY <1>1, <1>2, <1>6, <1>8 DEF RecvTypes, blockVars, streamVars
<1>10. StreamInv'
  <2>1. \A u \in Threads : pc'[u] = "update" => pc[u] = "update" /\ job'[u] = job[u]
    BY <1>8
  <2>2. InitStreamPos <= readyStreamPos' /\ readyStreamPos' <= readStreamPos
    BY <1>1, <1>2 DEF StreamInv, Positions
  <2> QED
    BY <1>1, <1>2, <2>1, <2>2, StreamFrame
<1>11. \A u \in Threads : (pc'[u] = "queue" <=> (pc[u] = "queue" /\ u # t)) /\ (u # t => job'[u] = job[u])
  BY <1>2, <1>8
<1>12. Pieces' = Pieces
  <2>1. \A x : x \in Pieces <=>
          x \in Elements(ready) \/ \E u \in Threads : pc[u] = "queue" /\ x \in Elements(job[u].bufs)
    BY Zenon DEF Pieces
  <2>2. \A x : x \in Pieces' <=>
          x \in Elements(ready') \/ \E u \in Threads : pc'[u] = "queue" /\ x \in Elements(job'[u].bufs)
    BY Zenon DEF Pieces
  <2>3. \A x : x \in Elements(ready') <=> x \in Elements(ready) \/ x \in Elements(job[t].bufs)
    BY <1>6 DEF ps
  <2>4. \A x : x \in Pieces' <=> x \in Pieces
    BY <1>2, <1>11, <2>1, <2>2, <2>3, Zenon
  <2> QED
    BY <2>4, Zenon
<1>13. Chain'
  <2>1. readyStreamPos' = readyStreamPos /\ readStreamPos' = readStreamPos
    BY <1>2 DEF streamVars
  <2> QED
    BY <1>1, <1>12, <2>1, Zenon DEF QueueInv, Chain
<1>14. Runs'
  <2>1. ASSUME NEW u \in Threads, pc'[u] = "queue"
        PROVE  /\ job'[u].bufs # <<>> /\ Ordered(job'[u].bufs)
               /\ Outside(ready', job'[u].bufs)
    <3>1. pc[u] = "queue" /\ u # t /\ job'[u] = job[u]
      BY <1>11, <2>1
    <3>2. job[u].bufs # <<>> /\ Ordered(job[u].bufs) /\ Outside(ready, job[u].bufs)
      BY <3>1, PiecesWhole
    <3>3. ASSUME NEW b \in Elements(ready')
          PROVE  b.end <= job[u].bufs[1].start \/ job[u].bufs[Len(job[u].bufs)].end <= b.start
      <4>1. CASE b \in Elements(ready)
        BY <3>2, <4>1, Zenon DEF Outside, Elements
      <4>2. CASE b \in Elements(ps)
        <5>1. PICK k \in DOMAIN ps : b = ps[k]
          BY <4>2 DEF Elements
        <5>2. /\ ps[1].start <= ps[k].start /\ ps[k].end <= ps[Len(ps)].end
              /\ ps[1].start \in Nat /\ ps[k].start \in Nat /\ ps[k].end \in Nat /\ ps[Len(ps)].end \in Nat
          BY <1>3, <1>4, <5>1, RunBounds
        <5>3. \/ ps[Len(ps)].end <= job[u].bufs[1].start
              \/ job[u].bufs[Len(job[u].bufs)].end <= ps[1].start
          BY <1>1, <1>2, <3>1, Zenon DEF QueueInv, Runs, ps
        <5>4. job[u].bufs[1].start \in Nat /\ job[u].bufs[Len(job[u].bufs)].end \in Nat
          <6>1. 1 \in 1 .. Len(job[u].bufs) /\ Len(job[u].bufs) \in 1 .. Len(job[u].bufs) /\ job[u].bufs \in Seq(Buffer)
            BY <1>3, <3>2
          <6> QED
            BY <6>1, BufferFields, ElementOfSeq
        <5> DEFINE first == job[u].bufs[1].start
                   last == job[u].bufs[Len(job[u].bufs)].end
                   lo == ps[1].start
                   hi == ps[Len(ps)].end
                   start == ps[k].start
                   end == ps[k].end
        <5>5. /\ lo <= start /\ end <= hi /\ (hi <= first \/ last <= lo)
              /\ {first, last, lo, hi, start, end} \subseteq Nat
          BY <5>2, <5>3, <5>4
        <5> HIDE DEF first, last, lo, hi, start, end
        <5>6. end <= first \/ last <= start
          BY <5>5
        <5> QED
          BY <5>1, <5>6 DEF first, last, start, end
      <4> QED
        BY <1>6, <4>1, <4>2
    <3>4. Outside(ready', job[u].bufs)
      BY <3>3, Zenon DEF Outside, Elements
    <3> QED
      BY <3>1, <3>2, <3>4
  <2>2. ASSUME NEW u \in Threads, NEW v \in Threads, pc'[u] = "queue", pc'[v] = "queue", u # v
        PROVE  \/ job'[u].bufs[Len(job'[u].bufs)].end <= job'[v].bufs[1].start
               \/ job'[v].bufs[Len(job'[v].bufs)].end <= job'[u].bufs[1].start
    <3>1. pc[u] = "queue" /\ job'[u] = job[u] /\ pc[v] = "queue" /\ job'[v] = job[v]
      BY <1>11, <2>2
    <3> QED
      BY <1>1, <2>2, <3>1, Zenon DEF QueueInv, Runs
  <2> QED
    BY <1>7, <2>1, <2>2, Zenon DEF Runs, Outside
<1>15. OneNotifier'
  <2>1. \A u \in Threads \ {t} : Notifying(u)' <=> Notifying(u)
    BY <1>8 DEF Notifying
  <2>2. ~Notifying(t) /\ (Notifying(t)' <=> ~onNotifying)
    BY <1>1, <1>2, <1>8 DEF Notifying, RecvTypes
  <2>3. /\ \A u, v \in Threads : Notifying(u) /\ Notifying(v) => u = v
        /\ onNotifying <=> \E u \in Threads : Notifying(u)
    BY <1>1 DEF QueueInv, OneNotifier
  <2>4. /\ \A u, v \in Threads : Notifying(u)' /\ Notifying(v)' => u = v
        /\ \E u \in Threads : Notifying(u)'
    BY <2>1, <2>2, <2>3, Zenon
  <2> QED
    BY <1>2, <2>4, Zenon DEF OneNotifier
<1>16. HeadWaits'
  BY <1>2 DEF HeadWaits
<1>17. Delivery'
  <2>1. \A u \in Threads : (pc'[u] = "callback" <=> pc[u] = "callback") /\ (pc[u] = "callback" => job'[u] = job[u])
    BY <1>2, <1>8
  <2> QED
    BY <1>1, <1>2, <2>1, Zenon DEF QueueInv, Delivery, DeliveredInOrder
<1> QED
  BY <1>9, <1>10, <1>13, <1>14, <1>15, <1>16, <1>17 DEF RecvInv, QueueInv
(* The pieces stay as they are when no buffer is popped, queued or taken.  *)
LEMMA PiecesFrame ==
  ASSUME Chain, Runs, UNCHANGED <<ready, readyStreamPos, readStreamPos>>,
         \A u \in Threads : /\ (pc'[u] = "queue") <=> (pc[u] = "queue")
                            /\ pc[u] = "queue" => job'[u] = job[u]
  PROVE  Chain' /\ Runs'
<1>1. Pieces' = Pieces
  <2>1. {u \in Threads : pc[u] = "queue"}' = {u \in Threads : pc[u] = "queue"}
    OBVIOUS
  <2>2. \A u \in {v \in Threads : pc[v] = "queue"} : Elements(job[u].bufs)' = Elements(job[u].bufs)
    BY DEF Elements
  <2>3. Elements(ready)' = Elements(ready)
    BY DEF Elements
  <2> QED
    BY <2>1, <2>2, <2>3, Zenon DEF Pieces
<1>2. Chain'
  BY <1>1, Zenon DEF Chain
<1>3. Runs'
  BY Zenon DEF Runs
<1> QED
  BY <1>2, <1>3

(* The receive callback                                                    *)
LEMMA CallbackInv ==
  ASSUME RecvInv, NEW t \in Threads, Callback(t)
  PROVE  RecvInv'
<1> DEFINE b == job[t].bufs[1]
           n == b.end - b.start
           d == [i \in 1 .. n |-> b.data[i - 1]]
<1>1. RecvTypes /\ StreamInv /\ QueueInv
  BY DEF RecvInv
<1>2. /\ pc[t] = "callback"
      /\ delivered' = delivered \o d
      /\ pc' = [pc EXCEPT ![t] = "notify"]
      /\ job' = [job EXCEPT ![t] = NoJob]
      /\ UNCHANGED <<blockVars, streamVars, readyVars, recvTimer>>
  BY DEF Callback
<1>3. /\ pc' \in [Threads -> Label] /\ job' \in [Threads -> Job]
      /\ \A u \in Threads \ {t} : pc'[u] = pc[u] /\ job'[u] = job[u]
      /\ pc'[t] = "notify"
  <2>1. pc \in [Threads -> Label] /\ job \in [Threads -> Job]
    BY <1>1 DEF RecvTypes
  <2>2. NoJob \in Job
    BY JobTypes
  <2>3. "notify" \in Label
    BY DEF Label
  <2>4. pc' \in [Threads -> Label] /\ job' \in [Threads -> Job]
    BY <1>2, <2>1, <2>2, <2>3
  <2> QED
    BY <1>2, <2>1, <2>4
<1>4. /\ job[t].bufs # <<>> /\ Whole(b) /\ b.start = InitStreamPos + Len(delivered) /\ b.end = readyStreamPos
      /\ job[t].bufs \in Seq(Buffer) /\ delivered \in Seq(Nat) /\ InitStreamPos \in Nat
  BY <1>1, <1>2, RecvQueueAssumption DEF QueueInv, Delivery, RecvTypes, Job, RecvQueueAssumption
<1>5. b.start \in Nat /\ b.end \in Nat /\ b.start < b.end /\ n \in Nat /\ Len(delivered) \in Nat
  <2>1. 1 \in 1 .. Len(job[t].bufs)
    BY <1>4
  <2>2. b \in Buffer
    BY <1>4, <2>1, ElementOfSeq
  <2>3. b.start \in Nat /\ b.end \in Nat /\ b.start < b.end
    BY <1>4, <2>2, BufferFields DEF Whole
  <2> QED
    BY <1>4, <2>3
<1>6. \A i \in 1 .. n : d[i] = InitStreamPos + Len(delivered) + i - 1
  <2> SUFFICES ASSUME NEW i \in 1 .. n PROVE b.data[i - 1] = InitStreamPos + Len(delivered) + i - 1
    OBVIOUS
  <2>1. i - 1 \in 0 .. (b.end - b.start - 1)
    BY <1>5
  <2>2. b.data[i - 1] = b.start + (i - 1)
    BY <1>4, <2>1 DEF Whole
  <2> QED
    BY <1>4, <1>5, <2>2
<1> HIDE DEF b, n
<1>7. d \in Seq(Nat) /\ Len(d) = n /\ DOMAIN d = 1 .. n
  <2>1. \A i \in 1 .. n : d[i] \in Nat
    BY <1>4, <1>5, <1>6
  <2>2. d \in [1 .. n -> Nat]
    BY <2>1
  <2> QED
    BY <1>5, <2>2
<1> HIDE DEF d
<1>8. /\ delivered' \in Seq(Nat) /\ Len(delivered') = Len(delivered) + n
      /\ \A i \in 1 .. Len(delivered) : delivered'[i] = delivered[i]
      /\ \A i \in (Len(delivered) + 1) .. (Len(delivered) + n) : delivered'[i] = d[i - Len(delivered)]
  <2>1. delivered \in Seq(Nat) /\ d \in Seq(Nat)
    BY <1>4, <1>7
  <2>2. /\ delivered \o d \in Seq(Nat) /\ Len(delivered \o d) = Len(delivered) + Len(d)
        /\ \A i \in 1 .. (Len(delivered) + Len(d)) :
              (delivered \o d)[i] = IF i <= Len(delivered) THEN delivered[i] ELSE d[i - Len(delivered)]
    BY <2>1, ConcatProperties
  <2> QED
    BY <1>2, <1>5, <1>7, <2>2
<1>9. RecvTypes'
  BY <1>1, <1>2, <1>3, <1>8 DEF RecvTypes, blockVars, streamVars, readyVars
<1>10. StreamInv'
  <2>1. \A u \in Threads : pc'[u] = "update" => pc[u] = "update" /\ job'[u] = job[u]
    BY <1>3
  <2>2. InitStreamPos <= readyStreamPos' /\ readyStreamPos' <= readStreamPos
    BY <1>1, <1>2 DEF StreamInv, Positions, readyVars
  <2> QED
    BY <1>1, <1>2, <2>1, <2>2, StreamFrame
<1>11. Chain' /\ Runs'
  <2>1. \A u \in Threads : /\ (pc'[u] = "queue") <=> (pc[u] = "queue")
                           /\ pc[u] = "queue" => job'[u] = job[u]
    BY <1>2, <1>3
  <2>2. UNCHANGED <<ready, readyStreamPos, readStreamPos>>
    BY <1>2 DEF readyVars, streamVars
  <2> QED
    BY <1>1, <2>1, <2>2, PiecesFrame DEF QueueInv
<1>12. OneNotifier'
  <2>1. \A u \in Threads : Notifying(u)' <=> Notifying(u)
    BY <1>2, <1>3 DEF Notifying
  <2> QED
    BY <1>1, <1>2, <2>1, Zenon DEF QueueInv, OneNotifier, readyVars
<1>13. HeadWaits'
  BY <1>1, <1>2 DEF QueueInv, HeadWaits, readyVars
<1>14. DeliveredInOrder'
  <2> SUFFICES ASSUME NEW i \in 1 .. Len(delivered') PROVE delivered'[i] = InitStreamPos + i - 1
    BY <1>8 DEF DeliveredInOrder
  <2>1. CASE i \in 1 .. Len(delivered)
    <3>1. i \in DOMAIN delivered
      BY <1>4, <2>1
    <3>2. delivered[i] = InitStreamPos + i - 1
      BY <1>1, <3>1 DEF QueueInv, Delivery, DeliveredInOrder
    <3> QED
      BY <1>8, <2>1, <3>2
  <2>2. CASE i \in (Len(delivered) + 1) .. (Len(delivered) + n)
    <3>1. i - Len(delivered) \in 1 .. n
      BY <1>5, <2>2
    <3>2. delivered'[i] = InitStreamPos + Len(delivered) + (i - Len(delivered)) - 1
      BY <1>6, <1>8, <2>2, <3>1
    <3> QED
      BY <1>4, <1>5, <2>2, <3>2
  <2> QED
    BY <1>5, <1>8, <2>1, <2>2
<1>15. Delivery'
  <2>1. \A u \in Threads : pc'[u] # "callback"
    <3>1. \A u \in Threads \ {t} : pc[u] # "callback"
      BY <1>1, <1>2 DEF QueueInv, OneNotifier, Notifying
    <3> QED
      BY <1>3, <3>1
  <2>2. readyStreamPos' = InitStreamPos + Len(delivered')
    <3>1. readyStreamPos' = readyStreamPos /\ n = b.end - b.start
      BY <1>2 DEF readyVars, n
    <3> QED
      BY <1>4, <1>5, <1>8, <3>1
  <2> QED
    BY <1>14, <2>1, <2>2 DEF Delivery
<1> QED
  BY <1>9, <1>10, <1>11, <1>12, <1>13, <1>15 DEF RecvInv, QueueInv
(* The buffer the stream continues with is taken off the ready queue: all  *)
(* other pieces lie behind it.                                             *)
LEMMA TakeNextQueue ==
  ASSUME RecvInv, NEW t \in Threads, NEW b \in Buffer, ready # <<>>, b = ready[1], b.start = readyStreamPos,
         pc[t] = "notify", pc'[t] = "callback", job'[t].bufs = <<b>>,
         \A u \in Threads \ {t} : pc'[u] = pc[u] /\ job'[u] = job[u],
         ready' = Tail(ready), readyStreamPos' = b.end,
         UNCHANGED <<onNotifying, readStreamPos, delivered>>
  PROVE  QueueInv' /\ readyStreamPos <= b.end /\ b.end <= readStreamPos
<1>1. RecvTypes /\ StreamInv /\ QueueInv
  BY DEF RecvInv
<1>2. /\ ready \in Seq(Buffer) /\ \A u \in Threads : job[u].bufs \in Seq(Buffer)
      /\ readyStreamPos \in Nat /\ readStreamPos \in Nat
      /\ b.start \in Nat /\ b.end \in Nat
  BY <1>1, BufferFields DEF RecvTypes, Job
<1>3. /\ ready' \in Seq(Buffer) /\ Len(ready') = Len(ready) - 1 /\ Len(ready) \in Nat \ {0}
      /\ DOMAIN ready = 1 .. Len(ready) /\ DOMAIN ready' = 1 .. (Len(ready) - 1)
      /\ \A i \in 1 .. (Len(ready) - 1) : ready'[i] = ready[i + 1]
      /\ \A i \in 1 .. (Len(ready) - 1) : i + 1 \in DOMAIN ready /\ 1 < i + 1
      /\ 1 \in DOMAIN ready
  BY <1>2
<1>4. \A x : x \in Pieces <=>
        x \in Elements(ready) \/ \E u \in Threads : pc[u] = "queue" /\ x \in Elements(job[u].bufs)
  BY Zenon DEF Pieces
<1>5. \A x : x \in Pieces' <=>
        x \in Elements(ready') \/ \E u \in Threads : pc[u] = "queue" /\ x \in Elements(job[u].bufs)
  <2>1. \A x : x \in Pieces' <=>
          x \in Elements(ready') \/ \E u \in Threads : pc'[u] = "queue" /\ x \in Elements(job'[u].bufs)
    BY Zenon DEF Pieces
  <2>2. \A u \in Threads : (pc'[u] = "queue" <=> pc[u] = "queue") /\ (pc[u] = "queue" => job'[u] = job[u])
    OBVIOUS
  <2> QED
    BY <2>1, <2>2, Zenon
<1>6. /\ Elements(ready) = Elements(ready') \cup {b}
      /\ \A c \in Elements(ready') : \E i \in DOMAIN ready : i > 1 /\ c = ready[i]
  <2>1. \A c \in Elements(ready') : \E i \in DOMAIN ready : i > 1 /\ c = ready[i]
    BY <1>3 DEF Elements
  <2>2. \A i \in DOMAIN ready : i = 1 \/ (i - 1 \in 1 .. (Len(ready) - 1) /\ (i - 1) + 1 = i)
    BY <1>3
  <2>3. \A i \in DOMAIN ready : ready[i] = b \/ ready[i] \in Elements(ready')
    <3> SUFFICES ASSUME NEW i \in DOMAIN ready, i # 1 PROVE ready[i] \in Elements(ready')
      OBVIOUS
    <3>1. i - 1 \in DOMAIN ready' /\ ready'[i - 1] = ready[i]
      BY <1>3, <2>2
    <3> QED
      BY <3>1 DEF Elements
  <2> QED
    BY <1>3, <2>1, <2>3 DEF Elements
<1>7. b \in Pieces /\ \A c \in Pieces' : c \in Pieces
  BY <1>4, <1>5, <1>6
<1>8. \A c \in Pieces : c # b => c \in Pieces'
  BY <1>4, <1>5, <1>6
<1>9. \A c \in Pieces : /\ Whole(c) /\ readyStreamPos <= c.start /\ c.end <= readStreamPos
                        /\ c.end = readStreamPos \/ \E e \in Pieces : e.start = c.end
  BY <1>1 DEF QueueInv, Chain
<1>10. \A c \in Pieces : c.start \in Nat /\ c.end \in Nat /\ c.start < c.end
  <2>1. \A c \in Pieces : c \in Buffer
    BY <1>2, ElementOfSeq DEF Pieces, Elements
  <2> QED
    BY <1>9, <2>1, BufferFields DEF Whole
<1>11. ASSUME NEW c \in Pieces' PROVE b.end <= c.start
  <2>1. CASE c \in Elements(ready')
    <3>1. PICK i \in DOMAIN ready : i > 1 /\ c = ready[i]
      BY <1>6, <2>1
    <3> QED
      BY <1>1, <1>3, <3>1 DEF QueueInv, Runs, Ordered
  <2>2. CASE c \notin Elements(ready')
    <3>1. PICK u \in Threads : pc[u] = "queue" /\ c \in Elements(job[u].bufs)
      BY <1>5, <2>2
    <3>2. PICK k \in DOMAIN job[u].bufs : c = job[u].bufs[k]
      BY <3>1 DEF Elements
    <3> DEFINE ps == job[u].bufs
    <3>3. AllWhole(ps) /\ ps # <<>> /\ Ordered(ps) /\ Outside(ready, ps) /\ ps \in Seq(Buffer) /\ k \in DOMAIN ps
      BY <1>2, <3>1, PiecesWhole
    <3>4. c = ps[k]
      BY <3>2
    <3> HIDE DEF ps
    <3>5. /\ ps[1].start <= ps[k].start /\ ps[k].end <= ps[Len(ps)].end
          /\ ps[1].start \in Nat /\ ps[k].start \in Nat /\ ps[k].end \in Nat /\ ps[Len(ps)].end \in Nat
          /\ ps[k].start < ps[k].end
      BY <3>3, RunBounds
    <3>6. b.end <= ps[1].start \/ ps[Len(ps)].end <= b.start
      BY <1>3, <3>3 DEF Outside
    <3>7. b.start <= c.start
      BY <1>7, <1>9
    <3>8. b.start <= ps[k].start
      BY <3>4, <3>7
    <3>9. b.end <= ps[k].start
      BY <1>2, <3>5, <3>6, <3>8, SMTT(40)
    <3> QED
      BY <3>4, <3>9
  <2> QED
    BY <2>1, <2>2
<1>12. b.start < b.end /\ b.end <= readStreamPos
  BY <1>7, <1>9, <1>10
<1>13. Chain'
  <2>1. ASSUME NEW c \in Pieces'
        PROVE  c.end = readStreamPos \/ \E e \in Pieces' : e.start = c.end
    <3>1. CASE c.end # readStreamPos
      <4>1. PICK e \in Pieces : e.start = c.end
        BY <1>7, <1>9, <3>1
      <4>2. e # b
        BY <1>2, <1>7, <1>10, <1>11, <1>12, <4>1
      <4> QED
        BY <1>8, <4>1, <4>2
    <3> QED
      BY <3>1
  <2>2. b.end = readStreamPos \/ \E e \in Pieces' : e.start = b.end
    <3>1. CASE b.end # readStreamPos
      <4>1. PICK e \in Pieces : e.start = b.end
        BY <1>7, <1>9, <3>1
      <4>2. e # b
        BY <1>2, <1>12, <4>1
      <4> QED
        BY <1>8, <4>1, <4>2
    <3> QED
      BY <3>1
  <2>3. \A c \in Pieces' : /\ Whole(c) /\ readyStreamPos' <= c.start /\ c.end <= readStreamPos'
                           /\ c.end = readStreamPos' \/ \E e \in Pieces' : e.start = c.end
    BY <1>7, <1>9, <1>11, <2>1
  <2>4. readyStreamPos' = readStreamPos' \/ \E e \in Pieces' : e.start = readyStreamPos'
    BY <2>2
  <2> QED
    BY <2>3, <2>4, Zenon DEF Chain
<1>14. Runs'
  <2>1. Ordered(ready')
    <3> SUFFICES ASSUME NEW i \in 1 .. (Len(ready) - 1), NEW j \in 1 .. (Len(ready) - 1), i < j
                 PROVE  ready'[i].end <= ready'[j].start
      BY <1>3 DEF Ordered
    <3>1. i + 1 < j + 1 /\ i + 1 \in DOMAIN ready /\ j + 1 \in DOMAIN ready
      BY <1>3
    <3>2. ready[i + 1].end <= ready[j + 1].start
      BY <1>1, <3>1 DEF QueueInv, Runs, Ordered
    <3> QED
      BY <1>3, <3>2
  <2>2. ASSUME NEW u \in Threads, pc'[u] = "queue"
        PROVE  job'[u].bufs # <<>> /\ Ordered(job'[u].bufs) /\ Outside(ready', job'[u].bufs)
    <3>1. pc[u] = "queue" /\ job'[u] = job[u]
      BY <2>2
    <3>2. job[u].bufs # <<>> /\ Ordered(job[u].bufs) /\ Outside(ready, job[u].bufs)
      BY <3>1, PiecesWhole
    <3>3. Outside(ready', job[u].bufs)
      BY <1>3, <3>2 DEF Outside
    <3> QED
      BY <3>1, <3>2, <3>3
  <2>3. \A u \in Threads : pc'[u] = "queue" => pc[u] = "queue" /\ job'[u] = job[u]
    OBVIOUS
  <2> QED
    BY <1>1, <2>1, <2>2, <2>3, Zenon DEF QueueInv, Runs, Outside
<1>15. \A u \in Threads : Notifying(u)' <=> Notifying(u)
  BY DEF Notifying
<1>16. OneNotifier'
  BY <1>1, <1>15, Zenon DEF QueueInv, OneNotifier
<1>17. HeadWaits'
  <2>1. onNotifying
    BY <1>1 DEF QueueInv, OneNotifier, Notifying
  <2> QED
    BY <2>1 DEF HeadWaits
<1>18. Delivery'
  <2>1. \A u \in Threads \ {t} : ~Notifying(u)
    BY <1>1 DEF QueueInv, OneNotifier, Notifying
  <2>2. \A u \in Threads : pc[u] # "callback"
    BY <2>1 DEF Notifying
  <2>3. \A u \in Threads \ {t} : pc'[u] # "callback"
    BY <2>2
  <2>4. readyStreamPos = InitStreamPos + Len(delivered) /\ DeliveredInOrder
    BY <1>1, <2>2 DEF QueueInv, Delivery
  <2>5. DeliveredInOrder'
    BY <2>4 DEF DeliveredInOrder
  <2>6. Whole(b)
    BY <1>7, <1>9
  <2>7. job'[t].bufs # <<>> /\ job'[t].bufs[1] = b
    OBVIOUS
  <2> QED
    BY <2>3, <2>4, <2>5, <2>6, <2>7 DEF Delivery
<1> QED
  BY <1>2, <1>12, <1>13, <1>14, <1>16, <1>17, <1>18 DEF QueueInv
(* PackageConnectionNotifyRecvReadyBuffers, the loop                       *)
LEMMA NotifyNextInv ==
  ASSUME RecvInv, NEW t \in Threads, NotifyNext(t)
  PROVE  RecvInv'
<1>1. RecvTypes /\ StreamInv /\ QueueInv
  BY DEF RecvInv
<1>2. pc[t] = "notify" /\ UNCHANGED <<blockVars, streamVars, recvTimer, delivered>>
  BY DEF NotifyNext
<1>3. ready \in Seq(Buffer) /\ pc \in [Threads -> Label] /\ job \in [Threads -> Job]
  BY <1>1 DEF RecvTypes
<1>4. CASE ready # <<>> /\ Head(ready).start = readyStreamPos
  <2>1. /\ ready' = Tail(ready)
        /\ readyStreamPos' = Head(ready).end
        /\ job' = [job EXCEPT ![t] = [NoJob EXCEPT !.bufs = <<Head(ready)>>]]
        /\ pc' = [pc EXCEPT ![t] = "callback"]
        /\ UNCHANGED onNotifying
    BY <1>4 DEF NotifyNext
  <2>2. PICK b \in Buffer : b = Head(ready)
    BY <1>3, <1>4
  <2>3. b = ready[1] /\ b.start = readyStreamPos /\ ready # <<>> /\ b.end \in Nat
    BY <1>3, <1>4, <2>2, BufferFields
  <2>4. [NoJob EXCEPT !.bufs = <<b>>] \in Job /\ [NoJob EXCEPT !.bufs = <<b>>].bufs = <<b>>
    <3>1. <<b>> \in Seq(Buffer)
      OBVIOUS
    <3> QED
      BY <3>1, JobTypes DEF Job
  <2>5. job' = [job EXCEPT ![t] = [NoJob EXCEPT !.bufs = <<b>>]]
    BY <2>1, <2>2
  <2>6. /\ pc' \in [Threads -> Label] /\ job' \in [Threads -> Job]
        /\ \A u \in Threads \ {t} : pc'[u] = pc[u] /\ job'[u] = job[u]
        /\ pc'[t] = "callback" /\ job'[t].bufs = <<b>>
    BY <1>3, <2>1, <2>4, <2>5 DEF Label
  <2>7. ready' \in Seq(Buffer) /\ ready' = Tail(ready) /\ readyStreamPos' = b.end
    BY <1>3, <1>4, <2>1, <2>2
  <2>8. QueueInv' /\ readyStreamPos <= b.end /\ b.end <= readStreamPos
    <3>1. UNCHANGED <<onNotifying, readStreamPos, delivered>>
      BY <1>2, <2>1 DEF streamVars
    <3> QED
      BY <1>2, <2>3, <2>6, <2>7, <3>1, TakeNextQueue
  <2>9. RecvTypes'
    BY <1>1, <1>2, <2>1, <2>3, <2>6, <2>7 DEF RecvTypes, blockVars, streamVars
  <2>10. StreamInv'
    <3>1. \A u \in Threads : pc'[u] = "update" => pc[u] = "update" /\ job'[u] = job[u]
      BY <2>6
    <3>2. InitStreamPos <= readyStreamPos /\ InitStreamPos \in Nat /\ readyStreamPos \in Nat
      BY <1>1, RecvQueueAssumption DEF StreamInv, Positions, RecvTypes, RecvQueueAssumption
    <3>3. InitStreamPos <= readyStreamPos' /\ readyStreamPos' <= readStreamPos
      BY <2>3, <2>7, <2>8, <3>2
    <3> QED
      BY <1>1, <1>2, <3>1, <3>3, StreamFrame
  <2> QED
    BY <2>8, <2>9, <2>10 DEF RecvInv
<1>5. CASE ~(ready # <<>> /\ Head(ready).start = readyStreamPos)
  <2>1. /\ onNotifying' = FALSE
        /\ pc' = [pc EXCEPT ![t] = "idle"]
        /\ UNCHANGED <<ready, readyStreamPos, job>>
    BY <1>5 DEF NotifyNext
  <2>2. /\ pc' \in [Threads -> Label]
        /\ \A u \in Threads \ {t} : pc'[u] = pc[u]
        /\ pc'[t] = "idle" /\ job' = job
    BY <1>3, <2>1 DEF Label
  <2>3. RecvTypes'
    BY <1>1, <1>2, <2>1, <2>2 DEF RecvTypes, blockVars, streamVars
  <2>4. StreamInv'
    <3>1. \A u \in Threads : pc'[u] = "update" => pc[u] = "update" /\ job'[u] = job[u]
      BY <2>2
    <3>2. InitStreamPos <= readyStreamPos' /\ readyStreamPos' <= readStreamPos
      BY <1>1, <2>1 DEF StreamInv, Positions
    <3> QED
      BY <1>1, <1>2, <3>1, <3>2, StreamFrame
  <2>5. Chain' /\ Runs'
    <3>1. \A u \in Threads : /\ (pc'[u] = "queue") <=> (pc[u] = "queue")
                             /\ pc[u] = "queue" => job'[u] = job[u]
      BY <1>2, <2>2
    <3>2. UNCHANGED <<ready, readyStreamPos, readStreamPos>>
      BY <1>2, <2>1 DEF streamVars
    <3> QED
      BY <1>1, <3>1, <3>2, PiecesFrame DEF QueueInv
  <2>6. \A u \in Threads \ {t} : ~Notifying(u)
    BY <1>1, <1>2 DEF QueueInv, OneNotifier, Notifying
  <2>7. \A u \in Threads : ~Notifying(u)'
    BY <2>2, <2>6 DEF Notifying
  <2>8. OneNotifier'
    BY <2>1, <2>7 DEF OneNotifier
  <2>9. HeadWaits'
    <3>1. ready # <<>> => Head(ready) = ready[1]
      BY <1>3
    <3> QED
      BY <1>5, <2>1, <3>1 DEF HeadWaits
  <2>10. Delivery'
    <3>1. \A u \in Threads : pc[u] # "callback" /\ pc'[u] # "callback"
      BY <1>2, <2>2, <2>6 DEF Notifying
    <3> QED
      BY <1>1, <1>2, <2>1, <3>1 DEF QueueInv, Delivery, DeliveredInOrder
  <2> QED
    BY <2>3, <2>4, <2>5, <2>8, <2>9, <2>10 DEF RecvInv, QueueInv
<1> QED
  BY <1>4, <1>5

-----------------------------------------------------------------------------
(* The theorems                                                             *)

(* RecvQueueCreate                                                         *)
LEMMA RecvInit == Init => RecvInv
<1> SUFFICES ASSUME Init PROVE RecvInv
  OBVIOUS
<1> USE DEF Init
<1>1. InitStreamPos \in Nat
  BY RecvQueueAssumption DEF RecvQueueAssumption
<1>2. RecvTypes
  <2>1. NoBlock \in StreamRange
    BY DEF NoBlock, StreamRange
  <2>2. <<>> \in Seq(Buffer) /\ <<>> \in Seq(Nat)
    OBVIOUS
  <2>3. pc \in [Threads -> Label] /\ job \in [Threads -> Job]
    BY JobTypes DEF Label
  <2> QED
    BY <1>1, <2>1, <2>2, <2>3 DEF RecvTypes
<1>3. StreamInv
  <2>1. <<>> \in Seq(Buffer) /\ Len(<<>>) = 0
    OBVIOUS
  <2>2. Begin(InitStreamPos, <<>>, 1) = InitStreamPos
    BY <1>1, <2>1, BeginLaid
  <2>3. Space(readStreamPos, buffers) = InitStreamPos
    BY <2>1, <2>2 DEF Space
  <2>4. Positions
    BY <1>1, <2>3 DEF Positions
  <2>5. Fits(readStreamPos, buffers, endStreamPos)
    BY <2>1 DEF Fits
  <2>6. AckedStored
    BY <1>1 DEF AckedStored
  <2> QED
    BY <2>4, <2>5, <2>6 DEF StreamInv, BlocksStored, SavedStored, LatestIsBlock, BlocksAheadOfAck
<1>4. QueueInv
  <2>1. Pieces = {}
    BY DEF Pieces, Elements
  <2>2. Chain
    BY <2>1 DEF Chain
  <2>3. Runs
    BY DEF Runs, Ordered
  <2>4. OneNotifier /\ HeadWaits
    BY DEF OneNotifier, HeadWaits, Notifying
  <2>5. Delivery
    BY <1>1 DEF Delivery, DeliveredInOrder
  <2> QED
    BY <2>2, <2>3, <2>4, <2>5 DEF QueueInv
<1> QED
  BY <1>2, <1>3, <1>4 DEF RecvInv

(* The steps that leave the blocks alone and enter no payload keep the     *)
(* invariant, and no thread comes to hold a payload.                       *)
Holds == \A u \in Threads : pc'[u] = "update" => pc[u] = "update" /\ job'[u] = job[u]

LEMMA OtherSteps ==
  ASSUME RecvInv, NEW t \in Threads,
         PopCompleteBuffers(t) \/ QueueReady(t) \/ NotifyNext(t) \/ Callback(t) \/ RecvTimerFires(t) \/ FinPackage(t)
  PROVE  RecvInv' /\ UNCHANGED blockVars /\ Holds
<1>1. pc \in [Threads -> Label] /\ job \in [Threads -> Job]
  BY DEF RecvInv, RecvTypes
<1>2. CASE PopCompleteBuffers(t)
  <2>1. /\ UNCHANGED blockVars
        /\ \E l \in {"idle", "queue"} : pc' = [pc EXCEPT ![t] = l]
        /\ \E j : job' = [job EXCEPT ![t] = j]
    BY <1>2, Zenon DEF PopCompleteBuffers
  <2>2. Holds
    BY <1>1, <2>1 DEF Holds
  <2> QED
    BY <1>2, <2>1, <2>2, PopCompleteBuffersInv
<1>3. CASE QueueReady(t)
  <2>1. /\ UNCHANGED blockVars
        /\ pc' = [pc EXCEPT ![t] = IF onNotifying THEN "idle" ELSE "notify"]
        /\ job' = [job EXCEPT ![t] = NoJob]
    BY <1>3 DEF QueueReady
  <2>2. Holds
    BY <1>1, <2>1 DEF Holds
  <2> QED
    BY <1>3, <2>1, <2>2, QueueReadyInv
<1>4. CASE NotifyNext(t)
  <2>1. /\ UNCHANGED blockVars
        /\ pc[t] = "notify" /\ \E l \in {"callback", "idle"} : pc' = [pc EXCEPT ![t] = l]
        /\ job' = job \/ \E j : job' = [job EXCEPT ![t] = j]
    BY <1>4 DEF NotifyNext
  <2>2. Holds
    BY <1>1, <2>1 DEF Holds
  <2> QED
    BY <1>4, <2>1, <2>2, NotifyNextInv
<1>5. CASE Callback(t)
  <2>1. /\ UNCHANGED blockVars
        /\ pc' = [pc EXCEPT ![t] = "notify"]
        /\ job' = [job EXCEPT ![t] = NoJob]
    BY <1>5 DEF Callback
  <2>2. Holds
    BY <1>1, <2>1 DEF Holds
  <2> QED
    BY <1>5, <2>1, <2>2, CallbackInv
<1>6. CASE RecvTimerFires(t) \/ FinPackage(t)
  <2>1. /\ UNCHANGED blockVars
        /\ pc' = [pc EXCEPT ![t] = "pop"]
        /\ \E j : job' = [job EXCEPT ![t] = j]
    BY <1>6 DEF RecvTimerFires, FinPackage
  <2>2. Holds
    BY <1>1, <2>1 DEF Holds
  <2>3. RecvInv'
    BY <1>6, ForcedPopInv DEF RecvTimerFires, FinPackage
  <2> QED
    BY <2>1, <2>2, <2>3
<1> QED
  BY <1>2, <1>3, <1>4, <1>5, <1>6

(* RecvQueueAddBuffer enters no payload either.                            *)
LEMMA AddBufferHolds ==
  ASSUME RecvInv, NEW id \in BufferIds, AddBuffer(id)
  PROVE  RecvInv' /\ UNCHANGED blockVars /\ Holds
BY AddBufferInv DEF AddBuffer, Holds

(* RecvQueueGetAckInfo reports the ack position and blocks that are there.  *)
LEMMA AckInfoIsReceived ==
  ASSUME RecvInv
  PROVE  AckInfo.ack = ackStreamPos /\ AckInfo.sack \subseteq blocks
<1>1. \A n : FirstBlocks(n) \subseteq blocks
  BY DEF FirstBlocks
<1>2. latest = NoBlock \/ latest \in blocks
  BY DEF RecvInv, StreamInv, LatestIsBlock
<1> QED
  BY <1>1, <1>2, Zenon DEF AckInfo

(* No block begins inside what a thread is about to enter.                 *)
LEMMA OwnCut ==
  ASSUME RecvInv, AsCut, NEW t \in Threads, UpdateStreamPos(t)
  PROVE  BeginsOutside(blocks, job[t])
<1>1. pc[t] = "update"
  BY DEF UpdateStreamPos
<1>2. PICK s \in Segments : job[t].start = s.start /\ job[t].end <= s.end
  BY <1>1 DEF AsCut
<1>3. s.start \in Nat /\ s.end \in Nat /\ job[t].end \in Nat
  BY RecvQueueAssumption DEF RecvQueueAssumption, RecvInv, RecvTypes, Job
<1> SUFFICES ASSUME NEW b \in blocks, job[t].start < b.start PROVE job[t].end <= b.start
  BY DEF BeginsOutside
<1>4. PICK u \in Segments : b.start = u.start
  BY DEF AsCut
<1>5. s.end <= u.start
  BY <1>2, <1>4, CutsApart
<1>6. u.start \in Nat
  BY RecvQueueAssumption DEF RecvQueueAssumption
<1> QED
  BY <1>2, <1>3, <1>4, <1>5, <1>6

(* Every step keeps the invariant.                                         *)
LEMMA RecvNext == RecvCutInv /\ [Next]_vars => RecvCutInv'
<1> SUFFICES ASSUME RecvInv, AsCut, [Next]_vars PROVE RecvInv' /\ AsCut'
  BY DEF RecvCutInv
<1>0. ASSUME UNCHANGED blockVars, Holds PROVE AsCut'
  BY <1>0, Zenon DEF AsCut, blockVars, Holds
<1>1. ASSUME NEW id \in BufferIds, AddBuffer(id) PROVE RecvInv' /\ AsCut'
  BY <1>0, <1>1, AddBufferHolds
<1>2. ASSUME NEW t \in Threads, NEW s \in Segments, SavePayload(t, s) PROVE RecvInv' /\ AsCut'
  <2>1. s \in StreamRange
    BY RecvQueueAssumption DEF RecvQueueAssumption, StreamRange
  <2>2. /\ RecvInv'
        /\ job'[t].start = s.start /\ job'[t].end <= s.end
        /\ \A u \in Threads \ {t} : pc'[u] = pc[u] /\ job'[u] = job[u]
    BY <1>2, <2>1, SavePayloadInv
  <2>3. UNCHANGED blockVars
    BY <1>2 DEF SavePayload
  <2> QED
    BY <2>2, <2>3 DEF AsCut, blockVars
<1>3. ASSUME NEW t \in Threads, UpdateStreamPos(t) PROVE RecvInv' /\ AsCut'
  <2>1. pc[t] = "update"
    BY <1>3 DEF UpdateStreamPos
  <2>2. PICK s \in Segments : job[t].start = s.start /\ job[t].end <= s.end
    BY <2>1 DEF AsCut
  <2>4. BeginsOutside(blocks, job[t])
    BY <1>3, OwnCut
  <2>5. /\ RecvInv'
        /\ Grows(ackStreamPos, blocks, job[t], ackStreamPos', blocks')
        /\ \A u \in Threads \ {t} : pc'[u] = pc[u] /\ job'[u] = job[u]
        /\ pc'[t] # "update"
    BY <1>3, <2>4, UpdateStreamPosInv
  <2> QED
    BY <2>2, <2>5 DEF AsCut, Grows
<1>4. ASSUME NEW t \in Threads,
             PopCompleteBuffers(t) \/ QueueReady(t) \/ NotifyNext(t) \/ Callback(t) \/ RecvTimerFires(t) \/ FinPackage(t)
      PROVE  RecvInv' /\ AsCut'
  BY <1>0, <1>4, OtherSteps
<1>5. CASE UNCHANGED vars
  <2>1. /\ UNCHANGED <<blockVars, streamVars, readyVars, delivered>>
        /\ pc' = pc /\ job' = job /\ recvTimer' = recvTimer
    BY <1>5 DEF vars
  <2>2. RecvTypes'
    BY <2>1 DEF RecvInv, RecvTypes, blockVars, streamVars, readyVars
  <2>3. StreamInv'
    BY <2>1, StreamFrame DEF RecvInv, StreamInv, Positions, readyVars
  <2>4. QueueInv'
    BY <2>1, QueueFrame DEF RecvInv, streamVars
  <2>5. AsCut'
    BY <1>0, <2>1 DEF Holds
  <2> QED
    BY <2>2, <2>3, <2>4, <2>5 DEF RecvInv
<1> QED
  BY <1>1, <1>2, <1>3, <1>4, <1>5, Zenon DEF Next, ThreadStep

(* The inductive invariant holds in every state of the receive side.       *)
THEOREM RecvInvariance == Spec => []RecvInv
<1>1. Init => RecvCutInv
  BY RecvInit DEF RecvCutInv, AsCut, Init
<1>2. RecvCutInv => RecvInv
  BY DEF RecvCutInv
<1> QED
  BY <1>1, <1>2, RecvNext, PTL DEF Spec

(* The receive side is type correct.                                       *)
THEOREM RecvTypeCorrect == Spec => []TypeOK
<1>1. RecvInv => TypeOK
  <2> SUFFICES ASSUME RecvInv PROVE TypeOK
    OBVIOUS
  <2>1. RecvTypes
    BY DEF RecvInv
  <2>2. \A bs \in Seq(Buffer) : \A i \in DOMAIN bs : BufferType(bs[i])
    <3> SUFFICES ASSUME NEW bs \in Seq(Buffer), NEW i \in DOMAIN bs PROVE BufferType(bs[i])
      OBVIOUS
    <3>1. bs[i] \in Buffer
      OBVIOUS
    <3> QED
      BY <3>1, Zenon DEF Buffer
  <2>3. \A t \in Threads : job[t].bufs \in Seq(Buffer)
    BY <2>1 DEF RecvTypes, Job
  <2>4. /\ \A i \in DOMAIN buffers : BufferType(buffers[i])
        /\ \A i \in DOMAIN ready : BufferType(ready[i])
        /\ \A t \in Threads : \A i \in DOMAIN job[t].bufs : BufferType(job[t].bufs[i])
    BY <2>1, <2>2, <2>3, Zenon DEF RecvTypes
  <2>5. {ackStreamPos, readStreamPos, endStreamPos, readyStreamPos} \subseteq Nat
    BY <2>1 DEF RecvTypes
  <2>6. {onNotifying, recvTimer} \subseteq BOOLEAN
    BY <2>1 DEF RecvTypes
  <2>7. \A i \in DOMAIN delivered : delivered[i] \in Nat
    BY <2>1 DEF RecvTypes
  <2> QED
    BY <2>1, <2>4, <2>5, <2>6, <2>7 DEF RecvTypes, TypeOK, Label
<1> QED
  BY <1>1, RecvInvariance, PTL

(* The callbacks of PackageConnectionNotifyRecvReadyBuffers hand over the  *)
(* stream in order, without gap, repetition or a byte never written, for   *)
(* any number of threads and however packages are repeated and reordered.  *)
THEOREM DeliveryInOrder == Spec => []DeliveredInOrder
<1>1. RecvInv => DeliveredInOrder
  BY DEF RecvInv, QueueInv, Delivery
<1> QED
  BY <1>1, RecvInvariance, PTL

(* What RecvQueueGetAckInfo reports as received and no callback was given  *)
(* yet is in a queued buffer, at its place.                                *)
THEOREM AcknowledgedIsKept == Spec => []AcknowledgedIsStored
<1>1. RecvInv => AcknowledgedIsStored
  <2> SUFFICES ASSUME RecvInv,
                      NEW p \in (readStreamPos .. (ackStreamPos - 1)) \cup UNION {BytesOf(b) : b \in blocks}
               PROVE  \E i \in DOMAIN buffers :
                        /\ p >= BufferBegin(i) /\ p < BufferBegin(i) + buffers[i].len
                        /\ buffers[i].data[p - BufferBegin(i)] = p
    BY DEF AcknowledgedIsStored
  <2>1. Stored(readStreamPos, buffers, p)
    BY DEF RecvInv, StreamInv, AckedStored, BlocksStored
  <2>2. \A i : BufferBegin(i) = Begin(readStreamPos, buffers, i)
    BY Zenon DEF BufferBegin, Begin, Places
  <2> QED
    BY <2>1, <2>2, Zenon DEF Stored
<1> QED
  BY <1>1, RecvInvariance, PTL

(* RecvQueueUpdateStreamPos tries the first block only when a package is   *)
(* in order, and no block is left that the ack position has reached.       *)
THEOREM NoBlockLeftBehind == Spec => []BlocksAheadOfAck
<1>1. RecvInv => BlocksAheadOfAck
  BY DEF RecvInv, StreamInv
<1> QED
  BY <1>1, RecvInvariance, PTL

(* A thread that finds onNotifying set leaves its buffers to another one,  *)
(* and that one does not stop before it has handed them over.              *)
LEMMA ReadyHandedOver ==
  ASSUME RecvInv, \A t \in Threads : pc[t] = "idle"
  PROVE  ready = <<>>
<1> SUFFICES ASSUME ready # <<>> PROVE FALSE
  OBVIOUS
<1>1. ~onNotifying
  BY DEF RecvInv, QueueInv, OneNotifier, Notifying
<1>2. ready[1].start # readyStreamPos
  BY <1>1 DEF RecvInv, QueueInv, HeadWaits
<1>3. Pieces = Elements(ready)
  BY DEF Pieces
<1>4. /\ ready \in Seq(Buffer) /\ readyStreamPos \in Nat /\ readStreamPos \in Nat
  BY DEF RecvInv, RecvTypes
<1>5. 1 \in DOMAIN ready
  BY <1>4
<1>6. \A i \in DOMAIN ready : /\ ready[i].start \in Nat /\ ready[i].end \in Nat /\ ready[i].start < ready[i].end
                              /\ readyStreamPos <= ready[i].start /\ ready[i].end <= readStreamPos
  <2> SUFFICES ASSUME NEW i \in DOMAIN ready
               PROVE  /\ ready[i].start \in Nat /\ ready[i].end \in Nat /\ ready[i].start < ready[i].end
                      /\ readyStreamPos <= ready[i].start /\ ready[i].end <= readStreamPos
    OBVIOUS
  <2>1. ready[i] \in Pieces
    BY <1>3 DEF Elements
  <2>2. Whole(ready[i]) /\ readyStreamPos <= ready[i].start /\ ready[i].end <= readStreamPos
    BY <2>1 DEF RecvInv, QueueInv, Chain
  <2>3. ready[i].start \in Nat /\ ready[i].end \in Nat
    BY <1>4, BufferFields, ElementOfSeq
  <2> QED
    BY <2>2, <2>3 DEF Whole
<1>7. readyStreamPos # readStreamPos
  BY <1>4, <1>5, <1>6
<1>8. PICK c \in Pieces : c.start = readyStreamPos
  BY <1>7 DEF RecvInv, QueueInv, Chain
<1>9. PICK j \in DOMAIN ready : c = ready[j]
  BY <1>3, <1>8 DEF Elements
<1>10. j = 1 \/ ready[1].end <= ready[j].start
  <2>1. j = 1 \/ 1 < j
    BY <1>4, <1>9
  <2> QED
    BY <1>5, <2>1 DEF RecvInv, QueueInv, Runs, Ordered
<1>11. ready[j].start = readyStreamPos /\ j # 1
  BY <1>2, <1>8, <1>9
<1> QED
  BY <1>4, <1>5, <1>6, <1>10, <1>11

-----------------------------------------------------------------------------
(* At rest                                                                  *)

(* The byte that was saved furthest was received, or a thread is about to  *)
(* enter it.  A pop by force takes all or nothing: nothing while saved     *)
(* bytes are ahead of the ack position.                                    *)
EndCovered ==
    \/ Received(ackStreamPos, blocks, endStreamPos - 1)
    \/ \E t \in Threads : pc[t] = "update" /\ endStreamPos <= job[t].end

(* Acknowledged bytes that were not popped have the timer armed, a payload *)
(* missing or under way that will arm it, or a thread that pops them all.  *)
UnreadIsTimed ==
    readStreamPos < ackStreamPos =>
        \/ recvTimer
        \/ blocks # {}
        \/ \E t \in Threads : pc[t] = "update" /\ ackStreamPos < job[t].end
        \/ \E t \in Threads : pc[t] = "pop" /\ job[t].force /\ job[t].seen = ackStreamPos

RestInv == EndCovered /\ UnreadIsTimed

(* Steps that concern neither what was received, nor a thread that enters  *)
(* or pops.                                                                *)
LEMMA RestFrame ==
  ASSUME RestInv, UNCHANGED <<ackStreamPos, blocks, endStreamPos, readStreamPos, recvTimer>>,
         \A u \in Threads : pc[u] \in {"update", "pop"} => pc'[u] = pc[u] /\ job'[u] = job[u]
  PROVE  RestInv'
<1>1. \A u \in Threads : pc[u] = "update" => pc'[u] = "update" /\ job'[u] = job[u]
  OBVIOUS
<1>2. \A u \in Threads : pc[u] = "pop" => pc'[u] = "pop" /\ job'[u] = job[u]
  OBVIOUS
<1>3. EndCovered'
  BY <1>1, Zenon DEF RestInv, EndCovered, Received
<1>4. UnreadIsTimed'
  BY <1>1, <1>2, Zenon DEF RestInv, UnreadIsTimed
<1> QED
  BY <1>3, <1>4 DEF RestInv

(* RecvQueueUpdateStreamPos: what the thread saved was received.           *)
LEMMA EnteredIsReceived ==
  ASSUME RecvInv, NEW t \in Threads, UpdateStreamPos(t), NEW p \in Nat, job[t].start <= p, p < job[t].end
  PROVE  Received(ackStreamPos', blocks', p)
<1> DEFINE r == [start |-> job[t].start, end |-> job[t].end]
<1>1. /\ job[t].start \in Nat /\ job[t].end \in Nat /\ ackStreamPos \in Nat
      /\ blocks \in SUBSET StreamRange
      /\ \A b \in blocks : b.start \in Nat /\ b.end \in Nat
  BY DEF RecvInv, RecvTypes, Job, StreamRange
<1>2. r.start = job[t].start /\ r.end = job[t].end /\ r.start \in Nat /\ r.end \in Nat
  BY <1>1
<1>3. \/ /\ UNCHANGED blockVars
         /\ job[t].end <= ackStreamPos \/ InOldBlock(job[t])
      \/ InOrder(r)
      \/ AddToBlocks(r) /\ UNCHANGED ackStreamPos
  BY DEF UpdateStreamPos
<1> HIDE DEF r
<1>4. CASE UNCHANGED blockVars /\ job[t].end <= ackStreamPos
  BY <1>1, <1>4 DEF blockVars, Received
<1>5. CASE UNCHANGED blockVars /\ InOldBlock(job[t])
  <2>1. PICK b \in blocks : b.start <= job[t].start /\ job[t].end <= b.end
    BY <1>5 DEF InOldBlock
  <2>2. p \in BytesOf(b)
    BY <1>1, <2>1 DEF BytesOf
  <2> QED
    BY <1>5, <2>1, <2>2 DEF blockVars, Received
<1>6. CASE InOrder(r)
  <2>1. blocks # {} => First(blocks) \in blocks
    BY <1>1, FirstBlock
  <2>2. /\ ackStreamPos' = IF blocks # {} /\ Touches(First(blocks), r)
                           THEN MaxPos(r.end, First(blocks).end) ELSE r.end
    BY <1>6 DEF InOrder
  <2>3. r.end <= ackStreamPos' /\ ackStreamPos' \in Nat
    BY <1>1, <1>2, <2>1, <2>2 DEF MaxPos
  <2> QED
    BY <1>2, <2>3 DEF Received
<1>7. CASE AddToBlocks(r)
  <2> DEFINE T == {b \in blocks : Touches(b, r)}
             m == IF T = {} THEN r ELSE Merged(r, T)
  <2>1. m \in blocks'
    BY <1>7 DEF AddToBlocks
  <2>2. m.start <= r.start /\ r.end <= m.end /\ m.start \in Nat /\ m.end \in Nat
    <3>1. CASE T = {}
      BY <1>2, <3>1
    <3>2. CASE T # {}
      <4> DEFINE hi == CHOOSE b \in T : \A c \in T : c.end <= b.end
      <4>1. T \in SUBSET StreamRange /\ \A b \in T : b.end \in Nat /\ b.end <= endStreamPos
        BY <1>1 DEF RecvInv, StreamInv, BlocksStored
      <4>2. First(T) \in T
        BY <3>2, <4>1, FirstBlock
      <4>3. hi \in T
        <5>1. endStreamPos \in Nat
          BY DEF RecvInv, RecvTypes
        <5>2. \E b \in T : \A c \in T : c.end <= b.end
          BY <3>2, <4>1, <5>1, LastEnd
        <5> QED
          BY <5>2
      <4>4. m = [start |-> MinPos(r.start, First(T).start), end |-> MaxPos(r.end, hi.end)]
        BY <3>2 DEF Merged
      <4>5. First(T).start \in Nat /\ hi.end \in Nat
        BY <4>1, <4>2, <4>3 DEF StreamRange
      <4> HIDE DEF T, m, hi
      <4> QED
        BY <1>2, <4>4, <4>5 DEF MinPos, MaxPos
    <3> QED
      BY <3>1, <3>2
  <2> HIDE DEF T, m
  <2>3. p \in BytesOf(m)
    BY <1>2, <2>2 DEF BytesOf
  <2> QED
    BY <2>1, <2>3 DEF Received
<1> QED
  BY <1>3, <1>4, <1>5, <1>6, <1>7

(* So entering it keeps the end of the stream covered; and a package that  *)
(* is not old arms the timer.                                              *)
LEMMA RestUpdate ==
  ASSUME RecvInv, RestInv, NEW t \in Threads, BeginsOutside(blocks, job[t]), UpdateStreamPos(t)
  PROVE  RestInv'
<1>1. /\ RecvInv'
      /\ Grows(ackStreamPos, blocks, job[t], ackStreamPos', blocks')
      /\ \A u \in Threads \ {t} : pc'[u] = pc[u] /\ job'[u] = job[u]
      /\ pc'[t] # "update"
  BY UpdateStreamPosInv
<1>2. /\ job[t].start \in Nat /\ job[t].end \in Nat /\ ackStreamPos \in Nat /\ endStreamPos \in Nat
      /\ endStreamPos - 1 \in Nat
      /\ job[t].start < job[t].end /\ job[t].end <= endStreamPos
  <2>1. /\ job[t].start \in Nat /\ job[t].end \in Nat /\ ackStreamPos \in Nat /\ endStreamPos \in Nat
    BY DEF RecvInv, RecvTypes, Job
  <2>2. job[t].start < job[t].end /\ job[t].end <= endStreamPos
    BY DEF UpdateStreamPos, RecvInv, StreamInv, SavedStored
  <2> QED
    BY <2>1, <2>2
<1>3. UNCHANGED <<readStreamPos, endStreamPos>>
  BY DEF UpdateStreamPos, streamVars
<1>4. EndCovered'
  <2>1. CASE Received(ackStreamPos, blocks, endStreamPos - 1)
    BY <1>1, <1>2, <1>3, <2>1 DEF Grows, EndCovered
  <2>2. CASE endStreamPos <= job[t].end
    <3>1. job[t].start <= endStreamPos - 1 /\ endStreamPos - 1 < job[t].end
      BY <1>2, <2>2
    <3>2. Received(ackStreamPos', blocks', endStreamPos - 1)
      BY <1>2, <3>1, EnteredIsReceived
    <3> QED
      BY <1>3, <3>2 DEF EndCovered
  <2>3. ASSUME NEW u \in Threads \ {t}, pc[u] = "update", endStreamPos <= job[u].end
        PROVE  EndCovered'
    BY <1>1, <1>3, <2>3 DEF EndCovered
  <2> QED
    BY <2>1, <2>2, <2>3 DEF RestInv, EndCovered
<1>5. UnreadIsTimed'
  <2> DEFINE isOld == \/ job[t].end <= ackStreamPos
                      \/ job[t].start > ackStreamPos /\ InOldBlock(job[t])
  <2>1. /\ recvTimer' = (recvTimer \/ (~isOld \/ job[t].part))
        /\ isOld => UNCHANGED blockVars
        /\ pc[t] = "update"
    BY DEF UpdateStreamPos
  <2>2. CASE ~isOld
    BY <2>1, <2>2 DEF UnreadIsTimed
  <2>3. CASE isOld
    <3>1. UNCHANGED <<ackStreamPos, blocks>> /\ (recvTimer => recvTimer')
      BY <2>1, <2>3 DEF blockVars
    <3>2. ackStreamPos < job[t].end => blocks # {}
      <4>1. ackStreamPos < job[t].end => InOldBlock(job[t])
        BY <1>2, <2>3
      <4> QED
        BY <4>1 DEF InOldBlock
    <3> HIDE DEF isOld
    <3> QED
      BY <1>1, <1>3, <2>1, <3>1, <3>2 DEF RestInv, UnreadIsTimed
  <2> QED
    BY <2>2, <2>3
<1> QED
  BY <1>4, <1>5 DEF RestInv

(* RecvQueueSavePayload: the thread itself will enter what it saved.       *)
LEMMA RestSave ==
  ASSUME RecvInv, RestInv, NEW t \in Threads, NEW s \in StreamRange, SavePayload(t, s)
  PROVE  RestInv'
<1>1. /\ RecvInv'
      /\ \A u \in Threads \ {t} : pc'[u] = pc[u] /\ job'[u] = job[u]
  BY SavePayloadInv
<1>2. /\ pc[t] = "idle" /\ pc'[t] = "update" /\ job'[t].end = SavedEnd(s)
      /\ endStreamPos' = IF SavedEnd(s) > readStreamPos THEN MaxPos(endStreamPos, SavedEnd(s)) ELSE endStreamPos
      /\ UNCHANGED <<ackStreamPos, blocks, readStreamPos, recvTimer>>
  BY JobTypes DEF SavePayload, blockVars, RecvInv, RecvTypes, NoJob
<1>3. endStreamPos' \in Nat /\ endStreamPos \in Nat /\ job'[t].end \in Nat
  BY <1>1 DEF RecvInv, RecvTypes, Job
<1>4. EndCovered'
  <2>1. CASE endStreamPos' <= job'[t].end
    BY <1>2, <2>1 DEF EndCovered
  <2>2. CASE ~(endStreamPos' <= job'[t].end)
    <3>1. endStreamPos' = endStreamPos
      BY <1>2, <1>3, <2>2 DEF MaxPos
    <3>2. CASE Received(ackStreamPos, blocks, endStreamPos - 1)
      BY <1>2, <3>1, <3>2 DEF EndCovered
    <3>3. ASSUME NEW u \in Threads, pc[u] = "update", endStreamPos <= job[u].end PROVE EndCovered'
      <4>1. u \in Threads \ {t}
        BY <1>2, <3>3
      <4> QED
        BY <1>1, <3>1, <3>3, <4>1 DEF EndCovered
    <3> QED
      BY <3>2, <3>3 DEF RestInv, EndCovered
  <2> QED
    BY <2>1, <2>2
<1>5. UnreadIsTimed'
  <2>1. \A u \in Threads : pc[u] \in {"update", "pop"} => pc'[u] = pc[u] /\ job'[u] = job[u]
    BY <1>1, <1>2
  <2> QED
    BY <1>2, <2>1 DEF RestInv, UnreadIsTimed
<1> QED
  BY <1>4, <1>5 DEF RestInv

(* When no byte is saved ahead of the ack position, RecvQueuePopComplete-  *)
(* Buffers takes by force everything that is stored.                       *)
LEMMA ForcedPopTakesAll ==
  ASSUME NEW bs \in Seq(Buffer), NEW r \in Nat \ {0}, NEW top \in Nat,
         top <= Space(r, bs), Fits(r, bs, top), AllStored(r, bs, top),
         NEW n \in 0 .. Len(bs), NEW q \in Nat, q <= top, Leaves(r, bs, top, n, q),
         n < Len(bs) => bs[n + 1].end = 0
  PROVE  q = top
<1>1. CASE q = Begin(r, bs, n + 1)
  <2>1. CASE n = Len(bs)
    BY <1>1, <2>1 DEF Space
  <2>2. CASE n < Len(bs)
    <3>1. n + 1 \in DOMAIN bs /\ bs[n + 1].end = 0
      BY <2>2
    <3>2. bs[n + 1].end = IF q < top THEN MinPos(q + bs[n + 1].len, top) ELSE 0
      BY <1>1, <3>1, FilledUp DEF AllStored
    <3>3. bs[n + 1].len \in Nat \ {0}
      BY <3>1, BufferFields, ElementOfSeq
    <3>4. \A x \in Nat \ {0} : q < top => MinPos(q + x, top) # 0
      BY DEF MinPos
    <3>5. ~(q < top)
      BY <3>1, <3>2, <3>3, <3>4
    <3> QED
      BY <3>5
  <2> QED
    BY <2>1, <2>2
<1> QED
  BY <1>1 DEF Leaves

(* RecvQueuePopCompleteBuffers: a thread that pops by force with the ack   *)
(* position of now leaves nothing that was acknowledged, or bytes ahead of *)
(* it are saved and have yet to be acknowledged.                           *)
LEMMA RestPop ==
  ASSUME RecvInv, RestInv, NEW t \in Threads, PopCompleteBuffers(t)
  PROVE  RestInv'
<1>1. PICK ack \in job[t].seen .. ackStreamPos, n \in 0 .. Len(buffers) :
        /\ pc[t] = "pop"
        /\ \A i \in 1 .. n : CanPop(i, ack, job[t].force)
        /\ n < Len(buffers) => ~CanPop(n + 1, ack, job[t].force)
        /\ readStreamPos' = IF n = 0 THEN readStreamPos ELSE buffers[n].end
        /\ pc' = [pc EXCEPT ![t] = IF n = 0 THEN "idle" ELSE "queue"]
        /\ \E j : job' = [job EXCEPT ![t] = j]
        /\ UNCHANGED <<ackStreamPos, blocks, endStreamPos, recvTimer>>
  BY Zenon DEF PopCompleteBuffers, blockVars
<1>2. \A u \in Threads \ {t} : pc'[u] = pc[u] /\ job'[u] = job[u]
  BY <1>1 DEF RecvInv, RecvTypes
<1>3. \A u \in Threads : pc[u] = "update" => pc'[u] = "update" /\ job'[u] = job[u]
  BY <1>1, <1>2
<1>4. EndCovered'
  BY <1>1, <1>3, Zenon DEF RestInv, EndCovered, Received
<1>5. /\ buffers \in Seq(Buffer) /\ readStreamPos \in Nat \ {0} /\ ackStreamPos \in Nat /\ endStreamPos \in Nat
      /\ readStreamPos <= ackStreamPos /\ ackStreamPos <= endStreamPos
      /\ endStreamPos <= Space(readStreamPos, buffers)
      /\ Fits(readStreamPos, buffers, endStreamPos)
      /\ AllStored(readStreamPos, buffers, ackStreamPos)
      /\ readStreamPos' \in Nat /\ job[t].seen \in Nat /\ ack \in Nat /\ ack <= ackStreamPos
      /\ job[t].force \in BOOLEAN
  <2>1. InitStreamPos \in Nat \ {0} /\ job[t].seen \in Nat /\ job[t].force \in BOOLEAN
    BY RecvQueueAssumption DEF RecvInv, RecvTypes, Job, RecvQueueAssumption
  <2>2. readStreamPos' \in Nat
    BY PopCompleteBuffersInv DEF RecvInv, RecvTypes
  <2>3. /\ buffers \in Seq(Buffer) /\ ackStreamPos \in Nat /\ endStreamPos \in Nat
        /\ readStreamPos \in Nat /\ readyStreamPos \in Nat
    BY DEF RecvInv, RecvTypes
  <2>4. /\ InitStreamPos <= readyStreamPos /\ readyStreamPos <= readStreamPos
        /\ readStreamPos <= ackStreamPos /\ ackStreamPos <= endStreamPos
        /\ endStreamPos <= Space(readStreamPos, buffers)
        /\ Fits(readStreamPos, buffers, endStreamPos)
        /\ AllStored(readStreamPos, buffers, ackStreamPos)
    BY DEF RecvInv, StreamInv, Positions, AckedStored, AllStored
  <2>5. readStreamPos # 0
    BY <2>1, <2>3, <2>4
  <2>6. ack \in Nat /\ ack <= ackStreamPos
    BY <2>1, <2>3
  <2> QED
    BY <2>1, <2>2, <2>3, <2>4, <2>5, <2>6, Zenon
<1>6. \A i : CanPop(i, ack, job[t].force) <=> Can(readStreamPos, buffers, endStreamPos, i, ack, job[t].force)
  BY Zenon DEF CanPop, Can, PopStart, From
<1>7. PopStops(readStreamPos, buffers, endStreamPos, n, ack, job[t].force)
  BY <1>1, <1>6 DEF PopStops
<1>8. /\ readStreamPos <= readStreamPos' /\ readStreamPos' <= ackStreamPos
      /\ Leaves(readStreamPos, buffers, endStreamPos, n, readStreamPos')
  BY <1>1, <1>5, <1>7, PopPositions, SMTT(40)
<1>9. UnreadIsTimed'
  <2>1. CASE job[t].force /\ job[t].seen = ackStreamPos
    <3>1. ack = ackStreamPos /\ job[t].force = TRUE
      BY <1>5, <2>1
    <3>2. CASE endStreamPos = ackStreamPos
      <4>1. n < Len(buffers) => buffers[n + 1].end = 0
        BY <1>5, <1>7, <3>1, <3>2 DEF PopStops, Can
      <4>2. readStreamPos' = endStreamPos
        BY <1>5, <1>8, <3>2, <4>1, ForcedPopTakesAll
      <4> QED
        BY <1>1, <1>5, <3>2, <4>2 DEF UnreadIsTimed
    <3>3. CASE endStreamPos # ackStreamPos
      <4>1. ackStreamPos < endStreamPos
        BY <1>5, <3>3
      <4>2. CASE Received(ackStreamPos, blocks, endStreamPos - 1)
        <5>1. blocks # {}
          BY <1>5, <4>1, <4>2 DEF Received
        <5> QED
          BY <1>1, <5>1 DEF UnreadIsTimed
      <4>3. ASSUME NEW u \in Threads, pc[u] = "update", endStreamPos <= job[u].end PROVE UnreadIsTimed'
        <5>1. job[u].end \in Nat
          BY DEF RecvInv, RecvTypes, Job
        <5>2. pc'[u] = "update" /\ job'[u] = job[u]
          BY <1>3, <4>3
        <5>3. ackStreamPos < job[u].end
          BY <1>5, <4>1, <4>3, <5>1
        <5> QED
          BY <1>1, <5>2, <5>3 DEF UnreadIsTimed
      <4> QED
        BY <4>2, <4>3 DEF RestInv, EndCovered
    <3> QED
      BY <3>2, <3>3
  <2>2. CASE ~(job[t].force /\ job[t].seen = ackStreamPos)
    <3>1. readStreamPos' < ackStreamPos => readStreamPos < ackStreamPos
      BY <1>5, <1>8
    <3>2. \A u \in Threads : pc[u] = "pop" /\ job[u].force /\ job[u].seen = ackStreamPos
                             => pc'[u] = "pop" /\ job'[u] = job[u]
      BY <1>2, <2>2
    <3> QED
      BY <1>1, <1>3, <3>1, <3>2 DEF RestInv, UnreadIsTimed
  <2> QED
    BY <2>1, <2>2
<1> QED
  BY <1>4, <1>9 DEF RestInv

(* PackageConnectionRecvTimerCallback, and a FIN without payload: what the *)
(* timer stood for, the thread that pops by force now stands for.          *)
LEMMA RestForced ==
  ASSUME RecvInv, RestInv, NEW t \in Threads, RecvTimerFires(t) \/ FinPackage(t)
  PROVE  RestInv'
<1>1. /\ pc[t] = "idle"
      /\ pc' = [pc EXCEPT ![t] = "pop"]
      /\ job' = [job EXCEPT ![t] = [NoJob EXCEPT !.force = TRUE, !.seen = ackStreamPos]]
      /\ UNCHANGED <<ackStreamPos, blocks, endStreamPos, readStreamPos>>
  BY Zenon DEF RecvTimerFires, FinPackage, blockVars, streamVars
<1>2. /\ pc'[t] = "pop" /\ job'[t].force = TRUE /\ job'[t].seen = ackStreamPos
      /\ \A u \in Threads \ {t} : pc'[u] = pc[u] /\ job'[u] = job[u]
  BY <1>1 DEF RecvInv, RecvTypes, NoJob
<1>3. \A u \in Threads : pc[u] = "update" => pc'[u] = "update" /\ job'[u] = job[u]
  BY <1>1, <1>2
<1>4. EndCovered'
  BY <1>1, <1>3, Zenon DEF RestInv, EndCovered, Received
<1>5. UnreadIsTimed'
  BY <1>1, <1>2 DEF UnreadIsTimed
<1> QED
  BY <1>4, <1>5 DEF RestInv

(* The other steps enter and pop nothing.                                  *)
LEMMA RestOthers ==
  ASSUME RecvInv, RestInv
  PROVE  /\ \A id : AddBuffer(id) => RestInv'
         /\ \A t \in Threads : QueueReady(t) \/ NotifyNext(t) \/ Callback(t) => RestInv'
<1>1. ASSUME NEW id, AddBuffer(id) PROVE RestInv'
  <2>1. UNCHANGED <<ackStreamPos, blocks, endStreamPos, readStreamPos, recvTimer, pc, job>>
    BY <1>1 DEF AddBuffer, blockVars
  <2> QED
    BY <2>1, RestFrame
<1>2. ASSUME NEW t \in Threads, QueueReady(t) \/ NotifyNext(t) \/ Callback(t) PROVE RestInv'
  <2>1. /\ UNCHANGED <<ackStreamPos, blocks, endStreamPos, readStreamPos, recvTimer>>
        /\ pc[t] \notin {"update", "pop"}
        /\ \E l : pc' = [pc EXCEPT ![t] = l]
        /\ job' = job \/ \E j : job' = [job EXCEPT ![t] = j]
    <3>1. CASE QueueReady(t)
      BY <3>1, Zenon DEF QueueReady, blockVars, streamVars
    <3>2. CASE NotifyNext(t)
      BY <3>2 DEF NotifyNext, blockVars, streamVars, NoJob
    <3>3. CASE Callback(t)
      BY <3>3, Zenon DEF Callback, blockVars, streamVars
    <3> QED
      BY <1>2, <3>1, <3>2, <3>3
  <2>2. \A u \in Threads : pc[u] \in {"update", "pop"} => pc'[u] = pc[u] /\ job'[u] = job[u]
    BY <2>1 DEF RecvInv, RecvTypes
  <2> QED
    BY <2>1, <2>2, RestFrame
<1> QED
  BY <1>1, <1>2

(* A step of a thread that is in a callback, but for the entering.         *)
LEMMA RestThread ==
  ASSUME RecvInv, RestInv, NEW t \in Threads,
         PopCompleteBuffers(t) \/ QueueReady(t) \/ NotifyNext(t) \/ Callback(t) \/ RecvTimerFires(t) \/ FinPackage(t)
  PROVE  RestInv'
BY RestPop, RestForced, RestOthers

LEMMA RestInit == Init => RestInv
<1> SUFFICES ASSUME Init PROVE RestInv
  OBVIOUS
<1>1. InitStreamPos \in Nat \ {0} /\ ackStreamPos = InitStreamPos /\ endStreamPos = InitStreamPos
      /\ readStreamPos = InitStreamPos
  BY RecvQueueAssumption DEF RecvQueueAssumption, Init
<1> QED
  BY <1>1 DEF RestInv, EndCovered, UnreadIsTimed, Received

(* Every step keeps it.                                                    *)
LEMMA RestNext == RecvCutInv /\ RestInv /\ [Next]_vars => RestInv'
<1> SUFFICES ASSUME RecvInv, AsCut, RestInv, [Next]_vars PROVE RestInv'
  BY DEF RecvCutInv
<1>1. ASSUME NEW id \in BufferIds, AddBuffer(id) PROVE RestInv'
  BY <1>1, RestOthers
<1>2. ASSUME NEW t \in Threads, NEW s \in Segments, SavePayload(t, s) PROVE RestInv'
  <2>1. s \in StreamRange
    BY RecvQueueAssumption DEF RecvQueueAssumption, StreamRange
  <2> QED
    BY <1>2, <2>1, RestSave
<1>3. ASSUME NEW t \in Threads, UpdateStreamPos(t) PROVE RestInv'
  BY <1>3, OwnCut, RestUpdate
<1>4. ASSUME NEW t \in Threads,
             PopCompleteBuffers(t) \/ QueueReady(t) \/ NotifyNext(t) \/ Callback(t) \/ RecvTimerFires(t) \/ FinPackage(t)
      PROVE  RestInv'
  BY <1>4, RestThread
<1>5. CASE UNCHANGED vars
  BY <1>5, RestFrame DEF vars, blockVars, streamVars
<1> QED
  BY <1>1, <1>2, <1>3, <1>4, <1>5, Zenon DEF Next, ThreadStep

(* When every thread has returned the ready queue is empty; and nothing    *)
(* acknowledged is left behind.                                            *)
LEMMA ThreadsAtRest ==
  ASSUME RecvInv, RestInv, \A t \in Threads : pc[t] = "idle"
  PROVE  /\ ready = <<>>
         /\ ~recvTimer /\ blocks = {} => Len(delivered) = ackStreamPos - InitStreamPos
<1>1. ready = <<>>
  BY ReadyHandedOver DEF RecvInv
<1>2. ASSUME ~recvTimer, blocks = {} PROVE Len(delivered) = ackStreamPos - InitStreamPos
  <2>1. /\ readStreamPos \in Nat /\ ackStreamPos \in Nat /\ readyStreamPos \in Nat /\ InitStreamPos \in Nat
        /\ Len(delivered) \in Nat
        /\ readStreamPos <= ackStreamPos
    BY RecvQueueAssumption DEF RecvInv, RecvTypes, StreamInv, Positions, RecvQueueAssumption
  <2>2. readStreamPos = ackStreamPos
    <3>1. ~(readStreamPos < ackStreamPos)
      BY <1>2 DEF RestInv, UnreadIsTimed
    <3> QED
      BY <2>1, <3>1
  <2>3. Pieces = {}
    BY <1>1 DEF Pieces, Elements
  <2>4. readyStreamPos = readStreamPos
    BY <2>3 DEF RecvInv, QueueInv, Chain
  <2>5. readyStreamPos = InitStreamPos + Len(delivered)
    BY DEF RecvInv, QueueInv, Delivery
  <2> QED
    BY <2>1, <2>2, <2>4, <2>5
<1> QED
  BY <1>1, <1>2

(* Nothing is stranded, for any number of threads and any order in which   *)
(* they read the ack position, save, pop and find the timer armed.         *)
THEOREM NothingIsStranded == Spec => []NothingStranded
<1>1. Init => RecvCutInv /\ RestInv
  BY RecvInit, RestInit DEF RecvCutInv, AsCut, Init
<1>2. RecvCutInv /\ RestInv /\ [Next]_vars => (RecvCutInv /\ RestInv)'
  BY RecvNext, RestNext
<1>3. RecvCutInv /\ RestInv => NothingStranded
  BY ThreadsAtRest DEF RecvCutInv, NothingStranded
<1> QED
  BY <1>1, <1>2, <1>3, PTL DEF Spec

-----------------------------------------------------------------------------
(****************************************************************************)
(* The block list of RecvQueue.imp.inl, with its search from the latest     *)
(* block, its two merge loops and its deletions, does to the list what      *)
(* RecvQueue.tla does to the set of blocks: for every number of blocks,     *)
(* threads and packages.                                                    *)
(****************************************************************************)

(* A list of blocks in stream order, with a gap behind every one.          *)
Gapped(bs) ==
    /\ bs \in Seq(StreamRange)
    /\ \A i \in DOMAIN bs : bs[i].start < bs[i].end
    /\ \A i, j \in DOMAIN bs : i < j => bs[i].end < bs[j].start

(* RecvQueueRecvBlockCalcRelaPos tells where two blocks lie from their     *)
(* lengths: before, behind, touching or one inside the other.              *)
LEMMA RelativePosition ==
  ASSUME NEW b \in StreamRange, NEW r \in StreamRange, b.start < b.end, r.start < r.end
  PROVE  /\ L!Joins(b, r) <=> Touches(b, r)
         /\ L!RelativePos(b, r) = "NEXT" <=> b.end < r.start
         /\ L!RelativePos(b, r) = "PREV" <=> r.end < b.start
         /\ L!RelativePos(b, r) = "INCLUDE" <=>
               \/ b.start <= r.start /\ r.end <= b.end
               \/ r.start <= b.start /\ b.end <= r.end
<1>1. b.start \in Nat /\ b.end \in Nat /\ r.start \in Nat /\ r.end \in Nat
  BY DEF StreamRange
<1>2. CASE b.end < r.start
  BY <1>1, <1>2 DEF L!Joins, L!RelativePos, L!MaxPos, L!MinPos, L!SizeOf, Touches
<1>3. CASE r.end < b.start
  BY <1>1, <1>3 DEF L!Joins, L!RelativePos, L!MaxPos, L!MinPos, L!SizeOf, Touches
<1>4. CASE ~(b.end < r.start) /\ ~(r.end < b.start)
  BY <1>1, <1>4 DEF L!Joins, L!RelativePos, L!MaxPos, L!MinPos, L!SizeOf, Touches
<1> QED
  BY <1>2, <1>3, <1>4

(* A block of a list.                                                      *)
LEMMA BlockOfList ==
  ASSUME NEW bs \in Seq(StreamRange), NEW k \in DOMAIN bs
  PROVE  bs[k] \in StreamRange /\ bs[k].start \in Nat /\ bs[k].end \in Nat
<1>1. bs[k] \in StreamRange
  OBVIOUS
<1> QED
  BY <1>1 DEF StreamRange

(* The joined blocks, when it is known which one begins first and which    *)
(* one ends last.                                                          *)
LEMMA HullIs ==
  ASSUME NEW bs \in Seq(StreamRange), NEW lo \in DOMAIN bs, NEW hi \in DOMAIN bs,
         NEW m \in lo .. hi, NEW n \in lo .. hi,
         \A k \in lo .. hi : bs[m].start <= bs[k].start /\ bs[k].end <= bs[n].end
  PROVE  L!HullOf(bs, lo, hi) = [start |-> bs[m].start, end |-> bs[n].end]
<1> DEFINE S == {bs[k].start : k \in lo .. hi}
           T == {bs[k].end : k \in lo .. hi}
<1>0. \A k \in lo .. hi : k \in DOMAIN bs /\ bs[k] \in StreamRange
  OBVIOUS
<1>1. \A k \in lo .. hi : bs[k].start \in Nat /\ bs[k].end \in Nat
  BY <1>0 DEF StreamRange
<1>2. bs[m].start \in S /\ \A y \in S : y \in Nat /\ bs[m].start <= y
  BY <1>1
<1>3. bs[n].end \in T /\ \A y \in T : y \in Nat /\ bs[n].end >= y
  BY <1>1
<1>4. L!HullOf(bs, lo, hi) = [start |-> L!Min(S), end |-> L!Max(T)]
  BY DEF L!HullOf
<1> HIDE DEF S, T
<1>5. L!Min(S) = bs[m].start
  BY <1>2 DEF L!Min
<1>6. L!Max(T) = bs[n].end
  BY <1>3 DEF L!Max
<1> QED
  BY <1>4, <1>5, <1>6

(* cs is bs with the blocks lo .. hi replaced by w.                        *)
Replaced(bs, lo, hi, w, cs) ==
    /\ cs \in Seq(StreamRange)
    /\ Len(cs) = Len(bs) - (hi - lo)
    /\ \A k \in 1 .. (lo - 1) : cs[k] = bs[k]
    /\ cs[lo] = w
    /\ \A k \in (lo + 1) .. Len(cs) : cs[k] = bs[k + (hi - lo)]

(* Deleting the blocks lo .. hi.                                           *)
Deleted(bs, lo, hi) == SubSeq(bs, 1, lo - 1) \o SubSeq(bs, hi + 1, Len(bs))

IsDeleted(bs, lo, hi, cs) ==
    /\ cs \in Seq(StreamRange)
    /\ Len(cs) = Len(bs) - (hi - lo + 1)
    /\ \A k \in 1 .. (lo - 1) : cs[k] = bs[k]
    /\ \A k \in lo .. Len(cs) : cs[k] = bs[k + (hi - lo + 1)]

LEMMA DeletedBlocks ==
  ASSUME NEW bs \in Seq(StreamRange), NEW lo \in Nat, NEW hi \in Nat,
         lo >= 1, lo <= hi + 1, hi <= Len(bs), NEW cs, cs = Deleted(bs, lo, hi)
  PROVE  IsDeleted(bs, lo, hi, cs)
<1> DEFINE s == SubSeq(bs, 1, lo - 1)
           t == SubSeq(bs, hi + 1, Len(bs))
<1>1. s \in Seq(StreamRange) /\ Len(s) = lo - 1 /\ \A k \in 1 .. (lo - 1) : s[k] = bs[k]
  OBVIOUS
<1>2. t \in Seq(StreamRange) /\ Len(t) = Len(bs) - hi /\ \A k \in 1 .. (Len(bs) - hi) : t[k] = bs[k + hi]
  OBVIOUS
<1> HIDE DEF s, t
<1>3. cs = s \o t
  BY DEF Deleted, s, t
<1>4. /\ cs \in Seq(StreamRange)
      /\ Len(cs) = Len(s) + Len(t)
      /\ \A k \in 1 .. (Len(s) + Len(t)) : cs[k] = IF k <= Len(s) THEN s[k] ELSE t[k - Len(s)]
  <2>1. s \in Seq(StreamRange) /\ t \in Seq(StreamRange)
    BY <1>1, <1>2
  <2> QED
    BY <1>3, <2>1, ConcatProperties
<1>5. Len(bs) \in Nat /\ Len(cs) = Len(bs) - (hi - lo + 1)
  <2>1. Len(bs) \in Nat
    OBVIOUS
  <2>2. Len(cs) = Len(s) + Len(t) /\ Len(s) = lo - 1 /\ Len(t) = Len(bs) - hi
    BY <1>1, <1>2, <1>4
  <2> QED
    BY <2>1, <2>2
<1>6. ASSUME NEW k \in lo .. Len(cs) PROVE cs[k] = bs[k + (hi - lo + 1)]
  <2>1. k \in 1 .. (Len(s) + Len(t)) /\ ~(k <= Len(s)) /\ k - Len(s) \in 1 .. (Len(bs) - hi)
    <3>1. Len(s) = lo - 1 /\ Len(t) = Len(bs) - hi
      BY <1>1, <1>2
    <3> QED
      BY <1>5, <1>6, <3>1
  <2>2. cs[k] = t[k - Len(s)]
    BY <1>4, <2>1
  <2>3. k - Len(s) + hi = k + (hi - lo + 1)
    BY <1>1, <1>6
  <2> QED
    BY <1>2, <2>1, <2>2, <2>3
<1>7. ASSUME NEW k \in 1 .. (lo - 1) PROVE cs[k] = bs[k]
  <2>1. k \in 1 .. (Len(s) + Len(t)) /\ k <= Len(s)
    BY <1>1, <1>2, <1>7
  <2> QED
    BY <1>1, <1>4, <2>1
<1> QED
  BY <1>4, <1>5, <1>6, <1>7 DEF IsDeleted

-----------------------------------------------------------------------------
(* RecvQueueBlocksMerge                                                     *)

(* The latest index when the blocks lo .. hi are deleted.                  *)
Moved(n, lo, hi) == IF n < lo THEN n ELSE IF n <= hi THEN 0 ELSE n - (hi - lo + 1)

(* The blocks behind i lie apart, and none begins before the block at i.   *)
GappedBehind(bs, i) ==
    /\ \A k \in DOMAIN bs : bs[k].start < bs[k].end
    /\ \A k \in (i + 1) .. Len(bs) : bs[i].start <= bs[k].start
    /\ \A j, k \in (i + 1) .. Len(bs) : j < k => bs[j].end < bs[k].start

(* The block at i takes in those up to to, which are the ones it touches.  *)
TakesBehind(bs, i, to, w) ==
    /\ \A k \in (i + 1) .. to : bs[k].start <= bs[i].end
    /\ \A k \in (to + 1) .. Len(bs) : bs[i].end < bs[k].start
    /\ w = [start |-> bs[i].start, end |-> MaxPos(bs[i].end, bs[to].end)]

LEMMA HullBehind ==
  ASSUME NEW bs \in Seq(StreamRange), NEW i \in DOMAIN bs, GappedBehind(bs, i), NEW k \in i .. Len(bs)
  PROVE  L!HullOf(bs, i, k) = [start |-> bs[i].start, end |-> MaxPos(bs[i].end, bs[k].end)]
<1>0. i \in Nat /\ Len(bs) \in Nat /\ 1 <= i /\ k \in Nat /\ k \in DOMAIN bs /\ i <= k /\ k <= Len(bs)
  OBVIOUS
<1>1. \A j \in i .. k : j \in DOMAIN bs /\ bs[j].start \in Nat /\ bs[j].end \in Nat
  BY <1>0, BlockOfList
<1>2. ASSUME NEW j \in i .. k PROVE bs[i].start <= bs[j].start
  <2>1. CASE j = i
    BY <1>1, <2>1
  <2>2. CASE j # i
    <3>1. j \in (i + 1) .. Len(bs)
      BY <1>0, <2>2
    <3> QED
      BY <3>1 DEF GappedBehind
  <2> QED
    BY <2>1, <2>2
<1>3. ASSUME NEW j \in i .. k PROVE j = i \/ bs[j].end <= bs[k].end
  <2>1. CASE j = k
    BY <1>1, <2>1
  <2>2. CASE j # i /\ j # k
    <3>1. j \in (i + 1) .. Len(bs) /\ k \in (i + 1) .. Len(bs) /\ j < k
      BY <1>0, <2>2
    <3>2. bs[j].end < bs[k].start /\ bs[k].start < bs[k].end
      BY <1>0, <3>1 DEF GappedBehind
    <3> QED
      BY <1>0, <1>1, <3>2
  <2> QED
    BY <2>1, <2>2
<1>4. i \in i .. k /\ k \in i .. k
  BY <1>0
<1>5. CASE bs[i].end < bs[k].end
  <2>1. \A j \in i .. k : bs[i].start <= bs[j].start /\ bs[j].end <= bs[k].end
    BY <1>1, <1>2, <1>3, <1>4, <1>5
  <2>2. L!HullOf(bs, i, k) = [start |-> bs[i].start, end |-> bs[k].end]
    BY <1>0, <1>4, <2>1, HullIs
  <2> QED
    BY <1>5, <2>2 DEF MaxPos
<1>6. CASE ~(bs[i].end < bs[k].end)
  <2>1. \A j \in i .. k : bs[i].start <= bs[j].start /\ bs[j].end <= bs[i].end
    BY <1>1, <1>2, <1>3, <1>4, <1>6
  <2>2. L!HullOf(bs, i, k) = [start |-> bs[i].start, end |-> bs[i].end]
    BY <1>0, <1>4, <2>1, HullIs
  <2> QED
    BY <1>6, <2>2 DEF MaxPos
<1> QED
  BY <1>5, <1>6

LEMMA JoinsBehind ==
  ASSUME NEW bs \in Seq(StreamRange), NEW i \in DOMAIN bs, GappedBehind(bs, i),
         NEW k \in i .. (Len(bs) - 1)
  PROVE  L!Joins(L!HullOf(bs, i, k), bs[k + 1]) <=> bs[k + 1].start <= bs[i].end
<1> DEFINE h == [start |-> bs[i].start, end |-> MaxPos(bs[i].end, bs[k].end)]
           b == bs[k + 1]
<1>0. /\ i \in Nat /\ Len(bs) \in Nat /\ 1 <= i /\ k \in Nat /\ i <= k /\ k < Len(bs)
      /\ k \in i .. Len(bs) /\ k \in DOMAIN bs /\ k + 1 \in DOMAIN bs /\ k + 1 \in (i + 1) .. Len(bs)
  OBVIOUS
<1>1. L!HullOf(bs, i, k) = h
  <2>1. k \in i .. Len(bs)
    BY <1>0
  <2> QED
    BY <2>1, HullBehind
<1>2. /\ bs[i].start \in Nat /\ bs[i].end \in Nat /\ bs[k].start \in Nat /\ bs[k].end \in Nat
      /\ b \in StreamRange /\ b.start \in Nat /\ b.end \in Nat
  BY <1>0, BlockOfList
<1>3. /\ bs[i].start < bs[i].end /\ b.start < b.end /\ bs[i].start <= b.start
      /\ k = i \/ bs[k].end < b.start
  <2>1. bs[i].start < bs[i].end /\ b.start < b.end /\ bs[i].start <= b.start
    BY <1>0 DEF GappedBehind
  <2>2. CASE k # i
    <3>1. k \in (i + 1) .. Len(bs) /\ k < k + 1
      BY <1>0, <2>2
    <3> QED
      BY <1>0, <2>1, <3>1 DEF GappedBehind
  <2> QED
    BY <2>1, <2>2
<1>4. h \in StreamRange /\ h.start < h.end
  <2>1. MaxPos(bs[i].end, bs[k].end) \in Nat /\ bs[i].start < MaxPos(bs[i].end, bs[k].end)
    BY <1>2, <1>3 DEF MaxPos
  <2> QED
    BY <1>2, <2>1 DEF StreamRange
<1>5. Touches(h, b) <=> b.start <= bs[i].end
  BY <1>2, <1>3 DEF Touches, MaxPos
<1> HIDE DEF h, b
<1>6. L!Joins(h, b) <=> Touches(h, b)
  BY <1>2, <1>3, <1>4, RelativePosition
<1> QED
  BY <1>1, <1>5, <1>6 DEF b

LEMMA PutBlock ==
  ASSUME NEW bs, NEW n, NEW i, NEW w
  PROVE  [[blocks |-> bs, latest |-> n] EXCEPT !.blocks[i] = w]
            = [blocks |-> [bs EXCEPT ![i] = w], latest |-> n]
  OBVIOUS

LEMMA PutLatest ==
  ASSUME NEW bs, NEW n, NEW i
  PROVE  [[blocks |-> bs, latest |-> n] EXCEPT !.latest = i] = [blocks |-> bs, latest |-> i]
  OBVIOUS

LEMMA MergeNextEffect ==
  ASSUME NEW bs \in Seq(StreamRange), NEW i \in DOMAIN bs, GappedBehind(bs, i), NEW n \in Nat
  PROVE  \E to \in i .. Len(bs), w \in StreamRange, cs \in Seq(StreamRange) :
            /\ L!MergeNext([blocks |-> bs, latest |-> n], i)
                  = [blocks |-> cs, latest |-> Moved(n, i + 1, to)]
            /\ Replaced(bs, i, to, w, cs)
            /\ TakesBehind(bs, i, to, w)
<1>0. i \in Nat /\ Len(bs) \in Nat /\ 1 <= i /\ i <= Len(bs)
  OBVIOUS
<1>1. \A k \in DOMAIN bs : bs[k] \in StreamRange /\ bs[k].start \in Nat /\ bs[k].end \in Nat
  BY BlockOfList
<1> DEFINE Far(x) == x < Len(bs) => bs[i].end < bs[x + 1].start
           Runs1(x) == \A k \in i .. (x - 1) : bs[k + 1].start <= bs[i].end
           Stop(x) == /\ \A k \in i .. (x - 1) : L!Joins(L!HullOf(bs, i, k), bs[k + 1])
                      /\ x < Len(bs) => ~L!Joins(L!HullOf(bs, i, x), bs[x + 1])
           to == L!LastJoined(bs, i)
<1>2. ASSUME NEW x \in i .. Len(bs) PROVE Stop(x) <=> Runs1(x) /\ Far(x)
  <2>1. ASSUME NEW k \in i .. (x - 1)
        PROVE  L!Joins(L!HullOf(bs, i, k), bs[k + 1]) <=> bs[k + 1].start <= bs[i].end
    <3>1. k \in i .. (Len(bs) - 1)
      BY <1>0, <1>2
    <3> QED
      BY <3>1, JoinsBehind
  <2>2. ASSUME x < Len(bs)
        PROVE  L!Joins(L!HullOf(bs, i, x), bs[x + 1]) <=> ~(bs[i].end < bs[x + 1].start)
    <3>1. x \in i .. (Len(bs) - 1) /\ x + 1 \in DOMAIN bs
      BY <1>0, <1>2, <2>2
    <3>2. L!Joins(L!HullOf(bs, i, x), bs[x + 1]) <=> bs[x + 1].start <= bs[i].end
      BY <3>1, JoinsBehind
    <3> QED
      BY <1>1, <3>1, <3>2
  <2> QED
    BY <2>1, <2>2
<1>3. \E x \in i .. Len(bs) : Stop(x)
  <2> DEFINE N == {x \in i .. Len(bs) : Far(x)}
  <2>1. N \in SUBSET Nat /\ N # {}
    <3>1. Len(bs) \in i .. Len(bs) /\ Far(Len(bs))
      BY <1>0
    <3> QED
      BY <1>0, <3>1
  <2>2. PICK x \in N : \A y \in N : x <= y
    BY <2>1, Least
  <2>3. ASSUME NEW k \in i .. (x - 1) PROVE bs[k + 1].start <= bs[i].end
    <3>1. k \in i .. Len(bs) /\ ~(x <= k) /\ k + 1 \in DOMAIN bs
      BY <1>0, <2>2, <2>3
    <3>2. ~Far(k)
      BY <2>2, <3>1
    <3> QED
      BY <1>1, <3>1, <3>2
  <2> QED
    BY <1>2, <2>2, <2>3
<1>4. to \in i .. Len(bs) /\ Stop(to)
  BY <1>3 DEF L!LastJoined
<1>5. Runs1(to) /\ Far(to)
  BY <1>2, <1>4
<1> DEFINE w == [start |-> bs[i].start, end |-> MaxPos(bs[i].end, bs[to].end)]
           ds == [bs EXCEPT ![i] = w]
           cs == Deleted(ds, i + 1, to)
<1>6. L!HullOf(bs, i, to) = w
  BY <1>4, HullBehind
<1> HIDE DEF to, Stop
<1>7. L!MergeNext([blocks |-> bs, latest |-> n], i) = L!DeleteBlocks([blocks |-> ds, latest |-> n], i + 1, to)
  <2> DEFINE l == [blocks |-> bs, latest |-> n]
  <2>1. l.blocks = bs
    OBVIOUS
  <2>2. L!MergeNext(l, i) = L!DeleteBlocks([l EXCEPT !.blocks[i] = w], i + 1, to)
    <3> HIDE DEF l
    <3> QED
      BY <1>6, <2>1, Zenon DEF L!MergeNext, to
  <2>3. [l EXCEPT !.blocks[i] = w] = [blocks |-> ds, latest |-> n]
    BY PutBlock, SMTT(30)
  <2> QED
    BY <2>2, <2>3
<1>8. L!DeleteBlocks([blocks |-> ds, latest |-> n], i + 1, to) = [blocks |-> cs, latest |-> Moved(n, i + 1, to)]
  <2>1. to \in Nat /\ i + 1 \in Nat
    BY <1>0, <1>4
  <2>2. Moved(n, i + 1, to) = CASE n < i + 1 -> n
                                [] n \in (i + 1) .. to -> 0
                                [] n > to -> n - (to - (i + 1) + 1)
    BY <1>0, <1>4, <2>1 DEF Moved
  <2> HIDE DEF ds
  <2> QED
    BY <2>2 DEF L!DeleteBlocks, Deleted
<1>9. w \in StreamRange
  <2>1. to \in DOMAIN bs
    BY <1>0, <1>4
  <2>2. MaxPos(bs[i].end, bs[to].end) \in Nat
    BY <1>1, <2>1 DEF MaxPos
  <2> QED
    BY <1>1, <2>2 DEF StreamRange
<1>10. TakesBehind(bs, i, to, w)
  <2>1. ASSUME NEW k \in (i + 1) .. to PROVE bs[k].start <= bs[i].end
    <3>1. k - 1 \in i .. (to - 1) /\ (k - 1) + 1 = k
      BY <1>0, <1>4
    <3> QED
      BY <1>5, <3>1
  <2>2. ASSUME NEW k \in (to + 1) .. Len(bs) PROVE bs[i].end < bs[k].start
    <3>1. /\ to < Len(bs) /\ to + 1 \in DOMAIN bs /\ k \in DOMAIN bs
          /\ to + 1 \in (i + 1) .. Len(bs) /\ k \in (i + 1) .. Len(bs)
      BY <1>0, <1>4
    <3>2. bs[i].end < bs[to + 1].start
      BY <1>5, <3>1
    <3>3. k = to + 1 \/ to + 1 < k
      BY <1>0, <1>4
    <3>4. CASE to + 1 < k
      <4>1. bs[to + 1].start < bs[to + 1].end /\ bs[to + 1].end < bs[k].start
        BY <3>1, <3>4 DEF GappedBehind
      <4> QED
        BY <1>1, <3>1, <3>2, <4>1
    <3> QED
      BY <3>2, <3>3, <3>4
  <2> QED
    BY <2>1, <2>2 DEF TakesBehind
<1>11. ds \in Seq(StreamRange) /\ Len(ds) = Len(bs) /\ ds[i] = w /\ \A k \in DOMAIN bs : k # i => ds[k] = bs[k]
  BY <1>9
<1> HIDE DEF w, ds, Far, Runs1
<1>12. /\ cs \in Seq(StreamRange)
       /\ Len(cs) = Len(ds) - (to - (i + 1) + 1)
       /\ \A k \in 1 .. ((i + 1) - 1) : cs[k] = ds[k]
       /\ \A k \in (i + 1) .. Len(cs) : cs[k] = ds[k + (to - (i + 1) + 1)]
  <2>1. i + 1 \in Nat /\ to \in Nat /\ i + 1 >= 1 /\ i + 1 <= to + 1 /\ to <= Len(ds)
    BY <1>0, <1>4, <1>11
  <2>2. cs = Deleted(ds, i + 1, to)
    BY DEF cs
  <2>3. ds \in Seq(StreamRange)
    BY <1>11
  <2>4. IsDeleted(ds, i + 1, to, cs)
    BY <2>1, <2>2, <2>3, DeletedBlocks
  <2> QED
    BY <2>4 DEF IsDeleted
<1> HIDE DEF cs
<1>13. Replaced(bs, i, to, w, cs)
  <2>0. to \in Nat /\ i <= to /\ to <= Len(bs) /\ Len(cs) = Len(bs) - (to - i)
    BY <1>0, <1>4, <1>11, <1>12
  <2>1. ASSUME NEW k \in 1 .. (i - 1) PROVE cs[k] = bs[k]
    <3>1. k \in 1 .. ((i + 1) - 1) /\ k \in DOMAIN bs /\ k # i
      BY <1>0
    <3> QED
      BY <1>11, <1>12, <3>1
  <2>2. cs[i] = w
    <3>1. i \in 1 .. ((i + 1) - 1)
      BY <1>0
    <3> QED
      BY <1>11, <1>12, <3>1
  <2>3. ASSUME NEW k \in (i + 1) .. Len(cs) PROVE cs[k] = bs[k + (to - i)]
    <3>1. k + (to - (i + 1) + 1) = k + (to - i) /\ k + (to - i) \in DOMAIN bs /\ k + (to - i) # i
      BY <1>0, <2>0
    <3> QED
      BY <1>11, <1>12, <3>1
  <2> QED
    BY <1>12, <2>0, <2>1, <2>2, <2>3 DEF Replaced
<1> QED
  BY <1>4, <1>7, <1>8, <1>9, <1>10, <1>12, <1>13

(* The same for the blocks before i.                                       *)
GappedBefore(bs, i) ==
    /\ \A k \in DOMAIN bs : bs[k].start < bs[k].end
    /\ \A k \in 1 .. (i - 1) : bs[k].end <= bs[i].end
    /\ \A j, k \in 1 .. (i - 1) : j < k => bs[j].end < bs[k].start

TakesBefore(bs, i, from, w) ==
    /\ \A k \in from .. (i - 1) : bs[i].start <= bs[k].end
    /\ \A k \in 1 .. (from - 1) : bs[k].end < bs[i].start
    /\ w = [start |-> MinPos(bs[i].start, bs[from].start), end |-> bs[i].end]

LEMMA HullBefore ==
  ASSUME NEW bs \in Seq(StreamRange), NEW i \in DOMAIN bs, GappedBefore(bs, i), NEW k \in 1 .. i
  PROVE  L!HullOf(bs, k, i) = [start |-> MinPos(bs[i].start, bs[k].start), end |-> bs[i].end]
<1>0. i \in Nat /\ Len(bs) \in Nat /\ i <= Len(bs) /\ k \in Nat /\ k \in DOMAIN bs /\ 1 <= k /\ k <= i
  OBVIOUS
<1>1. \A j \in k .. i : j \in DOMAIN bs /\ bs[j].start \in Nat /\ bs[j].end \in Nat
  BY <1>0, BlockOfList
<1>2. ASSUME NEW j \in k .. i PROVE bs[j].end <= bs[i].end
  <2>1. CASE j = i
    BY <1>1, <2>1
  <2>2. CASE j # i
    <3>1. j \in 1 .. (i - 1)
      BY <1>0, <2>2
    <3> QED
      BY <3>1 DEF GappedBefore
  <2> QED
    BY <2>1, <2>2
<1>3. ASSUME NEW j \in k .. i PROVE j = i \/ bs[k].start <= bs[j].start
  <2>1. CASE j = k
    BY <1>1, <2>1
  <2>2. CASE j # i /\ j # k
    <3>1. j \in 1 .. (i - 1) /\ k \in 1 .. (i - 1) /\ k < j
      BY <1>0, <2>2
    <3>2. bs[k].end < bs[j].start /\ bs[k].start < bs[k].end
      BY <1>0, <3>1 DEF GappedBefore
    <3>3. k \in k .. i
      BY <1>0
    <3> QED
      BY <1>1, <3>2, <3>3
  <2> QED
    BY <2>1, <2>2
<1>4. i \in k .. i /\ k \in k .. i
  BY <1>0
<1>5. CASE bs[i].start < bs[k].start
  <2>1. \A j \in k .. i : bs[i].start <= bs[j].start /\ bs[j].end <= bs[i].end
    BY <1>1, <1>2, <1>3, <1>4, <1>5
  <2>2. L!HullOf(bs, k, i) = [start |-> bs[i].start, end |-> bs[i].end]
    BY <1>0, <1>4, <2>1, HullIs
  <2> QED
    BY <1>5, <2>2 DEF MinPos
<1>6. CASE ~(bs[i].start < bs[k].start)
  <2>1. \A j \in k .. i : bs[k].start <= bs[j].start /\ bs[j].end <= bs[i].end
    BY <1>1, <1>2, <1>3, <1>4, <1>6
  <2>2. L!HullOf(bs, k, i) = [start |-> bs[k].start, end |-> bs[i].end]
    BY <1>0, <1>4, <2>1, HullIs
  <2> QED
    BY <1>6, <2>2 DEF MinPos
<1> QED
  BY <1>5, <1>6

LEMMA JoinsBefore ==
  ASSUME NEW bs \in Seq(StreamRange), NEW i \in DOMAIN bs, GappedBefore(bs, i), NEW k \in 2 .. i
  PROVE  L!Joins(L!HullOf(bs, k, i), bs[k - 1]) <=> bs[i].start <= bs[k - 1].end
<1> DEFINE h == [start |-> MinPos(bs[i].start, bs[k].start), end |-> bs[i].end]
           b == bs[k - 1]
<1>0. /\ i \in Nat /\ Len(bs) \in Nat /\ i <= Len(bs) /\ k \in Nat /\ k <= i /\ 2 <= k
      /\ k \in 1 .. i /\ k \in DOMAIN bs /\ k - 1 \in DOMAIN bs /\ k - 1 \in 1 .. (i - 1)
  OBVIOUS
<1>1. L!HullOf(bs, k, i) = h
  <2>1. k \in 1 .. i
    BY <1>0
  <2> QED
    BY <2>1, HullBefore
<1>2. /\ bs[i].start \in Nat /\ bs[i].end \in Nat /\ bs[k].start \in Nat /\ bs[k].end \in Nat
      /\ b \in StreamRange /\ b.start \in Nat /\ b.end \in Nat
  BY <1>0, BlockOfList
<1>3. /\ bs[i].start < bs[i].end /\ b.start < b.end /\ b.end <= bs[i].end
      /\ k = i \/ b.end < bs[k].start
  <2>1. bs[i].start < bs[i].end /\ b.start < b.end /\ b.end <= bs[i].end
    BY <1>0 DEF GappedBefore
  <2>2. CASE k # i
    <3>1. k \in 1 .. (i - 1) /\ k - 1 < k
      BY <1>0, <2>2
    <3> QED
      BY <1>0, <2>1, <3>1 DEF GappedBefore
  <2> QED
    BY <2>1, <2>2
<1>4. h \in StreamRange /\ h.start < h.end
  <2>1. MinPos(bs[i].start, bs[k].start) \in Nat /\ MinPos(bs[i].start, bs[k].start) < bs[i].end
    BY <1>2, <1>3 DEF MinPos
  <2> QED
    BY <1>2, <2>1 DEF StreamRange
<1>5. Touches(h, b) <=> bs[i].start <= b.end
  BY <1>2, <1>3 DEF Touches, MinPos
<1> HIDE DEF h, b
<1>6. L!Joins(h, b) <=> Touches(h, b)
  BY <1>2, <1>3, <1>4, RelativePosition
<1> QED
  BY <1>1, <1>5, <1>6 DEF b

LEMMA MergePrevEffect ==
  ASSUME NEW bs \in Seq(StreamRange), NEW i \in DOMAIN bs, GappedBefore(bs, i), NEW n \in Nat
  PROVE  \E from \in 1 .. i, w \in StreamRange, cs \in Seq(StreamRange) :
            /\ L!MergePrev([blocks |-> bs, latest |-> n], i)
                  = [blocks |-> cs, latest |-> Moved(n, from, i - 1)]
            /\ Replaced(bs, from, i, w, cs)
            /\ TakesBefore(bs, i, from, w)
<1>0. i \in Nat /\ Len(bs) \in Nat /\ 1 <= i /\ i <= Len(bs)
  OBVIOUS
<1>1. \A k \in DOMAIN bs : bs[k] \in StreamRange /\ bs[k].start \in Nat /\ bs[k].end \in Nat
  BY BlockOfList
<1> DEFINE Far(x) == x > 1 => bs[x - 1].end < bs[i].start
           Runs1(x) == \A k \in (x + 1) .. i : bs[i].start <= bs[k - 1].end
           Stop(x) == /\ \A k \in (x + 1) .. i : L!Joins(L!HullOf(bs, k, i), bs[k - 1])
                      /\ x > 1 => ~L!Joins(L!HullOf(bs, x, i), bs[x - 1])
           from == L!FirstJoined(bs, i)
<1>2. ASSUME NEW x \in 1 .. i PROVE Stop(x) <=> Runs1(x) /\ Far(x)
  <2>1. ASSUME NEW k \in (x + 1) .. i
        PROVE  L!Joins(L!HullOf(bs, k, i), bs[k - 1]) <=> bs[i].start <= bs[k - 1].end
    <3>1. k \in 2 .. i
      BY <1>0, <1>2
    <3> QED
      BY <3>1, JoinsBefore
  <2>2. ASSUME x > 1
        PROVE  L!Joins(L!HullOf(bs, x, i), bs[x - 1]) <=> ~(bs[x - 1].end < bs[i].start)
    <3>1. x \in 2 .. i /\ x - 1 \in DOMAIN bs
      BY <1>0, <1>2, <2>2
    <3>2. L!Joins(L!HullOf(bs, x, i), bs[x - 1]) <=> bs[i].start <= bs[x - 1].end
      BY <3>1, JoinsBefore
    <3> QED
      BY <1>1, <3>1, <3>2
  <2> QED
    BY <2>1, <2>2
<1>3. \E x \in 1 .. i : Stop(x)
  <2> DEFINE N == {x \in 1 .. i : Runs1(x)}
  <2>1. N \in SUBSET Nat /\ N # {}
    <3>1. i \in 1 .. i /\ Runs1(i)
      BY <1>0
    <3> QED
      BY <1>0, <3>1
  <2>2. PICK x \in N : \A y \in N : x <= y
    BY <2>1, Least
  <2>3. Runs1(x) /\ x \in 1 .. i
    BY <2>2
  <2>4. Far(x)
    <3> SUFFICES ASSUME x > 1, ~(bs[x - 1].end < bs[i].start) PROVE FALSE
      OBVIOUS
    <3>1. x - 1 \in 1 .. i /\ ~(x <= x - 1) /\ x - 1 \in DOMAIN bs
      BY <1>0, <2>3
    <3>2. bs[i].start <= bs[x - 1].end
      BY <1>1, <3>1
    <3>3. ASSUME NEW k \in ((x - 1) + 1) .. i PROVE bs[i].start <= bs[k - 1].end
      <4>1. k = x \/ k \in (x + 1) .. i
        BY <1>0, <2>3
      <4> QED
        BY <2>3, <3>2, <4>1
    <3> QED
      BY <2>2, <3>1, <3>3
  <2> QED
    BY <1>2, <2>3, <2>4
<1>4. from \in 1 .. i /\ Stop(from)
  BY <1>3 DEF L!FirstJoined
<1>5. Runs1(from) /\ Far(from)
  BY <1>2, <1>4
<1> DEFINE w == [start |-> MinPos(bs[i].start, bs[from].start), end |-> bs[i].end]
           ds == [bs EXCEPT ![i] = w]
           cs == Deleted(ds, from, i - 1)
<1>6. L!HullOf(bs, from, i) = w
  BY <1>4, HullBefore
<1> HIDE DEF from, Stop
<1>7. L!MergePrev([blocks |-> bs, latest |-> n], i) = L!DeleteBlocks([blocks |-> ds, latest |-> n], from, i - 1)
  <2> DEFINE l == [blocks |-> bs, latest |-> n]
  <2>1. l.blocks = bs
    OBVIOUS
  <2>2. L!MergePrev(l, i) = L!DeleteBlocks([l EXCEPT !.blocks[i] = w], from, i - 1)
    <3> HIDE DEF l
    <3> QED
      BY <1>6, <2>1, Zenon DEF L!MergePrev, from
  <2>3. [l EXCEPT !.blocks[i] = w] = [blocks |-> ds, latest |-> n]
    BY PutBlock, SMTT(30)
  <2> QED
    BY <2>2, <2>3
<1>8. L!DeleteBlocks([blocks |-> ds, latest |-> n], from, i - 1) = [blocks |-> cs, latest |-> Moved(n, from, i - 1)]
  <2>1. from \in Nat /\ i - 1 \in Nat
    BY <1>0, <1>4
  <2>2. Moved(n, from, i - 1) = CASE n < from -> n
                                  [] n \in from .. (i - 1) -> 0
                                  [] n > i - 1 -> n - ((i - 1) - from + 1)
    BY <1>0, <1>4, <2>1 DEF Moved
  <2> HIDE DEF ds
  <2> QED
    BY <2>2 DEF L!DeleteBlocks, Deleted
<1>9. w \in StreamRange
  <2>1. from \in DOMAIN bs
    BY <1>0, <1>4
  <2>2. MinPos(bs[i].start, bs[from].start) \in Nat
    BY <1>1, <2>1 DEF MinPos
  <2> QED
    BY <1>1, <2>2 DEF StreamRange
<1>10. TakesBefore(bs, i, from, w)
  <2>1. ASSUME NEW k \in from .. (i - 1) PROVE bs[i].start <= bs[k].end
    <3>1. k + 1 \in (from + 1) .. i /\ (k + 1) - 1 = k
      BY <1>0, <1>4
    <3> QED
      BY <1>5, <3>1
  <2>2. ASSUME NEW k \in 1 .. (from - 1) PROVE bs[k].end < bs[i].start
    <3>1. /\ from > 1 /\ from - 1 \in DOMAIN bs /\ k \in DOMAIN bs
          /\ from - 1 \in 1 .. (i - 1) /\ k \in 1 .. (i - 1)
      BY <1>0, <1>4
    <3>2. bs[from - 1].end < bs[i].start
      BY <1>5, <3>1
    <3>3. k = from - 1 \/ k < from - 1
      BY <1>0, <1>4
    <3>4. CASE k < from - 1
      <4>1. bs[from - 1].start < bs[from - 1].end /\ bs[k].end < bs[from - 1].start
        BY <3>1, <3>4 DEF GappedBefore
      <4> QED
        BY <1>1, <3>1, <3>2, <4>1
    <3> QED
      BY <3>2, <3>3, <3>4
  <2> QED
    BY <2>1, <2>2 DEF TakesBefore
<1>11. ds \in Seq(StreamRange) /\ Len(ds) = Len(bs) /\ ds[i] = w /\ \A k \in DOMAIN bs : k # i => ds[k] = bs[k]
  BY <1>9
<1> HIDE DEF w, ds, Far, Runs1
<1>12. /\ cs \in Seq(StreamRange)
       /\ Len(cs) = Len(ds) - ((i - 1) - from + 1)
       /\ \A k \in 1 .. (from - 1) : cs[k] = ds[k]
       /\ \A k \in from .. Len(cs) : cs[k] = ds[k + ((i - 1) - from + 1)]
  <2>1. from \in Nat /\ i - 1 \in Nat /\ from >= 1 /\ from <= (i - 1) + 1 /\ i - 1 <= Len(ds)
    BY <1>0, <1>4, <1>11
  <2>2. cs = Deleted(ds, from, i - 1)
    BY DEF cs
  <2>3. ds \in Seq(StreamRange)
    BY <1>11
  <2>4. IsDeleted(ds, from, i - 1, cs)
    BY <2>1, <2>2, <2>3, DeletedBlocks
  <2> QED
    BY <2>4 DEF IsDeleted
<1> HIDE DEF cs
<1>13. Replaced(bs, from, i, w, cs)
  <2>0. from \in Nat /\ 1 <= from /\ from <= i /\ Len(cs) = Len(bs) - (i - from)
    BY <1>0, <1>4, <1>11, <1>12
  <2>1. ASSUME NEW k \in 1 .. (from - 1) PROVE cs[k] = bs[k]
    <3>1. k \in DOMAIN bs /\ k # i
      BY <1>0, <2>0
    <3> QED
      BY <1>11, <1>12, <3>1
  <2>2. cs[from] = w
    <3>1. from \in from .. Len(cs) /\ from + ((i - 1) - from + 1) = i
      BY <1>0, <2>0
    <3> QED
      BY <1>11, <1>12, <3>1
  <2>3. ASSUME NEW k \in (from + 1) .. Len(cs) PROVE cs[k] = bs[k + (i - from)]
    <3>1. /\ k \in from .. Len(cs) /\ k + ((i - 1) - from + 1) = k + (i - from)
          /\ k + (i - from) \in DOMAIN bs /\ k + (i - from) # i
      BY <1>0, <2>0
    <3> QED
      BY <1>11, <1>12, <3>1
  <2> QED
    BY <1>12, <2>0, <2>1, <2>2, <2>3 DEF Replaced
<1> QED
  BY <1>4, <1>7, <1>8, <1>9, <1>10, <1>12, <1>13

(* What a block at i that was widened by a range r it touches becomes.     *)
MergesRange(bs, r, lo, hi, m) ==
    /\ \A k \in DOMAIN bs : Touches(bs[k], r) <=> k \in lo .. hi
    /\ m = [start |-> MinPos(r.start, bs[lo].start), end |-> MaxPos(r.end, bs[hi].end)]

LEMMA ReplacedTwice ==
  ASSUME NEW bs \in Seq(StreamRange), NEW cs \in Seq(StreamRange), NEW ds \in Seq(StreamRange),
         NEW i \in Nat, NEW from \in Nat, NEW to \in Nat, NEW w, NEW m,
         1 <= from, from <= i, i <= to, to <= Len(bs),
         Replaced(bs, i, to, w, cs), Replaced(cs, from, i, m, ds)
  PROVE  Replaced(bs, from, to, m, ds)
<1>0. Len(bs) \in Nat /\ Len(cs) \in Nat /\ Len(ds) \in Nat
  OBVIOUS
<1>1. /\ Len(cs) = Len(bs) - (to - i)
      /\ \A k \in 1 .. (i - 1) : cs[k] = bs[k]
      /\ \A k \in (i + 1) .. Len(cs) : cs[k] = bs[k + (to - i)]
  BY DEF Replaced
<1>2. /\ Len(ds) = Len(cs) - (i - from)
      /\ \A k \in 1 .. (from - 1) : ds[k] = cs[k]
      /\ ds[from] = m
      /\ \A k \in (from + 1) .. Len(ds) : ds[k] = cs[k + (i - from)]
  BY DEF Replaced
<1>3. Len(ds) = Len(bs) - (to - from)
  BY <1>0, <1>1, <1>2
<1>4. ASSUME NEW k \in 1 .. (from - 1) PROVE ds[k] = bs[k]
  <2>1. k \in 1 .. (i - 1)
    OBVIOUS
  <2> QED
    BY <1>1, <1>2, <2>1
<1>5. ASSUME NEW k \in (from + 1) .. Len(ds) PROVE ds[k] = bs[k + (to - from)]
  <2>1. k + (i - from) \in (i + 1) .. Len(cs) /\ (k + (i - from)) + (to - i) = k + (to - from)
    BY <1>0, <1>2
  <2> QED
    BY <1>1, <1>2, <2>1
<1> QED
  BY <1>2, <1>3, <1>4, <1>5 DEF Replaced

LEMMA BehindShifted ==
  ASSUME NEW k \in Nat, NEW i \in Nat, NEW to \in Nat, NEW b \in Nat, NEW c \in Nat,
         i + 1 <= k, k <= c, c = b - (to - i), i <= to
  PROVE  k + (to - i) \in 1 .. b /\ k + (to - i) # i
OBVIOUS

Widened(bs, i, r) == [bs EXCEPT ![i] = L!Hull(bs[i], r)]

LEMMA MergeEffect ==
  ASSUME NEW bs, Gapped(bs), NEW i \in DOMAIN bs, NEW r \in StreamRange, r.start < r.end,
         Touches(bs[i], r), NEW n \in Nat, NEW ws, ws = Widened(bs, i, r)
  PROVE  \E lo \in 1 .. i, hi \in i .. Len(bs), m \in StreamRange, cs \in Seq(StreamRange) :
            /\ L!BlocksMerge([blocks |-> ws, latest |-> n], i)
                  = [blocks |-> cs, latest |-> Moved(Moved(n, i + 1, hi), lo, i - 1)]
            /\ Replaced(bs, lo, hi, m, cs)
            /\ MergesRange(bs, r, lo, hi, m)
<1>0. bs \in Seq(StreamRange) /\ i \in Nat /\ Len(bs) \in Nat /\ 1 <= i /\ i <= Len(bs)
  BY DEF Gapped
<1>1. \A k \in DOMAIN bs : bs[k] \in StreamRange /\ bs[k].start \in Nat /\ bs[k].end \in Nat
  BY <1>0, BlockOfList
<1>2. /\ \A k \in DOMAIN bs : bs[k].start < bs[k].end
      /\ \A j, k \in DOMAIN bs : j < k => bs[j].end < bs[k].start
  BY DEF Gapped
<1>3. r.start \in Nat /\ r.end \in Nat
  BY DEF StreamRange
<1>4. bs[i].start <= r.end /\ r.start <= bs[i].end
  BY DEF Touches
<1> DEFINE W == L!Hull(bs[i], r)
<1>5. W = [start |-> MinPos(bs[i].start, r.start), end |-> MaxPos(bs[i].end, r.end)]
  BY DEF L!Hull, L!MinPos, L!MaxPos, MinPos, MaxPos
<1>6. W.start = MinPos(bs[i].start, r.start) /\ W.end = MaxPos(bs[i].end, r.end)
  BY <1>5
<1>7. /\ W.start \in Nat /\ W.end \in Nat /\ W.start < W.end
      /\ W.start <= bs[i].start /\ W.start <= r.start /\ (W.start = bs[i].start \/ W.start = r.start)
      /\ bs[i].end <= W.end /\ r.end <= W.end /\ (W.end = bs[i].end \/ W.end = r.end)
  BY <1>0, <1>1, <1>2, <1>3, <1>6 DEF MinPos, MaxPos
<1>8. W \in StreamRange
  BY <1>5, <1>6, <1>7 DEF StreamRange
<1> HIDE DEF W
<1>9. ws \in Seq(StreamRange) /\ Len(ws) = Len(bs) /\ ws[i] = W /\ \A k \in DOMAIN bs : k # i => ws[k] = bs[k]
  <2>1. ws = [bs EXCEPT ![i] = W]
    BY DEF W, Widened
  <2> QED
    BY <1>0, <1>8, <2>1
<1>10. GappedBehind(ws, i)
  <2>0. \A k \in (i + 1) .. Len(ws) : k \in DOMAIN bs /\ k # i /\ i < k
    BY <1>0, <1>9
  <2>1. ASSUME NEW k \in DOMAIN ws PROVE ws[k].start < ws[k].end
    <3>1. k \in DOMAIN bs
      BY <1>0, <1>9
    <3> QED
      BY <1>2, <1>7, <1>9, <3>1
  <2>2. ASSUME NEW k \in (i + 1) .. Len(ws) PROVE ws[i].start <= ws[k].start
    BY <1>1, <1>2, <1>7, <1>9, <2>0, SMTT(30)
  <2>3. ASSUME NEW j \in (i + 1) .. Len(ws), NEW k \in (i + 1) .. Len(ws), j < k PROVE ws[j].end < ws[k].start
    BY <1>2, <1>9, <2>0, <2>3
  <2> QED
    BY <2>1, <2>2, <2>3 DEF GappedBehind
<1>11. PICK to \in i .. Len(ws), w \in StreamRange, cs \in Seq(StreamRange) :
            /\ L!MergeNext([blocks |-> ws, latest |-> n], i) = [blocks |-> cs, latest |-> Moved(n, i + 1, to)]
            /\ Replaced(ws, i, to, w, cs)
            /\ TakesBehind(ws, i, to, w)
  <2>1. i \in DOMAIN ws
    BY <1>0, <1>9
  <2> QED
    BY <1>9, <1>10, <2>1, MergeNextEffect
<1>12. to \in Nat /\ i <= to /\ to <= Len(bs) /\ to \in DOMAIN bs
  BY <1>0, <1>9
<1>13. /\ Len(cs) = Len(bs) - (to - i) /\ Len(cs) \in Nat /\ i \in DOMAIN cs
       /\ \A k \in 1 .. (i - 1) : cs[k] = bs[k]
       /\ cs[i] = w
       /\ \A k \in (i + 1) .. Len(cs) : cs[k] = bs[k + (to - i)]
  <2>1. /\ Len(cs) = Len(ws) - (to - i)
        /\ \A k \in 1 .. (i - 1) : cs[k] = ws[k]
        /\ cs[i] = w
        /\ \A k \in (i + 1) .. Len(cs) : cs[k] = ws[k + (to - i)]
    BY <1>11 DEF Replaced
  <2>2. Len(cs) = Len(bs) - (to - i) /\ Len(cs) \in Nat /\ i \in DOMAIN cs
    BY <1>0, <1>9, <1>12, <2>1
  <2>3. ASSUME NEW k \in 1 .. (i - 1) PROVE cs[k] = bs[k]
    <3>1. k \in DOMAIN bs /\ k # i
      BY <1>0
    <3> QED
      BY <1>9, <2>1, <3>1
  <2>4. ASSUME NEW k \in (i + 1) .. Len(cs) PROVE cs[k] = bs[k + (to - i)]
    <3>0. k \in Nat /\ i + 1 <= k /\ k <= Len(cs)
      BY <1>0, <2>2
    <3>a. k + (to - i) \in 1 .. Len(bs) /\ k + (to - i) # i
      BY <1>0, <1>12, <2>2, <3>0, BehindShifted, ZenonT(30)
    <3>1. k + (to - i) \in DOMAIN bs /\ k + (to - i) # i
      BY <1>0, <3>a
    <3>2. ws[k + (to - i)] = bs[k + (to - i)]
      BY <1>9, <3>1, Zenon
    <3>3. cs[k] = ws[k + (to - i)]
      BY <2>1
    <3> QED
      BY <3>2, <3>3
  <2> QED
    BY <2>1, <2>2, <2>3, <2>4
<1>14. /\ \A k \in (i + 1) .. to : ws[k].start <= W.end
       /\ \A k \in (to + 1) .. Len(bs) : W.end < ws[k].start
       /\ w = [start |-> W.start, end |-> MaxPos(W.end, ws[to].end)]
  BY <1>9, <1>11 DEF TakesBehind
<1>15. /\ w.start = W.start /\ w.end \in Nat /\ w.start < w.end /\ W.end <= w.end
       /\ w.end = MaxPos(r.end, bs[to].end)
  <2>1. w.start = W.start /\ w.end = MaxPos(W.end, ws[to].end)
    BY <1>14
  <2>2. CASE to = i
    <3>1. w.end = W.end
      BY <1>7, <1>9, <2>1, <2>2 DEF MaxPos
    <3> QED
      BY <1>0, <1>1, <1>3, <1>6, <1>7, <2>1, <2>2, <3>1 DEF MaxPos
  <2>3. CASE to # i
    <3>1. ws[to] = bs[to] /\ i < to /\ bs[i].end < bs[to].start /\ bs[to].start < bs[to].end
      BY <1>2, <1>9, <1>12, <2>3
    <3> QED
      BY <1>0, <1>1, <1>3, <1>6, <1>7, <1>12, <2>1, <3>1, SMTT(30) DEF MaxPos
  <2> QED
    BY <2>2, <2>3
<1>16. GappedBefore(cs, i)
  <2>0. \A k \in 1 .. (i - 1) : k \in DOMAIN bs /\ k < i
    BY <1>0
  <2>1. ASSUME NEW k \in DOMAIN cs PROVE cs[k].start < cs[k].end
    <3>1. k \in 1 .. (i - 1) \/ k = i \/ k \in (i + 1) .. Len(cs)
      BY <1>0, <1>13
    <3>2. CASE k \in (i + 1) .. Len(cs)
      <4>1. k + (to - i) \in DOMAIN bs
        BY <1>0, <1>12, <1>13, <3>2
      <4> QED
        BY <1>2, <1>13, <3>2, <4>1
    <3> QED
      BY <1>2, <1>13, <1>15, <2>0, <3>1, <3>2
  <2>2. ASSUME NEW k \in 1 .. (i - 1) PROVE cs[k].end <= cs[i].end
    <3>1. cs[k] = bs[k] /\ cs[i] = w /\ bs[k].end < bs[i].start /\ bs[i].start < bs[i].end
      BY <1>2, <1>13, <2>0
    <3> QED
      BY <1>1, <1>7, <1>15, <2>0, <3>1
  <2>3. ASSUME NEW j \in 1 .. (i - 1), NEW k \in 1 .. (i - 1), j < k PROVE cs[j].end < cs[k].start
    BY <1>2, <1>13, <2>0, <2>3
  <2> QED
    BY <2>1, <2>2, <2>3 DEF GappedBefore
<1>17. Moved(n, i + 1, to) \in Nat
  BY <1>0, <1>12 DEF Moved
<1>18. PICK from \in 1 .. i, m \in StreamRange, ds \in Seq(StreamRange) :
            /\ L!MergePrev([blocks |-> cs, latest |-> Moved(n, i + 1, to)], i)
                  = [blocks |-> ds, latest |-> Moved(Moved(n, i + 1, to), from, i - 1)]
            /\ Replaced(cs, from, i, m, ds)
            /\ TakesBefore(cs, i, from, m)
  BY <1>13, <1>16, <1>17, MergePrevEffect
<1>19. from \in Nat /\ 1 <= from /\ from <= i /\ from \in DOMAIN bs
  BY <1>0
<1>20. Replaced(bs, from, to, m, ds)
  <2>1. Replaced(bs, i, to, w, cs)
    BY <1>13 DEF Replaced
  <2> QED
    BY <1>0, <1>12, <1>18, <1>19, <2>1, ReplacedTwice
<1>21. /\ \A k \in from .. (i - 1) : W.start <= cs[k].end
       /\ \A k \in 1 .. (from - 1) : cs[k].end < W.start
       /\ m = [start |-> MinPos(W.start, cs[from].start), end |-> w.end]
  BY <1>13, <1>15, <1>18 DEF TakesBefore
<1>22. m = [start |-> MinPos(r.start, bs[from].start), end |-> MaxPos(r.end, bs[to].end)]
  <2>1. MinPos(W.start, cs[from].start) = MinPos(r.start, bs[from].start)
    <3>1. CASE from = i
      <4>1. cs[from].start = W.start
        BY <1>13, <1>15, <3>1
      <4>2. MinPos(W.start, W.start) = W.start
        BY DEF MinPos
      <4>3. MinPos(bs[i].start, r.start) = MinPos(r.start, bs[i].start)
        BY <1>0, <1>1, <1>3 DEF MinPos
      <4> QED
        BY <1>6, <3>1, <4>1, <4>2, <4>3
    <3>2. CASE from # i
      <4>1. from \in 1 .. (i - 1) /\ from < i
        BY <1>0, <1>19, <3>2
      <4>2. cs[from] = bs[from] /\ bs[from].start < bs[from].end /\ bs[from].end < bs[i].start
        BY <1>2, <1>13, <1>19, <4>1
      <4> QED
        BY <1>0, <1>1, <1>3, <1>6, <1>7, <1>19, <4>2 DEF MinPos
    <3> QED
      BY <3>1, <3>2
  <2> QED
    BY <1>15, <1>21, <2>1
<1>23. ASSUME NEW k \in DOMAIN bs PROVE Touches(bs[k], r) <=> k \in from .. to
  <2>0. k \in Nat /\ 1 <= k /\ k <= Len(bs)
    BY <1>0
  <2>1. k \in 1 .. (from - 1) \/ k \in from .. (i - 1) \/ k = i \/ k \in (i + 1) .. to \/ k \in (to + 1) .. Len(bs)
    BY <1>0, <1>12, <1>19, <2>0
  <2>2. CASE k \in 1 .. (from - 1)
    <3>a. k \in 1 .. (i - 1) /\ k < from
      BY <1>0, <1>19, <2>0, <2>2
    <3>1. cs[k] = bs[k] /\ bs[k].end < W.start /\ k < from
      BY <1>13, <1>21, <2>2, <3>a
    <3>2. k \notin from .. to
      BY <1>19, <2>0, <3>1
    <3>3. bs[k].end < r.start
      BY <1>1, <1>3, <1>7, <3>1
    <3>4. ~(r.start <= bs[k].end)
      BY <1>1, <1>3, <3>3
    <3> QED
      BY <3>2, <3>4 DEF Touches
  <2>3. CASE k \in from .. (i - 1)
    <3>1. k \in 1 .. (i - 1) /\ k < i
      BY <1>0, <1>19, <2>0, <2>3
    <3>2. W.start <= bs[k].end /\ bs[k].end < bs[i].start /\ bs[k].start < bs[k].end
      BY <1>2, <1>13, <1>21, <2>3, <3>1
    <3> QED
      <4>1. k \in from .. to
        BY <1>0, <1>12, <1>19, <2>3
      <4>2. bs[k].start <= r.end /\ r.start <= bs[k].end
        BY <1>1, <1>3, <1>4, <1>7, <2>0, <3>2, SMTT(30)
      <4> QED
        BY <4>1, <4>2 DEF Touches
  <2>4. CASE k = i
    BY <1>0, <1>12, <1>19, <2>4
  <2>5. CASE k \in (i + 1) .. to
    <3>1. k # i /\ i < k
      BY <1>0, <2>5
    <3>2. ws[k] = bs[k] /\ bs[k].start <= W.end /\ bs[i].end < bs[k].start /\ bs[k].start < bs[k].end
      BY <1>2, <1>9, <1>14, <2>5, <3>1
    <3> QED
      <4>1. k \in from .. to
        BY <1>0, <1>12, <1>19, <2>5
      <4>2. bs[k].start <= r.end /\ r.start <= bs[k].end
        BY <1>1, <1>3, <1>4, <1>7, <2>0, <3>2, SMTT(30)
      <4> QED
        BY <4>1, <4>2 DEF Touches
  <2>6. CASE k \in (to + 1) .. Len(bs)
    <3>1. k # i /\ to < k
      BY <1>0, <1>12, <2>6
    <3>2. ws[k] = bs[k] /\ W.end < bs[k].start
      BY <1>9, <1>14, <2>6, <3>1
    <3>3. k \notin from .. to
      BY <1>12, <1>19, <2>0, <3>1
    <3>4. r.end < bs[k].start
      BY <1>1, <1>3, <1>7, <3>2
    <3>5. ~(bs[k].start <= r.end)
      BY <1>1, <1>3, <3>4
    <3> QED
      BY <3>3, <3>5 DEF Touches
  <2> QED
    BY <2>1, <2>2, <2>3, <2>4, <2>5, <2>6
<1>24. L!BlocksMerge([blocks |-> ws, latest |-> n], i)
          = [blocks |-> ds, latest |-> Moved(Moved(n, i + 1, to), from, i - 1)]
  BY <1>11, <1>18, Zenon DEF L!BlocksMerge
<1>25. to \in i .. Len(bs)
  BY <1>9
<1>26. MergesRange(bs, r, from, to, m)
  BY <1>22, <1>23 DEF MergesRange
<1> QED
  BY <1>20, <1>24, <1>25, <1>26

(* Replacing the blocks that a range touches by the joined one keeps the   *)
(* list in order, with gaps.                                               *)
LEMMA ReplacedGapped ==
  ASSUME NEW bs, Gapped(bs), NEW lo \in DOMAIN bs, NEW hi \in DOMAIN bs, lo <= hi,
         NEW r \in StreamRange, r.start < r.end, NEW m \in StreamRange,
         MergesRange(bs, r, lo, hi, m), NEW cs \in Seq(StreamRange), Replaced(bs, lo, hi, m, cs)
  PROVE  /\ Gapped(cs)
         /\ Elements(cs) = (Elements(bs) \ Touched(Elements(bs), r)) \cup {m}
<1>0. /\ bs \in Seq(StreamRange) /\ lo \in Nat /\ hi \in Nat /\ Len(bs) \in Nat /\ Len(cs) \in Nat
      /\ 1 <= lo /\ hi <= Len(bs)
  BY DEF Gapped
<1>1. \A k \in DOMAIN bs : bs[k] \in StreamRange /\ bs[k].start \in Nat /\ bs[k].end \in Nat
  BY <1>0, BlockOfList
<1>2. /\ \A k \in DOMAIN bs : bs[k].start < bs[k].end
      /\ \A j, k \in DOMAIN bs : j < k => bs[j].end < bs[k].start
  BY DEF Gapped
<1>3. r.start \in Nat /\ r.end \in Nat /\ m.start \in Nat /\ m.end \in Nat
  BY DEF StreamRange
<1>4. /\ \A k \in DOMAIN bs : Touches(bs[k], r) <=> k \in lo .. hi
      /\ m.start = MinPos(r.start, bs[lo].start) /\ m.end = MaxPos(r.end, bs[hi].end)
  BY DEF MergesRange
<1>5. lo \in lo .. hi /\ hi \in lo .. hi
  BY <1>0
<1>6. bs[lo].start <= r.end /\ r.start <= bs[lo].end /\ bs[hi].start <= r.end /\ r.start <= bs[hi].end
  BY <1>4, <1>5 DEF Touches
<1>7. m.start < m.end
  BY <1>1, <1>3, <1>4 DEF MinPos, MaxPos
<1>8. ASSUME NEW k \in DOMAIN bs, k < lo PROVE bs[k].end < m.start
  <2>1. ~Touches(bs[k], r)
    BY <1>0, <1>4, <1>8
  <2>2. bs[k].end < bs[lo].start /\ bs[k].start < bs[k].end
    BY <1>2, <1>8
  <2> QED
    BY <1>1, <1>3, <1>4, <1>6, <2>1, <2>2 DEF Touches, MinPos
<1>9. ASSUME NEW k \in DOMAIN bs, hi < k PROVE m.end < bs[k].start
  <2>1. ~Touches(bs[k], r)
    BY <1>0, <1>4, <1>9
  <2>2. bs[hi].end < bs[k].start /\ bs[k].start < bs[k].end
    BY <1>2, <1>9
  <2> QED
    BY <1>1, <1>3, <1>4, <1>6, <2>1, <2>2 DEF Touches, MaxPos
<1>10. /\ Len(cs) = Len(bs) - (hi - lo)
       /\ \A k \in 1 .. (lo - 1) : cs[k] = bs[k]
       /\ cs[lo] = m
       /\ \A k \in (lo + 1) .. Len(cs) : cs[k] = bs[k + (hi - lo)]
  BY DEF Replaced
<1> DEFINE src(k) == IF k < lo THEN k ELSE k + (hi - lo)
<1>11. ASSUME NEW k \in DOMAIN cs, k # lo
       PROVE  /\ src(k) \in DOMAIN bs /\ cs[k] = bs[src(k)] /\ src(k) \notin lo .. hi
              /\ k < lo => src(k) < lo
              /\ lo < k => hi < src(k)
  <2>0. k \in Nat /\ 1 <= k /\ k <= Len(cs)
    BY <1>0
  <2>1. CASE k < lo
    <3>1. k \in 1 .. (lo - 1) /\ k \in DOMAIN bs
      BY <1>0, <2>0, <2>1
    <3> QED
      BY <1>0, <1>10, <2>0, <2>1, <3>1
  <2>2. CASE lo < k
    <3>1. k \in (lo + 1) .. Len(cs) /\ k + (hi - lo) \in DOMAIN bs /\ hi < k + (hi - lo)
      BY <1>0, <1>10, <2>0, <2>2
    <3>2. src(k) = k + (hi - lo)
      BY <1>0, <2>0, <2>2
    <3> QED
      BY <1>0, <1>10, <2>0, <2>2, <3>1, <3>2
  <2> QED
    BY <1>0, <1>11, <2>0, <2>1, <2>2
<1>12. lo \in DOMAIN cs
  BY <1>0, <1>10
<1>13. ASSUME NEW k \in DOMAIN cs PROVE cs[k].start < cs[k].end
  BY <1>2, <1>7, <1>10, <1>11
<1>14. ASSUME NEW j \in DOMAIN cs, NEW k \in DOMAIN cs, j < k PROVE cs[j].end < cs[k].start
  <2>0. j \in Nat /\ k \in Nat
    BY <1>0
  <2>1. CASE j = lo
    <3>1. k # lo /\ lo < k
      BY <1>0, <1>14, <2>0, <2>1
    <3>2. cs[k] = bs[src(k)] /\ src(k) \in DOMAIN bs /\ hi < src(k)
      BY <1>11, <3>1
    <3> QED
      BY <1>9, <1>10, <2>1, <3>2
  <2>2. CASE k = lo
    <3>1. j # lo /\ j < lo
      BY <1>0, <1>14, <2>0, <2>2
    <3>2. cs[j] = bs[src(j)] /\ src(j) \in DOMAIN bs /\ src(j) < lo
      BY <1>11, <3>1
    <3> QED
      BY <1>8, <1>10, <2>2, <3>2
  <2>3. CASE j # lo /\ k # lo
    <3>1. cs[j] = bs[src(j)] /\ src(j) \in DOMAIN bs /\ cs[k] = bs[src(k)] /\ src(k) \in DOMAIN bs
      BY <1>11, <2>3
    <3>2. src(j) < src(k)
      BY <1>0, <1>14, <2>0
    <3> QED
      BY <1>2, <3>1, <3>2
  <2> QED
    BY <2>1, <2>2, <2>3
<1>15. Gapped(cs)
  BY <1>13, <1>14 DEF Gapped
<1> DEFINE A == (Elements(bs) \ Touched(Elements(bs), r)) \cup {m}
<1>16. ASSUME NEW k \in DOMAIN cs PROVE cs[k] \in A
  <2>1. CASE k = lo
    BY <1>10, <2>1
  <2>2. CASE k # lo
    <3>1. cs[k] = bs[src(k)] /\ src(k) \in DOMAIN bs /\ src(k) \notin lo .. hi
      BY <1>11, <2>2
    <3>2. ~Touches(bs[src(k)], r)
      BY <1>4, <3>1
    <3> HIDE DEF src
    <3>3. cs[k] \in Elements(bs) /\ cs[k] \notin Touched(Elements(bs), r)
      BY <3>1, <3>2, Zenon DEF Elements, Touched
    <3> QED
      BY <3>3
  <2> QED
    BY <2>1, <2>2
<1>17. ASSUME NEW b \in A PROVE b \in Elements(cs)
  <2>1. CASE b = m
    BY <1>10, <1>12, <2>1 DEF Elements
  <2>2. CASE b # m
    <3>1. b \in Elements(bs) /\ ~Touches(b, r)
      BY <2>2 DEF Touched
    <3>2. PICK k \in DOMAIN bs : b = bs[k]
      BY <3>1 DEF Elements
    <3>3. k \in Nat /\ 1 <= k /\ k <= Len(bs) /\ k \notin lo .. hi
      BY <1>0, <1>4, <3>1, <3>2
    <3>4. CASE k < lo
      <4>1. k \in 1 .. (lo - 1) /\ k \in DOMAIN cs
        BY <1>0, <1>10, <3>3, <3>4
      <4>2. cs[k] = b
        BY <1>10, <3>2, <4>1
      <4> QED
        BY <4>1, <4>2 DEF Elements
    <3>5. CASE hi < k
      <4>1. k - (hi - lo) \in (lo + 1) .. Len(cs) /\ (k - (hi - lo)) + (hi - lo) = k
        <5>1. Len(cs) = Len(bs) - (hi - lo)
          BY <1>10
        <5>2. k - (hi - lo) \in Int /\ lo + 1 <= k - (hi - lo) /\ k - (hi - lo) <= Len(cs)
          BY <1>0, <3>3, <3>5, <5>1, SMTT(30)
        <5> QED
          BY <1>0, <3>3, <5>2, SMTT(30)
      <4>2. k - (hi - lo) \in DOMAIN cs
        BY <1>0, <4>1, SMTT(30)
      <4>3. cs[k - (hi - lo)] = b
        BY <1>10, <3>2, <4>1
      <4> QED
        BY <4>2, <4>3 DEF Elements
    <3> QED
      BY <1>0, <3>3, <3>4, <3>5
  <2> QED
    BY <2>1, <2>2
<1>18. Elements(cs) = A
  BY <1>16, <1>17 DEF Elements
<1> QED
  BY <1>15, <1>18

(* A block put where it belongs.                                           *)
Placed(bs, i, r, cs) ==
    /\ cs \in Seq(StreamRange)
    /\ Len(cs) = Len(bs) + 1
    /\ \A k \in 1 .. (i - 1) : cs[k] = bs[k]
    /\ cs[i] = r
    /\ \A k \in (i + 1) .. Len(cs) : cs[k] = bs[k - 1]

Put(bs, i, r) == L!InsertAt(bs, i, r)

LEMMA PutIsPlaced ==
  ASSUME NEW bs \in Seq(StreamRange), NEW i \in 1 .. (Len(bs) + 1), NEW r \in StreamRange, NEW cs, cs = Put(bs, i, r)
  PROVE  Placed(bs, i, r, cs)
<1>0. i \in Nat /\ Len(bs) \in Nat /\ 1 <= i /\ i <= Len(bs) + 1
  OBVIOUS
<1> DEFINE s == SubSeq(bs, 1, i - 1)
           t == SubSeq(bs, i, Len(bs))
           x == s \o <<r>>
<1>1. s \in Seq(StreamRange) /\ Len(s) = i - 1 /\ \A k \in 1 .. (i - 1) : s[k] = bs[k]
  BY <1>0
<1>2. t \in Seq(StreamRange) /\ Len(t) = Len(bs) - (i - 1) /\ \A k \in 1 .. (Len(bs) - (i - 1)) : t[k] = bs[k + (i - 1)]
  BY <1>0
<1>3. <<r>> \in Seq(StreamRange) /\ Len(<<r>>) = 1 /\ <<r>>[1] = r
  OBVIOUS
<1>4. cs = x \o t
  BY DEF Put, L!InsertAt
<1> HIDE DEF s, t
<1>5. /\ x \in Seq(StreamRange) /\ Len(x) = Len(s) + Len(<<r>>)
      /\ \A k \in 1 .. (Len(s) + Len(<<r>>)) : x[k] = IF k <= Len(s) THEN s[k] ELSE <<r>>[k - Len(s)]
  <2>1. s \in Seq(StreamRange)
    BY <1>1
  <2> QED
    BY <1>3, <2>1, ConcatProperties
<1> HIDE DEF x
<1>6. Len(x) = i
  BY <1>0, <1>1, <1>3, <1>5
<1>7. /\ cs \in Seq(StreamRange) /\ Len(cs) = Len(x) + Len(t)
      /\ \A k \in 1 .. (Len(x) + Len(t)) : cs[k] = IF k <= Len(x) THEN x[k] ELSE t[k - Len(x)]
  <2>1. x \in Seq(StreamRange) /\ t \in Seq(StreamRange)
    BY <1>2, <1>5
  <2> QED
    BY <1>4, <2>1, ConcatProperties
<1>8. Len(cs) = Len(bs) + 1
  BY <1>0, <1>2, <1>6, <1>7
<1>9. ASSUME NEW k \in 1 .. (i - 1) PROVE cs[k] = bs[k]
  <2>1. k \in 1 .. (Len(x) + Len(t)) /\ k <= Len(x) /\ k \in 1 .. (Len(s) + Len(<<r>>)) /\ k <= Len(s)
    BY <1>0, <1>1, <1>2, <1>3, <1>6
  <2> QED
    BY <1>1, <1>5, <1>7, <2>1
<1>10. cs[i] = r
  <2>1. i \in 1 .. (Len(x) + Len(t)) /\ i <= Len(x) /\ i \in 1 .. (Len(s) + Len(<<r>>)) /\ ~(i <= Len(s)) /\ i - Len(s) = 1
    BY <1>0, <1>1, <1>2, <1>3, <1>6
  <2> QED
    BY <1>3, <1>5, <1>7, <2>1
<1>11. ASSUME NEW k \in (i + 1) .. Len(cs) PROVE cs[k] = bs[k - 1]
  <2>1. /\ k \in 1 .. (Len(x) + Len(t)) /\ ~(k <= Len(x)) /\ k - Len(x) \in 1 .. (Len(bs) - (i - 1))
        /\ (k - Len(x)) + (i - 1) = k - 1
    BY <1>0, <1>2, <1>6, <1>8
  <2> QED
    BY <1>2, <1>7, <2>1
<1> QED
  BY <1>7, <1>8, <1>9, <1>10, <1>11 DEF Placed

LEMMA PlacedGapped ==
  ASSUME NEW bs, Gapped(bs), NEW i \in 1 .. (Len(bs) + 1), NEW r \in StreamRange, r.start < r.end,
         \A k \in 1 .. (i - 1) : bs[k].end < r.start, \A k \in i .. Len(bs) : r.end < bs[k].start,
         NEW cs \in Seq(StreamRange), Placed(bs, i, r, cs)
  PROVE  Gapped(cs) /\ Elements(cs) = Elements(bs) \cup {r}
<1>0. bs \in Seq(StreamRange) /\ i \in Nat /\ Len(bs) \in Nat /\ Len(cs) \in Nat /\ 1 <= i /\ i <= Len(bs) + 1
  BY DEF Gapped
<1>1. /\ \A k \in DOMAIN bs : bs[k].start < bs[k].end
      /\ \A j, k \in DOMAIN bs : j < k => bs[j].end < bs[k].start
  BY DEF Gapped
<1>2. /\ Len(cs) = Len(bs) + 1
      /\ \A k \in 1 .. (i - 1) : cs[k] = bs[k]
      /\ cs[i] = r
      /\ \A k \in (i + 1) .. Len(cs) : cs[k] = bs[k - 1]
  BY DEF Placed
<1> DEFINE src(k) == IF k < i THEN k ELSE k - 1
<1>3. ASSUME NEW k \in DOMAIN cs, k # i
      PROVE  /\ src(k) \in DOMAIN bs /\ cs[k] = bs[src(k)]
             /\ k < i => src(k) \in 1 .. (i - 1)
             /\ i < k => src(k) \in i .. Len(bs)
  <2>0. k \in Nat /\ 1 <= k /\ k <= Len(bs) + 1
    BY <1>0, <1>2
  <2>1. CASE k < i
    <3>1. k \in 1 .. (i - 1) /\ k \in DOMAIN bs
      BY <1>0, <2>0, <2>1
    <3> QED
      BY <1>0, <1>2, <2>0, <2>1, <3>1
  <2>2. CASE i < k
    <3>1. k \in (i + 1) .. Len(cs) /\ k - 1 \in DOMAIN bs /\ k - 1 \in i .. Len(bs)
      BY <1>0, <1>2, <2>0, <2>2
    <3>2. src(k) = k - 1
      BY <1>0, <2>0, <2>2
    <3> QED
      BY <1>0, <1>2, <2>0, <2>2, <3>1, <3>2
  <2> QED
    BY <1>0, <1>3, <2>0, <2>1, <2>2
<1>4. i \in DOMAIN cs
  BY <1>0, <1>2
<1>5. ASSUME NEW k \in DOMAIN cs PROVE cs[k].start < cs[k].end
  BY <1>1, <1>2, <1>3
<1>6. ASSUME NEW j \in DOMAIN cs, NEW k \in DOMAIN cs, j < k PROVE cs[j].end < cs[k].start
  <2>0. j \in Nat /\ k \in Nat
    BY <1>0
  <2>1. CASE j = i
    <3>1. k # i /\ i < k
      BY <1>0, <1>6, <2>0, <2>1
    <3>2. cs[k] = bs[src(k)] /\ src(k) \in i .. Len(bs)
      BY <1>3, <3>1
    <3> QED
      BY <1>2, <2>1, <3>2
  <2>2. CASE k = i
    <3>1. j # i /\ j < i
      BY <1>0, <1>6, <2>0, <2>2
    <3>2. cs[j] = bs[src(j)] /\ src(j) \in 1 .. (i - 1)
      BY <1>3, <3>1
    <3> QED
      BY <1>2, <2>2, <3>2
  <2>3. CASE j # i /\ k # i
    <3>1. cs[j] = bs[src(j)] /\ src(j) \in DOMAIN bs /\ cs[k] = bs[src(k)] /\ src(k) \in DOMAIN bs
      BY <1>3, <2>3
    <3>2. src(j) < src(k)
      BY <1>0, <1>6, <2>0, <2>3
    <3> QED
      BY <1>1, <3>1, <3>2
  <2> QED
    BY <2>1, <2>2, <2>3
<1>7. Gapped(cs)
  BY <1>5, <1>6 DEF Gapped
<1>8. ASSUME NEW k \in DOMAIN cs PROVE cs[k] \in Elements(bs) \cup {r}
  <2>1. CASE k # i
    <3>1. cs[k] = bs[src(k)] /\ src(k) \in DOMAIN bs
      BY <1>3, <2>1
    <3> HIDE DEF src
    <3> QED
      BY <3>1 DEF Elements
  <2> QED
    BY <1>2, <2>1
<1>9. ASSUME NEW k \in DOMAIN bs PROVE bs[k] \in Elements(cs)
  <2>0. k \in Nat /\ 1 <= k /\ k <= Len(bs)
    BY <1>0
  <2>1. CASE k < i
    <3>1. k \in 1 .. (i - 1) /\ k \in DOMAIN cs
      BY <1>0, <1>2, <2>0, <2>1
    <3>2. cs[k] = bs[k]
      BY <1>2, <3>1
    <3> QED
      BY <3>1, <3>2 DEF Elements
  <2>2. CASE i <= k
    <3>1. k + 1 \in (i + 1) .. Len(cs) /\ k + 1 \in DOMAIN cs /\ (k + 1) - 1 = k
      BY <1>0, <1>2, <2>0, <2>2
    <3>2. cs[k + 1] = bs[k]
      BY <1>2, <3>1
    <3> QED
      BY <3>1, <3>2 DEF Elements
  <2> QED
    BY <1>0, <2>0, <2>1, <2>2
<1>10. r \in Elements(cs)
  BY <1>2, <1>4 DEF Elements
<1>11. Elements(cs) = Elements(bs) \cup {r}
  BY <1>8, <1>9, <1>10 DEF Elements
<1> QED
  BY <1>7, <1>11

(* The search of RecvQueueAddToBlocks.                                     *)
LEMMA SearchEffect ==
  ASSUME Gapped(list), NEW start \in 1 .. (Len(list) + 1), NEW r \in StreamRange, r.start < r.end,
         NEW i, i = L!SearchFrom(start, r)
  PROVE  /\ i \in start .. (Len(list) + 1)
         /\ \A k \in start .. (i - 1) : list[k].end < r.start
         /\ i <= Len(list) => ~(list[i].end < r.start)
<1>0. list \in Seq(StreamRange) /\ Len(list) \in Nat /\ start \in Nat /\ 1 <= start /\ start <= Len(list) + 1
  BY DEF Gapped
<1>1. ASSUME NEW k \in DOMAIN list PROVE L!RelativePos(list[k], r) = "NEXT" <=> list[k].end < r.start
  <2>1. list[k] \in StreamRange /\ list[k].start < list[k].end
    BY <1>0 DEF Gapped
  <2> QED
    BY <2>1, RelativePosition
<1> DEFINE Found(x) == /\ \A k \in start .. (x - 1) : L!RelativePos(list[k], r) = "NEXT"
                       /\ x <= Len(list) => L!RelativePos(list[x], r) # "NEXT"
<1>2. \E x \in start .. (Len(list) + 1) : Found(x)
  <2> DEFINE N == {x \in start .. (Len(list) + 1) : x <= Len(list) => L!RelativePos(list[x], r) # "NEXT"}
  <2>1. N \in SUBSET Nat /\ N # {}
    <3>1. Len(list) + 1 \in N
      BY <1>0
    <3>2. N \in SUBSET Nat
      BY <1>0
    <3> QED
      BY <3>1, <3>2
  <2>2. PICK x \in N : \A y \in N : x <= y
    BY <2>1, Least
  <2>3. x \in start .. (Len(list) + 1) /\ (x <= Len(list) => L!RelativePos(list[x], r) # "NEXT")
    BY <2>2
  <2>4. ASSUME NEW k \in start .. (x - 1) PROVE L!RelativePos(list[k], r) = "NEXT"
    <3>1. k \in start .. (Len(list) + 1) /\ ~(x <= k)
      BY <1>0, <2>3
    <3> QED
      BY <2>2, <3>1
  <2> QED
    BY <2>3, <2>4
<1>3. i \in start .. (Len(list) + 1) /\ Found(i)
  BY <1>2 DEF L!SearchFrom
<1>4. ASSUME NEW k \in start .. (i - 1) PROVE list[k].end < r.start
  <2>1. k \in DOMAIN list
    BY <1>0, <1>3
  <2> QED
    BY <1>1, <1>3, <2>1
<1>5. ASSUME i <= Len(list) PROVE ~(list[i].end < r.start)
  <2>1. i \in DOMAIN list
    BY <1>0, <1>3, <1>5
  <2> QED
    BY <1>1, <1>3, <1>5, <2>1
<1> QED
  BY <1>3, <1>4, <1>5

-----------------------------------------------------------------------------
(* The list and the set of RecvQueue.tla                                    *)

LatestListed == latest = IF listLatest = 0 THEN NoBlock ELSE list[listLatest]

ListInv ==
    /\ Gapped(list) /\ blocks = Elements(list)
    /\ listAck = ackStreamPos
    /\ listLatest \in 0 .. Len(list) /\ LatestListed

(* RecvQueueAddToBlocks, as the list sees it.                              *)
LEMMA AddToBlocksCases ==
  ASSUME NEW r, NEW at, at = (IF listLatest = 0 \/ r.end < list[listLatest].start THEN 1 ELSE listLatest),
         NEW i, i = L!SearchFrom(at, r), NEW ws, ws = Widened(list, i, r)
  PROVE  L!AddToBlocks(r) =
            IF i > Len(list) \/ L!RelativePos(list[i], r) = "PREV"
            THEN [blocks |-> Put(list, i, r), latest |-> i]
            ELSE IF list[i].start <= r.start /\ r.end <= list[i].end
            THEN [blocks |-> list, latest |-> listLatest]
            ELSE IF L!RelativePos(list[i], r) = "INCLUDE"
            THEN L!BlocksMerge([blocks |-> ws, latest |-> i], i)
            ELSE L!BlocksMerge([blocks |-> ws, latest |-> listLatest], i)
<1> DEFINE l == [blocks |-> list, latest |-> listLatest]
           wide == [l EXCEPT !.blocks[i] = L!Hull(@, r)]
<1>1. wide = [blocks |-> ws, latest |-> listLatest]
  BY DEF Widened
<1>2. [wide EXCEPT !.latest = i] = [blocks |-> ws, latest |-> i]
  <2> HIDE DEF wide
  <2> QED
    BY <1>1, PutLatest
<1>3. L!AddToBlocks(r) =
            IF i > Len(list) \/ L!RelativePos(list[i], r) = "PREV"
            THEN [blocks |-> Put(list, i, r), latest |-> i]
            ELSE IF list[i].start <= r.start /\ r.end <= list[i].end
            THEN l
            ELSE IF L!RelativePos(list[i], r) = "INCLUDE"
            THEN L!BlocksMerge([wide EXCEPT !.latest = i], i)
            ELSE L!BlocksMerge(wide, i)
  BY Zenon DEF L!AddToBlocks, Put
<1> HIDE DEF wide
<1> QED
  BY <1>1, <1>2, <1>3

(* Where the search begins and ends, and which blocks it has passed.       *)
LEMMA SearchPlace ==
  ASSUME ListInv, NEW r \in StreamRange, r.start < r.end,
         NEW at, at = (IF listLatest = 0 \/ r.end < list[listLatest].start THEN 1 ELSE listLatest),
         NEW i, i = L!SearchFrom(at, r)
  PROVE  /\ at \in 1 .. (Len(list) + 1) /\ i \in at .. (Len(list) + 1)
         /\ at = 1 \/ (at = listLatest /\ list[at].start <= r.end)
         /\ listLatest = 0 \/ at = listLatest \/ r.end < list[listLatest].start
         /\ \A k \in at .. (i - 1) : list[k].end < r.start
         /\ i <= Len(list) => ~(list[i].end < r.start)
         /\ i > Len(list) \/ r.end < list[i].start => \A k \in 1 .. (i - 1) : list[k].end < r.start
<1>0. /\ Gapped(list) /\ list \in Seq(StreamRange) /\ Len(list) \in Nat /\ listLatest \in Nat /\ listLatest <= Len(list)
      /\ r.start \in Nat /\ r.end \in Nat
  <2>1. r.start \in Nat /\ r.end \in Nat
    BY DEF StreamRange
  <2> QED
    BY <2>1 DEF ListInv, Gapped
<1>1. \A k \in DOMAIN list : list[k] \in StreamRange /\ list[k].start \in Nat /\ list[k].end \in Nat
  BY <1>0, BlockOfList
<1>2. /\ \A k \in DOMAIN list : list[k].start < list[k].end
      /\ \A j, k \in DOMAIN list : j < k => list[j].end < list[k].start
  BY <1>0 DEF Gapped
<1>3. /\ at \in 1 .. (Len(list) + 1) /\ (at = 1 \/ (at = listLatest /\ listLatest \in DOMAIN list /\ list[at].start <= r.end))
      /\ listLatest = 0 \/ at = listLatest \/ r.end < list[listLatest].start
  <2>1. CASE listLatest = 0 \/ r.end < list[listLatest].start
    BY <1>0, <2>1
  <2>2. CASE ~(listLatest = 0 \/ r.end < list[listLatest].start)
    <3>1. listLatest \in DOMAIN list
      BY <1>0, <2>2
    <3> QED
      BY <1>0, <1>1, <2>2, <3>1
  <2> QED
    BY <2>1, <2>2
<1>4. /\ i \in at .. (Len(list) + 1)
      /\ \A k \in at .. (i - 1) : list[k].end < r.start
      /\ i <= Len(list) => ~(list[i].end < r.start)
  BY <1>0, <1>3, SearchEffect
<1>5. ASSUME i > Len(list) \/ r.end < list[i].start, NEW k \in 1 .. (i - 1) PROVE list[k].end < r.start
  <2>0. at \in Nat /\ i \in Nat /\ 1 <= at /\ at <= i /\ i <= Len(list) + 1 /\ k \in Nat /\ k \in DOMAIN list
    BY <1>0, <1>3, <1>4
  <2>1. CASE at <= k
    BY <1>4, <2>0, <2>1
  <2>2. CASE k < at
    <3>1. at = listLatest /\ listLatest \in DOMAIN list /\ list[at].start <= r.end
      BY <1>3, <2>0, <2>2
    <3>2. at # i
      BY <1>0, <1>1, <1>5, <3>1
    <3>3. list[at].end < r.start
      BY <1>4, <2>0, <3>2
    <3>4. list[k].end < list[at].start /\ list[at].start < list[at].end
      BY <1>2, <2>0, <2>2, <3>1
    <3> QED
      BY <1>0, <1>1, <2>0, <3>1, <3>3, <3>4
  <2> QED
    BY <2>0, <2>1, <2>2
<1> QED
  BY <1>3, <1>4, <1>5

(* The block that RecvQueue.tla says a range and the blocks it touches are *)
(* joined to is the one that replaces them in the list.                    *)
LEMMA JoinedIsMerged ==
  ASSUME NEW bs, Gapped(bs), NEW lo \in DOMAIN bs, NEW hi \in DOMAIN bs, lo <= hi,
         NEW r \in StreamRange, r.start < r.end, NEW m, MergesRange(bs, r, lo, hi, m),
         NEW T, T = Touched(Elements(bs), r)
  PROVE  T # {} /\ First(T) = bs[lo] /\ Merged(r, T) = m
<1>0. bs \in Seq(StreamRange) /\ lo \in Nat /\ hi \in Nat /\ Len(bs) \in Nat
  BY DEF Gapped
<1>1. \A k \in DOMAIN bs : bs[k].start \in Nat /\ bs[k].end \in Nat
  BY <1>0, BlockOfList
<1>2. /\ \A k \in DOMAIN bs : bs[k].start < bs[k].end
      /\ \A j, k \in DOMAIN bs : j < k => bs[j].end < bs[k].start
  BY DEF Gapped
<1>3. /\ \A k \in DOMAIN bs : Touches(bs[k], r) <=> k \in lo .. hi
      /\ m = [start |-> MinPos(r.start, bs[lo].start), end |-> MaxPos(r.end, bs[hi].end)]
  BY DEF MergesRange
<1>4. \A b : b \in T <=> \E k \in lo .. hi : k \in DOMAIN bs /\ b = bs[k]
  BY <1>3 DEF Touched, Elements
<1>5. lo \in lo .. hi /\ hi \in lo .. hi
  BY <1>0
<1>6. bs[lo] \in T /\ bs[hi] \in T
  BY <1>4, <1>5
<1>7. ASSUME NEW b \in T, b # bs[lo] PROVE bs[lo].start < b.start
  <2>1. PICK k \in lo .. hi : k \in DOMAIN bs /\ b = bs[k]
    BY <1>4
  <2>2. lo < k
    BY <1>0, <1>7, <2>1
  <2>3. bs[lo].end < bs[k].start /\ bs[lo].start < bs[lo].end
    BY <1>2, <2>1, <2>2
  <2> QED
    BY <1>1, <2>1, <2>3
<1>8. ASSUME NEW b \in T, b # bs[hi] PROVE b.end < bs[hi].end
  <2>1. PICK k \in lo .. hi : k \in DOMAIN bs /\ b = bs[k]
    BY <1>4
  <2>2. k < hi
    BY <1>0, <1>8, <2>1
  <2>3. bs[k].end < bs[hi].start /\ bs[hi].start < bs[hi].end
    BY <1>2, <2>1, <2>2
  <2> QED
    BY <1>1, <2>1, <2>3
<1>9. \A b \in T : b.start \in Nat /\ b.end \in Nat
  BY <1>1, <1>4
<1>10. First(T) = bs[lo]
  <2>1. bs[lo] \in T /\ \A s \in T : bs[lo].start <= s.start
    BY <1>6, <1>7, <1>9
  <2>2. ASSUME NEW b \in T, \A s \in T : b.start <= s.start PROVE b = bs[lo]
    BY <1>6, <1>7, <1>9, <2>2
  <2> QED
    BY <2>1, <2>2 DEF First
<1>11. (CHOOSE b \in T : \A c \in T : c.end <= b.end) = bs[hi]
  <2>1. bs[hi] \in T /\ \A s \in T : s.end <= bs[hi].end
    BY <1>6, <1>8, <1>9
  <2>2. ASSUME NEW b \in T, \A s \in T : s.end <= b.end PROVE b = bs[hi]
    BY <1>6, <1>8, <1>9, <2>2
  <2> QED
    BY <2>1, <2>2
<1>12. Merged(r, T) = m
  BY <1>3, <1>10, <1>11 DEF Merged
<1> QED
  BY <1>6, <1>10, <1>12

(* A range that touches no block goes into the list where the search ended. *)
LEMMA PutListed ==
  ASSUME ListInv, NEW r \in StreamRange, r.start < r.end, NEW i \in 1 .. (Len(list) + 1),
         \A k \in 1 .. (i - 1) : list[k].end < r.start, \A k \in i .. Len(list) : r.end < list[k].start,
         list' = Put(list, i, r), listLatest' = i, listAck' = ackStreamPos', AddToBlocks(r)
  PROVE  ListInv'
<1>0. Gapped(list) /\ list \in Seq(StreamRange) /\ Len(list) \in Nat /\ i \in Nat /\ 1 <= i /\ i <= Len(list) + 1
  BY DEF ListInv, Gapped
<1>1. PICK bs : bs = list
  OBVIOUS
<1>2. PICK cs : cs = Put(bs, i, r)
  OBVIOUS
<1>3. Placed(bs, i, r, cs)
  BY <1>0, <1>1, <1>2, PutIsPlaced
<1>4. cs \in Seq(StreamRange) /\ Len(cs) = Len(list) + 1 /\ cs[i] = r
  BY <1>1, <1>3 DEF Placed
<1>5. Gapped(cs) /\ Elements(cs) = Elements(list) \cup {r}
  BY <1>0, <1>1, <1>3, <1>4, PlacedGapped
<1>6. {b \in blocks : Touches(b, r)} = {}
  <2>1. ASSUME NEW b \in blocks, Touches(b, r) PROVE FALSE
    <3>1. PICK k \in DOMAIN list : b = list[k]
      BY DEF ListInv, Elements
    <3>2. list[k].start \in Nat /\ list[k].end \in Nat /\ r.start \in Nat /\ r.end \in Nat
      <4>1. r.start \in Nat /\ r.end \in Nat
        BY DEF StreamRange
      <4> QED
        BY <1>0, <4>1, BlockOfList
    <3>3. list[k].start <= r.end /\ r.start <= list[k].end
      BY <2>1, <3>1 DEF Touches
    <3>4. k \in 1 .. (i - 1) \/ k \in i .. Len(list)
      BY <1>0
    <3> QED
      BY <3>2, <3>3, <3>4
  <2> QED
    BY <2>1
<1>7. blocks' = blocks \cup {r} /\ latest' = r
  BY <1>6 DEF AddToBlocks
<1>8. list' = cs
  BY <1>1, <1>2
<1>9. blocks = Elements(list)
  BY DEF ListInv
<1>10. Elements(cs) = Elements(list)'
  BY <1>8 DEF Elements
<1>11. Gapped(list)'
  BY <1>5, <1>8 DEF Gapped
<1>12. (listLatest \in 0 .. Len(list))' /\ LatestListed'
  <2>1. i # 0 /\ i \in 0 .. (Len(list) + 1)
    BY <1>0
  <2> QED
    BY <1>4, <1>7, <1>8, <2>1 DEF LatestListed
<1> QED
  BY <1>5, <1>7, <1>9, <1>10, <1>11, <1>12 DEF ListInv

(* Where recvBlock.latest points after the deletions of a merge.           *)
LEMMA LatestMoved ==
  ASSUME NEW i \in Nat, NEW lo \in Nat, NEW hi \in Nat, NEW n \in Nat, 1 <= lo, lo <= i, i <= hi
  PROVE  /\ n = i => Moved(Moved(n, i + 1, hi), lo, i - 1) = lo
         /\ lo = i /\ n < lo => Moved(Moved(n, i + 1, hi), lo, i - 1) = n
         /\ lo = i /\ hi < n => Moved(Moved(n, i + 1, hi), lo, i - 1) = n - (hi - lo)
BY DEF Moved

LEMMA BehindMoved ==
  ASSUME NEW lo \in Nat, NEW hi \in Nat, NEW n \in Nat, NEW len \in Nat, lo <= hi, hi < n, n <= len
  PROVE  n - (hi - lo) \in (lo + 1) .. (len - (hi - lo)) /\ (n - (hi - lo)) + (hi - lo) = n
OBVIOUS

(* A range that touches the block found is merged with all it touches.     *)
LEMMA MergeListed ==
  ASSUME ListInv, NEW r \in StreamRange, r.start < r.end, NoBlock \notin blocks,
         NEW lo \in DOMAIN list, NEW hi \in DOMAIN list, NEW i \in Nat, lo <= i, i <= hi,
         NEW m \in StreamRange, NEW cs \in Seq(StreamRange), NEW n \in Nat,
         MergesRange(list, r, lo, hi, m), Replaced(list, lo, hi, m, cs),
         lo = i \/ listLatest = i, listLatest \in lo .. hi => listLatest = i,
         n = (IF r.start <= list[i].start /\ list[i].end <= r.end THEN i ELSE listLatest),
         list' = cs, listLatest' = Moved(Moved(n, i + 1, hi), lo, i - 1),
         listAck' = ackStreamPos', AddToBlocks(r)
  PROVE  ListInv'
<1>0. /\ Gapped(list) /\ list \in Seq(StreamRange) /\ Len(list) \in Nat
      /\ lo \in Nat /\ hi \in Nat /\ 1 <= lo /\ hi <= Len(list)
      /\ listLatest \in Nat /\ listLatest <= Len(list) /\ blocks = Elements(list) /\ LatestListed
  BY DEF ListInv, Gapped
<1>1. PICK bs : bs = list
  OBVIOUS
<1>2. PICK T : T = Touched(Elements(bs), r)
  OBVIOUS
<1>3. Gapped(cs) /\ Elements(cs) = (Elements(bs) \ T) \cup {m}
  BY <1>0, <1>1, <1>2, ReplacedGapped
<1>4. T # {} /\ First(T) = bs[lo] /\ Merged(r, T) = m
  BY <1>0, <1>1, <1>2, JoinedIsMerged
<1>5. T = {b \in blocks : Touches(b, r)}
  BY <1>0, <1>1, <1>2 DEF Touched
<1>6. /\ blocks' = (blocks \ T) \cup {m}
      /\ latest' = IF latest \in T \/ (r.start <= bs[lo].start /\ bs[lo].end <= r.end) THEN m ELSE latest
  BY <1>4, <1>5 DEF AddToBlocks
<1>7. Gapped(list)' /\ (blocks = Elements(list))'
  BY <1>0, <1>1, <1>3, <1>6 DEF Gapped, Elements
<1>8. /\ Len(cs) = Len(bs) - (hi - lo) /\ cs[lo] = m
      /\ \A k \in 1 .. (lo - 1) : cs[k] = bs[k]
      /\ \A k \in (lo + 1) .. Len(cs) : cs[k] = bs[k + (hi - lo)]
  BY <1>1 DEF Replaced
<1>9. \A k \in DOMAIN bs : bs[k] \in T <=> k \in lo .. hi
  BY <1>1, <1>2 DEF Touched, Elements, MergesRange
<1>a. PICK q : q = Moved(Moved(n, i + 1, hi), lo, i - 1)
  OBVIOUS
<1>10. /\ n = i => q = lo
       /\ lo = i /\ n < lo => q = n
       /\ lo = i /\ hi < n => q = n - (hi - lo)
  <2>1. i \in Nat /\ lo \in Nat /\ hi \in Nat /\ n \in Nat /\ 1 <= lo /\ lo <= i /\ i <= hi
    BY <1>0
  <2> QED
    BY <2>1, <1>a, LatestMoved
<1>11. listLatest' = q
  BY <1>a
<1>12. q \in 0 .. Len(cs) /\ latest' = IF q = 0 THEN NoBlock ELSE cs[q]
  <2>1. CASE listLatest = i
    <3>1. q = lo /\ q \in 0 .. Len(cs) /\ q # 0
      BY <1>0, <1>1, <1>8, <1>10, <2>1
    <3>2. latest = bs[i] /\ i \in lo .. hi /\ i \in DOMAIN bs
      <4>1. i # 0 /\ i \in lo .. hi /\ i \in DOMAIN bs
        BY <1>0, <1>1
      <4> QED
        BY <1>0, <1>1, <2>1, <4>1 DEF LatestListed
    <3> QED
      BY <1>6, <1>8, <1>9, <3>1, <3>2
  <2>2. CASE listLatest # i /\ n = i
    <3>1. q = lo /\ q \in 0 .. Len(cs) /\ q # 0 /\ lo = i
      BY <1>0, <1>1, <1>8, <1>10, <2>2, SMTT(30)
    <3>2. r.start <= bs[lo].start /\ bs[lo].end <= r.end
      BY <1>1, <2>2, <3>1
    <3> QED
      BY <1>6, <1>8, <3>1, <3>2
  <2>3. CASE listLatest # i /\ n # i
    <3>1. /\ lo = i /\ n = listLatest /\ ~(r.start <= bs[lo].start /\ bs[lo].end <= r.end)
          /\ n < lo \/ hi < n
      BY <1>0, <1>1, <2>3
    <3>2. latest \notin T
      <4>1. CASE n = 0
        BY <1>0, <1>5, <3>1, <4>1 DEF LatestListed
      <4>2. CASE n # 0
        <5>1. n \in DOMAIN bs /\ n \notin lo .. hi
          BY <1>0, <1>1, <3>1, <4>2
        <5>2. latest = bs[n]
          BY <1>0, <1>1, <3>1, <4>2 DEF LatestListed
        <5> QED
          BY <1>9, <5>1, <5>2
      <4> QED
        BY <4>1, <4>2
    <3>3. latest' = latest
      BY <1>6, <3>1, <3>2
    <3>4. latest = IF n = 0 THEN NoBlock ELSE bs[n]
      BY <1>0, <1>1, <3>1 DEF LatestListed
    <3>5. CASE n < lo
      <4>1. q = n /\ q \in 0 .. Len(cs) /\ (q # 0 => q \in 1 .. (lo - 1))
        BY <1>0, <1>1, <1>8, <1>10, <3>1, <3>5
      <4> QED
        BY <1>8, <3>3, <3>4, <4>1
    <3>6. CASE hi < n
      <4>a. q = n - (hi - lo)
        BY <1>10, <3>1, <3>6
      <4>0. q = n - (hi - lo) /\ n <= Len(list) /\ Len(cs) = Len(list) - (hi - lo)
        BY <1>0, <1>1, <1>8, <3>1, <4>a, Zenon
      <4>b. n - (hi - lo) \in (lo + 1) .. (Len(list) - (hi - lo)) /\ (n - (hi - lo)) + (hi - lo) = n
        <5>1. lo <= hi
          BY <1>0
        <5> QED
          BY <1>0, <3>6, <4>0, <5>1, BehindMoved, ZenonT(60)
      <4>1. q # 0 /\ n # 0 /\ q \in 0 .. Len(cs) /\ q \in (lo + 1) .. Len(cs) /\ q + (hi - lo) = n
        <5>1. q \in (lo + 1) .. Len(cs) /\ q + (hi - lo) = n
          BY <4>0, <4>b, Zenon
        <5>2. q # 0 /\ q \in 0 .. Len(cs)
          BY <1>0, <5>1
        <5>3. n # 0
          BY <1>0, <3>6
        <5> QED
          BY <5>1, <5>2, <5>3
      <4> QED
        BY <1>8, <3>3, <3>4, <4>1
    <3> QED
      BY <3>1, <3>5, <3>6
  <2> QED
    BY <2>1, <2>2, <2>3
<1>13. (listLatest \in 0 .. Len(list))' /\ LatestListed'
  BY <1>11, <1>12 DEF LatestListed
<1> QED
  BY <1>7, <1>13 DEF ListInv

(* RecvQueueAddToBlocks on a range ahead of the ack position: the list     *)
(* stays in order, holds the blocks of RecvQueue.tla, and its latest       *)
(* pointer is the latest block of RecvQueue.tla.                           *)
LEMMA AddToBlocksListed ==
  ASSUME ListInv, BlocksAheadOfAck, ackStreamPos \in Nat, NEW r \in StreamRange, r.start < r.end,
         list' = L!AddToBlocks(r).blocks, listLatest' = L!AddToBlocks(r).latest,
         listAck' = ackStreamPos',
         IF InOldBlock(r) THEN UNCHANGED <<blocks, latest>> ELSE AddToBlocks(r)
  PROVE  ListInv'
<1>0. /\ Gapped(list) /\ list \in Seq(StreamRange) /\ Len(list) \in Nat
      /\ listLatest \in Nat /\ listLatest <= Len(list) /\ blocks = Elements(list) /\ LatestListed
  BY DEF ListInv, Gapped
<1>1. \A k \in DOMAIN list : list[k] \in StreamRange /\ list[k].start \in Nat /\ list[k].end \in Nat
  BY <1>0, BlockOfList
<1>2. /\ \A k \in DOMAIN list : list[k].start < list[k].end
      /\ \A j, k \in DOMAIN list : j < k => list[j].end < list[k].start
  BY <1>0 DEF Gapped
<1>3. r.start \in Nat /\ r.end \in Nat
  BY DEF StreamRange
<1>4. PICK at : at = (IF listLatest = 0 \/ r.end < list[listLatest].start THEN 1 ELSE listLatest)
  OBVIOUS
<1>5. PICK i : i = L!SearchFrom(at, r)
  OBVIOUS
<1>6. PICK ws : ws = Widened(list, i, r)
  OBVIOUS
<1>7. /\ at \in 1 .. (Len(list) + 1) /\ i \in at .. (Len(list) + 1)
      /\ at = 1 \/ (at = listLatest /\ list[at].start <= r.end)
      /\ listLatest = 0 \/ at = listLatest \/ r.end < list[listLatest].start
      /\ \A k \in at .. (i - 1) : list[k].end < r.start
      /\ i <= Len(list) => ~(list[i].end < r.start)
      /\ i > Len(list) \/ r.end < list[i].start => \A k \in 1 .. (i - 1) : list[k].end < r.start
  BY <1>4, <1>5, SearchPlace
<1>8. at \in Nat /\ i \in Nat /\ 1 <= at /\ at <= i /\ i <= Len(list) + 1
  BY <1>0, <1>7
<1>9. L!AddToBlocks(r) =
            IF i > Len(list) \/ L!RelativePos(list[i], r) = "PREV"
            THEN [blocks |-> Put(list, i, r), latest |-> i]
            ELSE IF list[i].start <= r.start /\ r.end <= list[i].end
            THEN [blocks |-> list, latest |-> listLatest]
            ELSE IF L!RelativePos(list[i], r) = "INCLUDE"
            THEN L!BlocksMerge([blocks |-> ws, latest |-> i], i)
            ELSE L!BlocksMerge([blocks |-> ws, latest |-> listLatest], i)
  BY <1>4, <1>5, <1>6, AddToBlocksCases
<1>10. i <= Len(list) => i \in DOMAIN list /\
            (L!RelativePos(list[i], r) = "PREV" <=> r.end < list[i].start)
  <2>1. ASSUME i <= Len(list) PROVE i \in DOMAIN list
    BY <1>0, <1>8, <2>1
  <2> QED
    BY <1>1, <1>2, <2>1, RelativePosition
<1>11. CASE i > Len(list) \/ r.end < list[i].start
  <2>1. L!AddToBlocks(r) = [blocks |-> Put(list, i, r), latest |-> i]
    BY <1>0, <1>8, <1>9, <1>10, <1>11
  <2>2. list' = Put(list, i, r) /\ listLatest' = i
    BY <2>1
  <2>3. \A k \in 1 .. (i - 1) : list[k].end < r.start
    BY <1>7, <1>11
  <2>4. ASSUME NEW k \in i .. Len(list) PROVE r.end < list[k].start
    <3>1. i \in DOMAIN list /\ k \in DOMAIN list /\ k \in Nat /\ i <= k
      BY <1>0, <1>8
    <3>2. r.end < list[i].start
      BY <1>0, <1>8, <1>11, <3>1
    <3>3. k = i \/ (list[i].start < list[i].end /\ list[i].end < list[k].start)
      BY <1>2, <1>8, <3>1
    <3> QED
      BY <1>1, <1>3, <3>1, <3>2, <3>3
  <2>5. ASSUME InOldBlock(r) PROVE FALSE
    <3>1. PICK k \in DOMAIN list : list[k].start <= r.start /\ r.end <= list[k].end
      BY <1>0, <2>5 DEF InOldBlock, Elements
    <3>2. k \in 1 .. (i - 1) \/ k \in i .. Len(list)
      BY <1>0, <1>8
    <3>3. list[k].end < r.start \/ r.end < list[k].start
      BY <2>3, <2>4, <3>2
    <3> QED
      BY <1>1, <1>3, <3>1, <3>3
  <2>6. AddToBlocks(r)
    BY <2>5
  <2>7. i \in 1 .. (Len(list) + 1)
    BY <1>0, <1>8
  <2> QED
    BY <2>2, <2>3, <2>4, <2>6, <2>7, PutListed
<1>12. CASE ~(i > Len(list) \/ r.end < list[i].start)
  <2>1. i \in DOMAIN list /\ ~(list[i].end < r.start) /\ ~(r.end < list[i].start) /\ i <= Len(list)
    BY <1>0, <1>7, <1>8, <1>10, <1>12
  <2>2. Touches(list[i], r)
    BY <1>1, <1>3, <2>1 DEF Touches
  <2>3. CASE list[i].start <= r.start /\ r.end <= list[i].end
    <3>1. L!AddToBlocks(r) = [blocks |-> list, latest |-> listLatest]
      BY <1>8, <1>9, <1>10, <1>12, <2>1, <2>3
    <3>2. list' = list /\ listLatest' = listLatest
      BY <3>1
    <3>3. list[i] \in blocks
      BY <1>0, <2>1 DEF Elements
    <3>4. blocks' = blocks /\ latest' = latest
      BY <2>3, <3>3 DEF InOldBlock
    <3> QED
      BY <1>0, <3>2, <3>4 DEF ListInv, Gapped, Elements, LatestListed
  <2>4. CASE ~(list[i].start <= r.start /\ r.end <= list[i].end)
    <3>1. ASSUME InOldBlock(r) PROVE FALSE
      <4>1. PICK k \in DOMAIN list : list[k].start <= r.start /\ r.end <= list[k].end
        BY <1>0, <3>1 DEF InOldBlock, Elements
      <4>2. k # i
        BY <2>4, <4>1
      <4>a. k \in Nat
        BY <1>0
      <4>3. k \in Nat /\ (k < i \/ i < k)
        BY <1>8, <4>2, <4>a
      <4>4. list[k].end < list[i].start \/ list[i].end < list[k].start
        BY <1>2, <2>1, <4>1, <4>3
      <4> QED
        BY <1>1, <1>3, <2>1, <4>1, <4>4
    <3>2. AddToBlocks(r)
      BY <3>1
    <3>3. PICK n : n = (IF r.start <= list[i].start /\ list[i].end <= r.end THEN i ELSE listLatest)
      OBVIOUS
    <3>4. L!RelativePos(list[i], r) = "INCLUDE" <=> (r.start <= list[i].start /\ list[i].end <= r.end)
      BY <1>1, <1>2, <2>1, <2>4, RelativePosition
    <3>5. L!AddToBlocks(r) = L!BlocksMerge([blocks |-> ws, latest |-> n], i)
      BY <1>8, <1>9, <1>10, <1>12, <2>1, <2>4, <3>3, <3>4
    <3>6. n \in Nat
      BY <1>0, <1>8, <3>3
    <3>7. PICK lo \in 1 .. i, hi \in i .. Len(list), m \in StreamRange, cs \in Seq(StreamRange) :
            /\ L!BlocksMerge([blocks |-> ws, latest |-> n], i)
                  = [blocks |-> cs, latest |-> Moved(Moved(n, i + 1, hi), lo, i - 1)]
            /\ Replaced(list, lo, hi, m, cs)
            /\ MergesRange(list, r, lo, hi, m)
      BY <1>0, <1>6, <2>1, <2>2, <3>6, MergeEffect
    <3>8. list' = cs /\ listLatest' = Moved(Moved(n, i + 1, hi), lo, i - 1)
      BY <3>5, <3>7
    <3>9. /\ lo \in DOMAIN list /\ hi \in DOMAIN list /\ lo \in Nat /\ hi \in Nat
          /\ 1 <= lo /\ lo <= i /\ i <= hi /\ hi <= Len(list)
      BY <1>0, <1>8, <2>1
    <3>10. \A k \in DOMAIN list : Touches(list[k], r) <=> k \in lo .. hi
      BY <3>7 DEF MergesRange
    <3>11. Touches(list[lo], r)
      <4>1. lo \in lo .. hi
        BY <1>8, <3>9
      <4> QED
        BY <3>9, <3>10, <4>1
    <3>12. list[lo].start <= r.end /\ r.start <= list[lo].end
      BY <3>11 DEF Touches
    <3>13. lo = i \/ listLatest = i
      <4>1. SUFFICES ASSUME lo # i PROVE listLatest = i
        OBVIOUS
      <4>2. lo < i
        BY <1>8, <3>9, <4>1
      <4>3. lo < at
        <5>1. SUFFICES ASSUME ~(lo < at) PROVE FALSE
          OBVIOUS
        <5>2. lo \in at .. (i - 1)
          BY <1>8, <3>9, <4>2, <5>1
        <5>3. list[lo].end < r.start
          BY <1>7, <5>2
        <5> QED
          BY <1>1, <1>3, <3>9, <3>12, <5>3
      <4>4. at = listLatest
        BY <1>7, <1>8, <3>9, <4>3
      <4>5. at = i
        <5>1. SUFFICES ASSUME at # i PROVE FALSE
          OBVIOUS
        <5>2. at \in at .. (i - 1) /\ at \in DOMAIN list
          BY <1>0, <1>8, <5>1
        <5>3. list[at].end < r.start
          BY <1>7, <5>2
        <5>4. list[lo].end < list[at].start /\ list[at].start < list[at].end
          BY <1>2, <3>9, <4>3, <5>2
        <5> QED
          BY <1>1, <1>3, <3>9, <3>12, <5>2, <5>3, <5>4
      <4> QED
        BY <4>4, <4>5
    <3>14. listLatest \in lo .. hi => listLatest = i
      <4>1. SUFFICES ASSUME listLatest \in lo .. hi PROVE listLatest = i
        OBVIOUS
      <4>2. listLatest \in DOMAIN list /\ listLatest # 0
        BY <1>0, <3>9, <4>1
      <4>3. list[listLatest].start <= r.end /\ r.start <= list[listLatest].end
        BY <3>10, <4>1, <4>2 DEF Touches
      <4>4. at = listLatest
        BY <1>1, <1>3, <1>7, <4>2, <4>3
      <4>5. ~(at \in at .. (i - 1))
        BY <1>1, <1>3, <1>7, <4>2, <4>3, <4>4
      <4> QED
        BY <1>8, <4>4, <4>5
    <3>15. NoBlock \notin blocks
      BY DEF BlocksAheadOfAck, NoBlock
    <3> QED
      BY <1>8, <3>2, <3>3, <3>6, <3>7, <3>8, <3>9, <3>13, <3>14, <3>15, MergeListed
  <2> QED
    BY <2>3, <2>4
<1> QED
  BY <1>11, <1>12

(* The first block of the list is the one RecvQueue.tla tries.             *)
LEMMA HeadIsFirst ==
  ASSUME ListInv
  PROVE  /\ blocks = {} <=> list = <<>>
         /\ list # <<>> => /\ 1 \in DOMAIN list /\ Head(list) = list[1] /\ First(blocks) = list[1]
                           /\ \A k \in DOMAIN list : k # 1 => list[k] # list[1]
<1>0. Gapped(list) /\ list \in Seq(StreamRange) /\ Len(list) \in Nat /\ blocks = Elements(list)
  BY DEF ListInv, Gapped
<1>1. \A k \in DOMAIN list : list[k].start \in Nat /\ list[k].end \in Nat
  BY <1>0, BlockOfList
<1>2. /\ \A k \in DOMAIN list : list[k].start < list[k].end
      /\ \A j, k \in DOMAIN list : j < k => list[j].end < list[k].start
  BY <1>0 DEF Gapped
<1>3. CASE list = <<>>
  BY <1>0, <1>3 DEF Elements
<1>4. CASE list # <<>>
  <2>1. 1 \in DOMAIN list /\ Head(list) = list[1]
    BY <1>0, <1>4
  <2>2. ASSUME NEW k \in DOMAIN list, k # 1 PROVE list[1].start < list[k].start
    <3>1. 1 < k
      BY <1>0, <2>2
    <3>2. list[1].end < list[k].start /\ list[1].start < list[1].end
      BY <1>2, <2>1, <3>1
    <3> QED
      BY <1>1, <2>1, <3>2
  <2>3. list[1] \in blocks /\ \A s \in blocks : list[1].start <= s.start
    BY <1>0, <1>1, <2>1, <2>2 DEF Elements
  <2>4. ASSUME NEW b \in blocks, \A s \in blocks : b.start <= s.start PROVE b = list[1]
    <3>1. PICK k \in DOMAIN list : b = list[k]
      BY <1>0 DEF Elements
    <3>2. list[k].start <= list[1].start
      BY <2>3, <2>4, <3>1
    <3> QED
      BY <1>1, <2>1, <2>2, <3>1, <3>2
  <2>5. First(blocks) = list[1]
    BY <2>3, <2>4 DEF First
  <2>6. \A k \in DOMAIN list : k # 1 => list[k] # list[1]
    BY <1>1, <2>1, <2>2
  <2> QED
    BY <1>4, <2>1, <2>3, <2>5, <2>6
<1> QED
  BY <1>3, <1>4

(* A list without its first block.                                         *)
LEMMA WithoutFirst ==
  ASSUME NEW bs, Gapped(bs), 1 \in DOMAIN bs, NEW cs, IsDeleted(bs, 1, 1, cs),
         \A k \in DOMAIN bs : k # 1 => bs[k] # bs[1]
  PROVE  /\ Gapped(cs) /\ Elements(cs) = Elements(bs) \ {bs[1]}
         /\ Len(cs) = Len(bs) - 1 /\ \A k \in 2 .. Len(bs) : cs[k - 1] = bs[k]
<1>0. bs \in Seq(StreamRange) /\ Len(bs) \in Nat /\ 1 <= Len(bs)
  BY DEF Gapped
<1>1. /\ \A k \in DOMAIN bs : bs[k].start < bs[k].end
      /\ \A j, k \in DOMAIN bs : j < k => bs[j].end < bs[k].start
  BY DEF Gapped
<1>2. cs \in Seq(StreamRange) /\ Len(cs) = Len(bs) - 1 /\ \A k \in 1 .. Len(cs) : cs[k] = bs[k + 1]
  BY <1>0 DEF IsDeleted
<1>3. ASSUME NEW k \in DOMAIN cs PROVE k \in Nat /\ k + 1 \in DOMAIN bs /\ k + 1 # 1 /\ cs[k] = bs[k + 1]
  <2>1. k \in 1 .. Len(cs) /\ k \in Nat
    BY <1>2
  <2>2. k + 1 \in 1 .. Len(bs)
    BY <1>0, <1>2, <2>1
  <2> QED
    BY <1>0, <1>2, <2>1, <2>2
<1>4. ASSUME NEW k \in 2 .. Len(bs) PROVE k - 1 \in DOMAIN cs /\ cs[k - 1] = bs[k]
  <2>1. k - 1 \in 1 .. Len(cs) /\ (k - 1) + 1 = k
    BY <1>0, <1>2
  <2> QED
    BY <1>2, <2>1
<1>5. Gapped(cs)
  <2>1. \A k \in DOMAIN cs : cs[k].start < cs[k].end
    BY <1>1, <1>3
  <2>2. ASSUME NEW j \in DOMAIN cs, NEW k \in DOMAIN cs, j < k PROVE cs[j].end < cs[k].start
    <3>1. j + 1 < k + 1
      BY <1>3, <2>2
    <3> QED
      BY <1>1, <1>3, <3>1
  <2> QED
    BY <1>2, <2>1, <2>2 DEF Gapped
<1>6. Elements(cs) = Elements(bs) \ {bs[1]}
  <2>1. ASSUME NEW b \in Elements(cs) PROVE b \in Elements(bs) \ {bs[1]}
    BY <1>3 DEF Elements
  <2>2. ASSUME NEW b \in Elements(bs), b # bs[1] PROVE b \in Elements(cs)
    <3>1. PICK k \in DOMAIN bs : b = bs[k]
      BY DEF Elements
    <3>2. k \in 2 .. Len(bs)
      BY <1>0, <2>2, <3>1
    <3> QED
      BY <1>4, <3>1, <3>2 DEF Elements
  <2> QED
    BY <2>1, <2>2
<1> QED
  BY <1>2, <1>4, <1>5, <1>6

(* RecvQueueUpdateStreamPos on a range in order.                           *)
LEMMA InOrderListed ==
  ASSUME ListInv, NEW r \in StreamRange, r.start < r.end,
         listAck < r.end, r.start <= listAck, listAck \in Nat,
         L!UpdateStreamPos(r), InOrder(r)
  PROVE  ListInv'
<1>0. /\ Gapped(list) /\ list \in Seq(StreamRange) /\ Len(list) \in Nat
      /\ listLatest \in Nat /\ listLatest <= Len(list) /\ blocks = Elements(list) /\ LatestListed
  BY DEF ListInv, Gapped
<1>1. r.start \in Nat /\ r.end \in Nat
  BY DEF StreamRange
<1>2. IF list # <<>> /\ L!Joins(Head(list), r)
      THEN /\ listAck' = L!MaxPos(r.end, Head(list).end)
           /\ list' = L!DeleteBlocks([blocks |-> list, latest |-> listLatest], 1, 1).blocks
           /\ listLatest' = L!DeleteBlocks([blocks |-> list, latest |-> listLatest], 1, 1).latest
      ELSE listAck' = r.end /\ UNCHANGED <<list, listLatest>>
  BY <1>1 DEF L!UpdateStreamPos
<1>3. CASE list = <<>> \/ ~L!Joins(Head(list), r)
  <2>1. listAck' = r.end /\ list' = list /\ listLatest' = listLatest
    BY <1>2, <1>3
  <2>2. ~(blocks # {} /\ Touches(First(blocks), r))
    <3>1. CASE list = <<>>
      BY <3>1, HeadIsFirst
    <3>2. CASE list # <<>>
      <4>1. 1 \in DOMAIN list /\ Head(list) = list[1] /\ First(blocks) = list[1]
        BY <3>2, HeadIsFirst
      <4>2. list[1] \in StreamRange /\ list[1].start < list[1].end
        BY <1>0, <4>1 DEF Gapped
      <4>3. ~L!Joins(list[1], r)
        BY <1>3, <3>2, <4>1
      <4> QED
        BY <4>1, <4>2, <4>3, RelativePosition
    <3> QED
      BY <3>1, <3>2
  <2>3. ackStreamPos' = r.end /\ blocks' = blocks /\ latest' = latest
    BY <2>2 DEF InOrder
  <2> QED
    BY <1>0, <2>1, <2>3 DEF ListInv, Gapped, Elements, LatestListed
<1>4. CASE list # <<>> /\ L!Joins(Head(list), r)
  <2>1. /\ 1 \in DOMAIN list /\ Head(list) = list[1] /\ First(blocks) = list[1] /\ blocks # {}
        /\ \A k \in DOMAIN list : k # 1 => list[k] # list[1]
    BY <1>4, HeadIsFirst
  <2>2. list[1] \in StreamRange /\ list[1].start < list[1].end
    BY <1>0, <2>1 DEF Gapped
  <2>3. Touches(First(blocks), r)
    BY <1>4, <2>1, <2>2, RelativePosition
  <2>4. /\ ackStreamPos' = MaxPos(r.end, list[1].end)
        /\ blocks' = blocks \ {list[1]}
        /\ latest' = IF latest = list[1] THEN NoBlock ELSE latest
    BY <2>1, <2>3 DEF InOrder
  <2>5. listAck' = MaxPos(r.end, list[1].end)
    BY <1>2, <1>4, <2>1 DEF MaxPos, L!MaxPos
  <2>6. PICK bs : bs = list
    OBVIOUS
  <2>7. PICK cs : cs = Deleted(bs, 1, 1)
    OBVIOUS
  <2>8. list' = cs /\ listLatest' = Moved(listLatest, 1, 1)
    <3>1. /\ list' = L!DeleteBlocks([blocks |-> list, latest |-> listLatest], 1, 1).blocks
          /\ listLatest' = L!DeleteBlocks([blocks |-> list, latest |-> listLatest], 1, 1).latest
      BY <1>2, <1>4
    <3>2. L!DeleteBlocks([blocks |-> list, latest |-> listLatest], 1, 1).blocks = Deleted(list, 1, 1)
      BY DEF L!DeleteBlocks, Deleted
    <3>3. L!DeleteBlocks([blocks |-> list, latest |-> listLatest], 1, 1).latest = Moved(listLatest, 1, 1)
      BY <1>0 DEF L!DeleteBlocks, Moved
    <3> QED
      BY <2>6, <2>7, <3>1, <3>2, <3>3
  <2>9. IsDeleted(bs, 1, 1, cs)
    <3>1. bs \in Seq(StreamRange) /\ 1 <= Len(bs)
      BY <1>0, <2>1, <2>6
    <3> QED
      BY <2>7, <3>1, DeletedBlocks
  <2>10. /\ Gapped(cs) /\ Elements(cs) = Elements(bs) \ {bs[1]}
         /\ Len(cs) = Len(bs) - 1 /\ \A k \in 2 .. Len(bs) : cs[k - 1] = bs[k]
    BY <1>0, <2>1, <2>6, <2>9, WithoutFirst
  <2>11. Gapped(list)' /\ (blocks = Elements(list))'
    <3>1. Gapped(list)'
      BY <2>8, <2>10 DEF Gapped
    <3>2. Elements(list)' = Elements(cs)
      BY <2>8 DEF Elements
    <3> QED
      BY <1>0, <2>4, <2>6, <2>10, <3>1, <3>2
  <2>12. (listLatest \in 0 .. Len(list))' /\ LatestListed'
    <3>1. listLatest' = IF listLatest < 1 THEN listLatest ELSE IF listLatest <= 1 THEN 0 ELSE listLatest - 1
      BY <1>0, <2>8 DEF Moved
    <3>2. Len(cs) = Len(list) - 1 /\ 1 <= Len(list)
      BY <1>0, <2>1, <2>6, <2>10
    <3>3. CASE listLatest = 0
      <4>1. latest = NoBlock /\ latest' = NoBlock
        BY <1>0, <2>4, <3>3 DEF LatestListed
      <4>2. listLatest' = 0
        BY <3>1, <3>3
      <4>3. (listLatest \in 0 .. Len(list))'
        BY <1>0, <2>8, <3>2, <4>2
      <4> QED
        BY <4>1, <4>2, <4>3 DEF LatestListed
    <3>4. CASE listLatest = 1
      <4>1. latest = list[1] /\ latest' = NoBlock
        BY <1>0, <2>4, <3>4 DEF LatestListed
      <4>2. listLatest' = 0
        BY <3>1, <3>4
      <4>3. (listLatest \in 0 .. Len(list))'
        BY <1>0, <2>8, <3>2, <4>2
      <4> QED
        BY <4>1, <4>2, <4>3 DEF LatestListed
    <3>5. CASE listLatest > 1
      <4>1. listLatest \in DOMAIN list /\ listLatest # 1 /\ listLatest # 0
        BY <1>0, <3>5
      <4>2. latest = list[listLatest] /\ latest' = latest
        BY <1>0, <2>1, <2>4, <4>1 DEF LatestListed
      <4>3. listLatest' = listLatest - 1 /\ listLatest \in 2 .. Len(bs)
        BY <1>0, <2>6, <3>1, <3>5
      <4>4. cs[listLatest - 1] = list[listLatest]
        BY <2>6, <2>10, <4>3
      <4>5. listLatest - 1 \in 0 .. Len(cs) /\ listLatest - 1 # 0
        BY <1>0, <3>2, <3>5
      <4> QED
        BY <2>8, <4>2, <4>3, <4>4, <4>5 DEF LatestListed
    <3> QED
      BY <1>0, <3>3, <3>4, <3>5
  <2> QED
    BY <2>4, <2>5, <2>11, <2>12 DEF ListInv
<1> QED
  BY <1>3, <1>4

(* RecvQueueUpdateStreamPos on the list and on the set at the same time.    *)
LEMMA ListUpdateListed ==
  ASSUME RecvInv, ListInv, NEW t \in Threads, ListUpdateStreamPos(t)
  PROVE  ListInv'
<1>1. PICK r : r = [start |-> job[t].start, end |-> job[t].end]
  OBVIOUS
<1>2. job[t] \in Job /\ job[t].start \in Nat /\ job[t].end \in Nat /\ ackStreamPos \in Nat
  BY DEF RecvInv, RecvTypes, Job
<1>3. UpdateStreamPos(t) /\ L!UpdateStreamPos(r)
  BY <1>1 DEF ListUpdateStreamPos
<1>4. pc[t] = "update"
  BY <1>3 DEF UpdateStreamPos
<1>5. job[t].start < job[t].end
  BY <1>4 DEF RecvInv, StreamInv, SavedStored
<1>6. r \in StreamRange /\ r.start = job[t].start /\ r.end = job[t].end /\ r.start < r.end
  BY <1>1, <1>2, <1>5 DEF StreamRange
<1>7. BlocksAheadOfAck /\ listAck = ackStreamPos
  BY DEF RecvInv, StreamInv, ListInv
<1>8. InOldBlock(job[t]) <=> InOldBlock(r)
  BY <1>6 DEF InOldBlock
<1>9. CASE r.end <= ackStreamPos
  <2>1. UNCHANGED blockVars
    BY <1>2, <1>3, <1>6, <1>9 DEF UpdateStreamPos
  <2>2. UNCHANGED <<listAck, list, listLatest>>
    BY <1>2, <1>3, <1>6, <1>7, <1>9 DEF L!UpdateStreamPos, L!vars
  <2> QED
    BY <2>1, <2>2 DEF ListInv, Gapped, Elements, LatestListed, blockVars
<1>10. CASE ackStreamPos < r.end /\ r.start <= ackStreamPos
  <2>1. InOrder(r)
    BY <1>1, <1>2, <1>3, <1>6, <1>10 DEF UpdateStreamPos
  <2> QED
    BY <1>2, <1>3, <1>6, <1>7, <1>10, <2>1, InOrderListed
<1>11. CASE ackStreamPos < r.start
  <2>1. /\ UNCHANGED ackStreamPos
        /\ IF InOldBlock(r) THEN UNCHANGED <<blocks, latest>> ELSE AddToBlocks(r)
    BY <1>1, <1>2, <1>3, <1>6, <1>8, <1>11 DEF UpdateStreamPos, blockVars
  <2>2. /\ list' = L!AddToBlocks(r).blocks /\ listLatest' = L!AddToBlocks(r).latest
        /\ listAck' = listAck
    BY <1>2, <1>3, <1>6, <1>7, <1>11 DEF L!UpdateStreamPos
  <2>3. listAck' = ackStreamPos'
    BY <1>7, <2>1, <2>2
  <2> QED
    BY <1>2, <1>6, <1>7, <2>1, <2>2, <2>3, AddToBlocksListed
<1> QED
  BY <1>2, <1>6, <1>9, <1>10, <1>11

(* The search from recvBlock.latest, the two merge loops and the deletions *)
(* of RecvQueueAddToBlocks and RecvQueueUpdateStreamPos have the effect on *)
(* the list that RecvQueue.tla gives them on the set of blocks, and        *)
(* recvBlock.latest never points to a block that was freed, for any number *)
(* of blocks, threads and packages.                                        *)
THEOREM BlocksAreListed == ListedSpec => []ListIsBlocks
<1>1. ListedInit => RecvCutInv /\ ListInv
  <2>1. Init => RecvCutInv
    BY RecvInit DEF RecvCutInv, AsCut, Init
  <2>2. ASSUME ListedInit PROVE ListInv
    <3>1. /\ list = <<>> /\ listLatest = 0 /\ listAck = InitStreamPos
          /\ ackStreamPos = InitStreamPos /\ blocks = {} /\ latest = NoBlock
      BY <2>2 DEF ListedInit, L!Init, Init
    <3>2. Len(list) = 0 /\ DOMAIN list = {} /\ list \in Seq(StreamRange)
      BY <3>1
    <3> QED
      BY <3>1, <3>2 DEF ListInv, Gapped, Elements, LatestListed
  <2> QED
    BY <2>1, <2>2 DEF ListedInit
<1>2. RecvCutInv /\ ListInv /\ [ListedNext]_<<vars, listVars>> => RecvCutInv' /\ ListInv'
  <2> SUFFICES ASSUME RecvCutInv, ListInv, [ListedNext]_<<vars, listVars>> PROVE RecvCutInv' /\ ListInv'
    OBVIOUS
  <2>0. ASSUME UNCHANGED <<blockVars, listVars>> PROVE ListInv'
    BY <2>0 DEF ListInv, Gapped, Elements, LatestListed, blockVars, listVars
  <2>1. [Next]_vars
    <3>1. ListedNext => Next
      BY Zenon DEF ListedNext, Next, ThreadStep, ListUpdateStreamPos
    <3>2. UNCHANGED <<vars, listVars>> => UNCHANGED vars
      OBVIOUS
    <3> QED
      BY <3>1, <3>2
  <2>2. RecvCutInv' /\ RecvInv
    BY <2>1, RecvNext DEF RecvCutInv
  <2>3. ASSUME NEW t \in Threads, ListUpdateStreamPos(t) PROVE ListInv'
    BY <2>2, <2>3, ListUpdateListed
  <2>4. ASSUME UNCHANGED listVars, NEW id \in BufferIds, AddBuffer(id) PROVE ListInv'
    BY <2>0, <2>4 DEF AddBuffer
  <2>5. ASSUME UNCHANGED listVars, NEW t \in Threads, NEW s \in Segments, SavePayload(t, s) PROVE ListInv'
    BY <2>0, <2>5 DEF SavePayload
  <2>6. ASSUME UNCHANGED listVars, NEW t \in Threads,
               PopCompleteBuffers(t) \/ QueueReady(t) \/ NotifyNext(t) \/ Callback(t) \/ RecvTimerFires(t) \/ FinPackage(t)
        PROVE  ListInv'
    BY <2>0, <2>2, <2>6, OtherSteps
  <2>7. ASSUME UNCHANGED <<vars, listVars>> PROVE ListInv'
    BY <2>0, <2>7 DEF vars
  <2>8. ListInv'
    BY <2>3, <2>4, <2>5, <2>6, <2>7, Zenon DEF ListedNext
  <2> QED
    BY <2>2, <2>8
<1>3. RecvCutInv /\ ListInv => ListIsBlocks
  <2> SUFFICES ASSUME RecvInv, ListInv PROVE ListIsBlocks
    BY DEF RecvCutInv
  <2>1. BlocksAheadOfAck
    BY DEF RecvInv, StreamInv
  <2>2. list \in Seq(StreamRange) /\ Len(list) \in Nat
    BY DEF ListInv, Gapped
  <2>3. ASSUME NEW i \in 1 .. (Len(list) - 1) PROVE list[i].end < list[i + 1].start
    <3>1. i \in DOMAIN list /\ i + 1 \in DOMAIN list /\ i < i + 1
      BY <2>2
    <3> QED
      BY <3>1 DEF ListInv, Gapped
  <2>4. IF listLatest = 0 THEN latest = NoBlock ELSE listLatest \in DOMAIN list /\ latest = list[listLatest]
    <3>1. listLatest # 0 => listLatest \in DOMAIN list
      BY <2>2 DEF ListInv
    <3> QED
      BY <3>1 DEF ListInv, LatestListed
  <2>5. blocks = {list[i] : i \in DOMAIN list} /\ listAck = ackStreamPos
    BY DEF ListInv, Elements
  <2> QED
    BY <2>1, <2>3, <2>4, <2>5 DEF ListIsBlocks
<1> QED
  BY <1>1, <1>2, <1>3, PTL DEF ListedSpec

=============================================================================
