------------------------ MODULE SendQueueListProofs ------------------------
(****************************************************************************)
(* The two block lists and the buffer list of SendQueue.imp.inl, with the   *)
(* walk over both lists, the splice and the sorted insertion, do to the     *)
(* lists what SendQueue.tla does to the sets of blocks and buffers: for     *)
(* every number of blocks, mtu and sequence of acks.                        *)
(****************************************************************************)
EXTENDS SendQueueList, SendQueueProofs, WellFoundedInduction

(* A list of blocks in stream order.                                       *)
Sorted(bs) ==
    /\ bs \in Seq(StreamRange)
    /\ \A i \in 1 .. Len(bs) : bs[i].start < bs[i].end
    /\ \A i, j \in 1 .. Len(bs) : i < j => bs[i].end <= bs[j].start

Elements(bs) == {bs[i] : i \in 1 .. Len(bs)}

(* Every block of A ends before any of B begins, or they lie apart.        *)
Before(A, B) == \A a \in A, b \in B : a.end <= b.start

Apart(A, B) == \A a \in A, b \in B : a.end <= b.start \/ b.end <= a.start

IsBlock(b) == b \in StreamRange /\ b.start < b.end

-----------------------------------------------------------------------------
(* Lists in stream order and their elements.                               *)

Less == {r \in Nat \X Nat : r[1] < r[2]}

LEMMA LessWellFounded == IsWellFoundedOn(Less, Nat)
<1>1. OpToRel(<, Nat) = Less
  BY Zenon DEF OpToRel, Less
<1> QED
  BY <1>1, NatLessThanWellFounded, Zenon

(* A set of natural numbers that is not empty has a smallest element.      *)
LEMMA Least ==
  ASSUME NEW S \in SUBSET Nat, S # {}
  PROVE  \E x \in S : \A y \in S : x <= y
<1>1. PICK x \in S : \A y \in S : ~(<<y, x>> \in Less)
  BY LessWellFounded, WFMin
<1>2. \A u, v \in Nat : <<u, v>> \in Less <=> u < v
  BY DEF Less
<1> HIDE DEF Less
<1>3. \A y \in S : ~(y < x)
  BY <1>1, <1>2
<1> QED
  BY <1>3

(* The blocks of a list.                                                   *)
LEMMA SortedBlocks ==
  ASSUME NEW bs, Sorted(bs)
  PROVE  /\ bs \in Seq(StreamRange) /\ Len(bs) \in Nat
         /\ \A i \in 1 .. Len(bs) : IsBlock(bs[i]) /\ bs[i] \in Elements(bs)
         /\ \A b \in Elements(bs) : IsBlock(b) /\ \E i \in 1 .. Len(bs) : b = bs[i]
         /\ \A i, j \in 1 .. Len(bs) : i < j => bs[i].end <= bs[j].start
<1>1. bs \in Seq(StreamRange) /\ Len(bs) \in Nat
  BY DEF Sorted
<1>2. \A i \in 1 .. Len(bs) : bs[i] \in StreamRange
  BY <1>1
<1>3. \A i \in 1 .. Len(bs) : IsBlock(bs[i]) /\ bs[i] \in Elements(bs)
  BY <1>2 DEF Sorted, IsBlock, Elements
<1>4. \A b \in Elements(bs) : IsBlock(b) /\ \E i \in 1 .. Len(bs) : b = bs[i]
  BY <1>3 DEF Elements
<1> QED
  BY <1>1, <1>3, <1>4 DEF Sorted

LEMMA BlockFields ==
  ASSUME NEW b, IsBlock(b)
  PROVE  b \in StreamRange /\ b.start \in Nat /\ b.end \in Nat /\ b.start < b.end
  BY DEF IsBlock, StreamRange

LEMMA BlockSetIs ==
  ASSUME NEW bs \in Seq(StreamRange)
  PROVE  L!BlockSet(bs) = Elements(bs)
<1>1. DOMAIN bs = 1 .. Len(bs)
  OBVIOUS
<1> QED
  BY <1>1, Zenon DEF L!BlockSet, Elements

LEMMA SortedEmpty == Sorted(<<>>) /\ Elements(<<>>) = {}
<1>1. <<>> \in Seq(StreamRange) /\ Len(<<>>) = 0 /\ 1 .. 0 = {}
  OBVIOUS
<1> QED
  BY <1>1 DEF Sorted, Elements

LEMMA EmptyElements ==
  ASSUME NEW bs, Sorted(bs)
  PROVE  bs = <<>> <=> Elements(bs) = {}
<1>1. bs \in Seq(StreamRange) /\ Len(bs) \in Nat
  BY SortedBlocks
<1>2. ASSUME bs # <<>> PROVE Elements(bs) # {}
  <2>1. 1 \in 1 .. Len(bs)
    BY <1>1, <1>2
  <2> QED
    BY <2>1, SortedBlocks
<1> QED
  BY <1>2, SortedEmpty

(* The end and the beginning of a list.                                    *)
LEMMA SortedAppend ==
  ASSUME NEW bs, Sorted(bs), NEW b, IsBlock(b), Before(Elements(bs), {b})
  PROVE  Sorted(Append(bs, b)) /\ Elements(Append(bs, b)) = Elements(bs) \cup {b}
<1> DEFINE cs == Append(bs, b)
<1>1. bs \in Seq(StreamRange) /\ Len(bs) \in Nat /\ b \in StreamRange
  BY SortedBlocks DEF IsBlock
<1>2. /\ cs \in Seq(StreamRange) /\ Len(cs) = Len(bs) + 1
      /\ cs[Len(bs) + 1] = b
      /\ \A i \in 1 .. Len(bs) : cs[i] = bs[i]
  BY <1>1
<1>3. \A i \in 1 .. (Len(bs) + 1) : i \in 1 .. Len(bs) \/ i = Len(bs) + 1
  BY <1>1
<1> HIDE DEF cs
<1>4. \A i \in 1 .. Len(cs) : cs[i].start < cs[i].end
  BY <1>2, <1>3, SortedBlocks DEF IsBlock
<1>5. ASSUME NEW i \in 1 .. Len(cs), NEW j \in 1 .. Len(cs), i < j
      PROVE  cs[i].end <= cs[j].start
  <2>1. i \in 1 .. Len(bs) /\ (j \in 1 .. Len(bs) \/ j = Len(bs) + 1)
    BY <1>1, <1>2, <1>5
  <2>2. CASE j \in 1 .. Len(bs)
    BY <1>2, <1>5, <2>1, <2>2, SortedBlocks
  <2>3. CASE j = Len(bs) + 1
    BY <1>2, <2>1, <2>3, SortedBlocks DEF Before
  <2> QED
    BY <2>1, <2>2, <2>3
<1>6. Elements(cs) = Elements(bs) \cup {b}
  <2>1. ASSUME NEW c \in Elements(cs) PROVE c \in Elements(bs) \cup {b}
    <3>1. PICK i \in 1 .. Len(cs) : c = cs[i]
      BY DEF Elements
    <3> QED
      BY <1>2, <1>3, <3>1, SortedBlocks
  <2>2. ASSUME NEW c \in Elements(bs) PROVE c \in Elements(cs)
    <3>1. PICK i \in 1 .. Len(bs) : c = bs[i]
      BY DEF Elements
    <3>2. i \in 1 .. Len(cs) /\ cs[i] = c
      BY <1>1, <1>2, <3>1
    <3> QED
      BY <3>2 DEF Elements
  <2>3. b \in Elements(cs)
    <3>1. Len(bs) + 1 \in 1 .. Len(cs) /\ cs[Len(bs) + 1] = b
      BY <1>1, <1>2
    <3> QED
      BY <3>1, Zenon DEF Elements
  <2> QED
    BY <2>1, <2>2, <2>3
<1> QED
  BY <1>2, <1>4, <1>5, <1>6 DEF Sorted, cs

LEMMA SortedTail ==
  ASSUME NEW bs, Sorted(bs), bs # <<>>
  PROVE  /\ Sorted(Tail(bs))
         /\ Head(bs) \in Elements(bs) /\ IsBlock(Head(bs))
         /\ Elements(Tail(bs)) = Elements(bs) \ {Head(bs)}
         /\ Before({Head(bs)}, Elements(Tail(bs)))
<1> DEFINE cs == Tail(bs)
<1>1. bs \in Seq(StreamRange) /\ Len(bs) \in Nat /\ 1 \in 1 .. Len(bs) /\ Head(bs) = bs[1]
  BY SortedBlocks
<1>2. /\ cs \in Seq(StreamRange) /\ Len(cs) = Len(bs) - 1
      /\ \A i \in 1 .. Len(cs) : i + 1 \in 1 .. Len(bs) /\ cs[i] = bs[i + 1]
  BY <1>1
<1> HIDE DEF cs
<1>3. \A i \in 1 .. Len(cs) : cs[i].start < cs[i].end
  BY <1>2, SortedBlocks DEF IsBlock
<1>4. ASSUME NEW i \in 1 .. Len(cs), NEW j \in 1 .. Len(cs), i < j
      PROVE  cs[i].end <= cs[j].start
  <2>1. i + 1 < j + 1
    BY <1>4
  <2> QED
    BY <1>2, <2>1, SortedBlocks
<1>5. Head(bs) \in Elements(bs) /\ IsBlock(Head(bs))
  BY <1>1, SortedBlocks
<1>6. ASSUME NEW c \in Elements(cs)
      PROVE  c \in Elements(bs) /\ c # Head(bs) /\ Head(bs).end <= c.start
  <2>1. PICK i \in 1 .. Len(cs) : c = cs[i]
    BY DEF Elements
  <2>2. i + 1 \in 1 .. Len(bs) /\ 1 < i + 1 /\ c = bs[i + 1]
    BY <1>2, <2>1
  <2>3. c \in Elements(bs) /\ bs[1].end <= c.start /\ IsBlock(bs[1])
    BY <1>1, <2>2, SortedBlocks
  <2>4. bs[1].start \in Nat /\ bs[1].end \in Nat /\ bs[1].start < bs[1].end
    BY <2>3, BlockFields
  <2> QED
    BY <1>1, <2>3, <2>4
<1>7. ASSUME NEW c \in Elements(bs), c # Head(bs) PROVE c \in Elements(cs)
  <2>1. PICK i \in 1 .. Len(bs) : c = bs[i]
    BY DEF Elements
  <2>2. i # 1
    BY <1>1, <1>7, <2>1
  <2>3. i - 1 \in 1 .. Len(cs) /\ (i - 1) + 1 = i
    BY <1>1, <1>2, <2>2
  <2>4. cs[i - 1] = c
    BY <1>2, <2>1, <2>3
  <2> QED
    BY <2>3, <2>4, Zenon DEF Elements
<1>8. Elements(cs) = Elements(bs) \ {Head(bs)}
  BY <1>6, <1>7
<1> QED
  BY <1>2, <1>3, <1>4, <1>5, <1>6, <1>8 DEF Sorted, Before, cs

LEMMA SortedConcat ==
  ASSUME NEW s, NEW t, Sorted(s), Sorted(t), Before(Elements(s), Elements(t))
  PROVE  Sorted(s \o t) /\ Elements(s \o t) = Elements(s) \cup Elements(t)
<1> DEFINE cs == s \o t
<1>1. s \in Seq(StreamRange) /\ Len(s) \in Nat /\ t \in Seq(StreamRange) /\ Len(t) \in Nat
  BY SortedBlocks
<1>2. /\ cs \in Seq(StreamRange) /\ Len(cs) = Len(s) + Len(t)
      /\ \A i \in 1 .. Len(s) : cs[i] = s[i]
      /\ \A i \in 1 .. Len(t) : cs[Len(s) + i] = t[i]
  BY <1>1
<1> HIDE DEF cs
<1>3. ASSUME NEW i \in 1 .. Len(cs)
      PROVE  i \in 1 .. Len(s) \/ (i - Len(s) \in 1 .. Len(t) /\ Len(s) + (i - Len(s)) = i)
  BY <1>1, <1>2
<1>4. ASSUME NEW i \in 1 .. Len(cs) PROVE cs[i].start < cs[i].end
  BY <1>2, <1>3, SortedBlocks, ZenonT(30) DEF IsBlock
<1>5. ASSUME NEW i \in 1 .. Len(cs), NEW j \in 1 .. Len(cs), i < j
      PROVE  cs[i].end <= cs[j].start
  <2>1. CASE i \in 1 .. Len(s) /\ j \in 1 .. Len(s)
    BY <1>2, <1>5, <2>1, SortedBlocks
  <2>2. CASE i \in 1 .. Len(s) /\ j \notin 1 .. Len(s)
    <3>1. cs[j] \in Elements(t)
      BY <1>2, <1>3, <2>2, SortedBlocks, ZenonT(30)
    <3>2. cs[i] \in Elements(s)
      BY <1>2, <2>2, SortedBlocks
    <3> QED
      BY <3>1, <3>2 DEF Before
  <2>3. CASE i \notin 1 .. Len(s)
    <3>1. j \notin 1 .. Len(s)
      BY <1>1, <1>5, <2>3
    <3>2. i - Len(s) \in 1 .. Len(t) /\ j - Len(s) \in 1 .. Len(t) /\ i - Len(s) < j - Len(s)
      BY <1>1, <1>3, <1>5, <2>3, <3>1
    <3>3. cs[i] = t[i - Len(s)] /\ cs[j] = t[j - Len(s)]
      BY <1>2, <1>3, <2>3, <3>1
    <3> QED
      BY <3>2, <3>3, SortedBlocks
  <2> QED
    BY <2>1, <2>2, <2>3
<1>6. ASSUME NEW c \in Elements(cs) PROVE c \in Elements(s) \cup Elements(t)
  <2>1. PICK i \in 1 .. Len(cs) : c = cs[i]
    BY DEF Elements
  <2>2. CASE i \in 1 .. Len(s)
    BY <1>2, <2>1, <2>2, SortedBlocks
  <2>3. CASE i \notin 1 .. Len(s)
    <3>1. c = t[i - Len(s)] /\ i - Len(s) \in 1 .. Len(t)
      BY <1>2, <1>3, <2>1, <2>3
    <3> QED
      BY <3>1, SortedBlocks
  <2> QED
    BY <2>2, <2>3
<1>7. ASSUME NEW c \in Elements(s) PROVE c \in Elements(cs)
  <2>1. PICK i \in 1 .. Len(s) : c = s[i]
    BY DEF Elements
  <2>2. i \in 1 .. Len(cs) /\ cs[i] = c
    BY <1>1, <1>2, <2>1
  <2> QED
    BY <2>2 DEF Elements
<1>8. ASSUME NEW c \in Elements(t) PROVE c \in Elements(cs)
  <2>1. PICK i \in 1 .. Len(t) : c = t[i]
    BY DEF Elements
  <2>2. Len(s) + i \in 1 .. Len(cs) /\ cs[Len(s) + i] = c
    BY <1>1, <1>2, <2>1
  <2> QED
    BY <2>2, Zenon DEF Elements
<1>9. Elements(cs) = Elements(s) \cup Elements(t)
  BY <1>6, <1>7, <1>8
<1> QED
  BY <1>2, <1>4, <1>5, <1>9 DEF Sorted, cs

(* A part of a list.                                                       *)
LEMMA SortedPart ==
  ASSUME NEW bs, Sorted(bs), NEW m \in Nat, NEW n \in Nat, 1 <= m, m <= n + 1, n <= Len(bs)
  PROVE  /\ Sorted(SubSeq(bs, m, n))
         /\ Elements(SubSeq(bs, m, n)) = {bs[i] : i \in m .. n}
         /\ Len(SubSeq(bs, m, n)) = n + 1 - m
         /\ \A i \in 1 .. (n + 1 - m) : SubSeq(bs, m, n)[i] = bs[i + m - 1]
<1> DEFINE cs == SubSeq(bs, m, n)
<1>1. bs \in Seq(StreamRange) /\ Len(bs) \in Nat
  BY SortedBlocks
<1>2. /\ cs \in Seq(StreamRange) /\ Len(cs) = n + 1 - m
      /\ \A i \in 1 .. (n + 1 - m) : i + m - 1 \in 1 .. Len(bs) /\ cs[i] = bs[i + m - 1]
  BY <1>1
<1> HIDE DEF cs
<1>3. \A i \in 1 .. Len(cs) : cs[i].start < cs[i].end
  BY <1>2, SortedBlocks DEF IsBlock
<1>4. ASSUME NEW i \in 1 .. Len(cs), NEW j \in 1 .. Len(cs), i < j
      PROVE  cs[i].end <= cs[j].start
  <2>1. i + m - 1 < j + m - 1
    BY <1>4
  <2> QED
    BY <1>2, <2>1, SortedBlocks
<1>5. Elements(cs) = {bs[i] : i \in m .. n}
  <2>1. ASSUME NEW i \in 1 .. Len(cs) PROVE i + m - 1 \in m .. n /\ cs[i] = bs[i + m - 1]
    BY <1>2
  <2>2. ASSUME NEW i \in m .. n PROVE i - m + 1 \in 1 .. Len(cs) /\ cs[i - m + 1] = bs[i]
    <3>1. i - m + 1 \in 1 .. (n + 1 - m) /\ (i - m + 1) + m - 1 = i
      OBVIOUS
    <3> QED
      BY <1>2, <3>1
  <2>3. ASSUME NEW c \in Elements(cs) PROVE c \in {bs[i] : i \in m .. n}
    BY <2>1 DEF Elements
  <2>4. ASSUME NEW c \in {bs[i] : i \in m .. n} PROVE c \in Elements(cs)
    <3>1. PICK i \in m .. n : c = bs[i]
      OBVIOUS
    <3> QED
      BY <2>2, <3>1, Zenon DEF Elements
  <2> QED
    BY <2>3, <2>4
<1> QED
  BY <1>2, <1>3, <1>4, <1>5 DEF Sorted, cs

(* A block put behind the first i of a list, and the one at i taken out.   *)
LEMMA SortedInsert ==
  ASSUME NEW bs, Sorted(bs), NEW i \in 0 .. Len(bs), NEW b, IsBlock(b),
         \A j \in 1 .. i : bs[j].end <= b.start,
         \A j \in (i + 1) .. Len(bs) : b.end <= bs[j].start
  PROVE  /\ Sorted(L!InsertAt(bs, i + 1, b))
         /\ Elements(L!InsertAt(bs, i + 1, b)) = Elements(bs) \cup {b}
         /\ Len(L!InsertAt(bs, i + 1, b)) = Len(bs) + 1
         /\ \A j \in 1 .. i : L!InsertAt(bs, i + 1, b)[j] = bs[j]
         /\ L!InsertAt(bs, i + 1, b)[i + 1] = b
<1> DEFINE s == SubSeq(bs, 1, i)
           t == SubSeq(bs, i + 1, Len(bs))
           cs == L!InsertAt(bs, i + 1, b)
<1>1. bs \in Seq(StreamRange) /\ Len(bs) \in Nat /\ i \in Nat /\ i <= Len(bs)
  <2>1. Len(bs) \in Nat
    BY SortedBlocks
  <2> QED
    BY <2>1, SortedBlocks
<1>2. /\ Sorted(s) /\ Elements(s) = {bs[k] : k \in 1 .. i} /\ Len(s) = i
      /\ \A k \in 1 .. i : s[k] = bs[k]
  <2>1. 1 \in Nat /\ 1 <= 1 /\ 1 <= i + 1
    BY <1>1
  <2>2. /\ Sorted(s) /\ Elements(s) = {bs[k] : k \in 1 .. i} /\ Len(s) = i + 1 - 1
        /\ \A k \in 1 .. (i + 1 - 1) : s[k] = bs[k + 1 - 1]
    BY <1>1, <2>1, SortedPart
  <2>3. i + 1 - 1 = i /\ \A k \in 1 .. i : k + 1 - 1 = k
    BY <1>1
  <2> QED
    BY <2>2, <2>3
<1>3. Sorted(t) /\ Elements(t) = {bs[k] : k \in (i + 1) .. Len(bs)} /\ Len(t) = Len(bs) - i
  <2>1. i + 1 \in Nat /\ 1 <= i + 1 /\ i + 1 <= Len(bs) + 1 /\ Len(bs) <= Len(bs)
    BY <1>1
  <2>2. Sorted(t) /\ Elements(t) = {bs[k] : k \in (i + 1) .. Len(bs)} /\ Len(t) = Len(bs) + 1 - (i + 1)
    BY <1>1, <2>1, SortedPart
  <2> QED
    BY <1>1, <2>2
<1>4. cs = Append(s, b) \o t
  <2>1. s \in Seq(StreamRange) /\ b \in StreamRange /\ (i + 1) - 1 = i
    BY <1>1, <1>2, SortedBlocks DEF IsBlock
  <2> HIDE DEF s, t
  <2>2. cs = (s \o <<b>>) \o t
    BY <2>1, Zenon DEF s, t, L!InsertAt
  <2>3. s \o <<b>> = Append(s, b)
    BY <2>1
  <2> QED
    BY <2>2, <2>3
<1> HIDE DEF s, t, cs
<1>5. Before(Elements(s), {b})
  BY <1>2 DEF Before
<1>6. Sorted(Append(s, b)) /\ Elements(Append(s, b)) = Elements(s) \cup {b}
  BY <1>2, <1>5, SortedAppend
<1>7. Before(Elements(Append(s, b)), Elements(t))
  <2>1. ASSUME NEW c \in Elements(t) PROVE b.end <= c.start
    BY <1>3
  <2>2. ASSUME NEW a \in Elements(s), NEW c \in Elements(t) PROVE a.end <= c.start
    <3>1. PICK j \in 1 .. i : a = bs[j]
      BY <1>2
    <3>2. PICK k \in (i + 1) .. Len(bs) : c = bs[k]
      BY <1>3
    <3>3. j \in 1 .. Len(bs) /\ k \in 1 .. Len(bs) /\ j < k
      BY <1>1
    <3> QED
      BY <3>1, <3>2, <3>3, SortedBlocks
  <2> QED
    BY <1>6, <2>1, <2>2 DEF Before
<1>8. Sorted(cs) /\ Elements(cs) = Elements(Append(s, b)) \cup Elements(t)
  BY <1>3, <1>4, <1>6, <1>7, SortedConcat
<1>9. Elements(bs) = Elements(s) \cup Elements(t)
  <2>1. 1 .. Len(bs) = (1 .. i) \cup ((i + 1) .. Len(bs))
    BY <1>1
  <2> QED
    BY <1>2, <1>3, <2>1 DEF Elements
<1>10. /\ Append(s, b) \in Seq(StreamRange) /\ Len(Append(s, b)) = i + 1
       /\ \A k \in 1 .. i : Append(s, b)[k] = bs[k]
       /\ Append(s, b)[i + 1] = b
  <2>1. s \in Seq(StreamRange) /\ b \in StreamRange
    BY <1>2, SortedBlocks DEF IsBlock
  <2>2. /\ Append(s, b) \in Seq(StreamRange) /\ Len(Append(s, b)) = Len(s) + 1
        /\ \A k \in 1 .. Len(s) : Append(s, b)[k] = s[k]
        /\ Append(s, b)[Len(s) + 1] = b
    BY <2>1
  <2> QED
    BY <1>2, <2>2
<1>11. /\ Len(cs) = Len(bs) + 1
       /\ \A k \in 1 .. (i + 1) : cs[k] = Append(s, b)[k]
  <2>1. t \in Seq(StreamRange)
    BY <1>3, SortedBlocks
  <2>2. /\ Len(cs) = Len(Append(s, b)) + Len(t)
        /\ \A k \in 1 .. Len(Append(s, b)) : cs[k] = Append(s, b)[k]
    <3> DEFINE u == Append(s, b)
    <3>1. u \in Seq(StreamRange)
      BY <1>10
    <3> HIDE DEF u
    <3>2. /\ Len(u \o t) = Len(u) + Len(t)
          /\ \A k \in 1 .. Len(u) : (u \o t)[k] = u[k]
      BY <2>1, <3>1
    <3> QED
      BY <1>4, <3>2 DEF u
  <2> QED
    BY <1>1, <1>3, <1>10, <2>2
<1>12. (\A k \in 1 .. i : cs[k] = bs[k]) /\ cs[i + 1] = b
  <2>1. i + 1 \in 1 .. (i + 1) /\ \A k \in 1 .. i : k \in 1 .. (i + 1)
    BY <1>1
  <2> QED
    BY <1>10, <1>11, <2>1
<1>13. Elements(cs) = Elements(bs) \cup {b}
  BY <1>6, <1>8, <1>9
<1> QED
  BY <1>8, <1>11, <1>12, <1>13 DEF cs

LEMMA SortedRemove ==
  ASSUME NEW bs, Sorted(bs), NEW i \in 1 .. Len(bs)
  PROVE  /\ Sorted(L!RemoveAt(bs, i))
         /\ Elements(L!RemoveAt(bs, i)) = Elements(bs) \ {bs[i]}
         /\ Len(L!RemoveAt(bs, i)) = Len(bs) - 1
         /\ \A j \in 1 .. (i - 1) : L!RemoveAt(bs, i)[j] = bs[j]
         /\ \A j \in i .. (Len(bs) - 1) : L!RemoveAt(bs, i)[j] = bs[j + 1]
<1> DEFINE s == SubSeq(bs, 1, i - 1)
           t == SubSeq(bs, i + 1, Len(bs))
           cs == L!RemoveAt(bs, i)
<1>1. bs \in Seq(StreamRange) /\ Len(bs) \in Nat /\ i \in Nat /\ 1 <= i /\ i <= Len(bs)
  <2>1. Len(bs) \in Nat
    BY SortedBlocks
  <2> QED
    BY <2>1, SortedBlocks
<1>2. /\ Sorted(s) /\ Elements(s) = {bs[k] : k \in 1 .. (i - 1)} /\ Len(s) = i - 1
      /\ \A k \in 1 .. (i - 1) : s[k] = bs[k]
  <2>1. 1 \in Nat /\ i - 1 \in Nat /\ 1 <= 1 /\ 1 <= i - 1 + 1 /\ i - 1 <= Len(bs)
    BY <1>1
  <2>2. /\ Sorted(s) /\ Elements(s) = {bs[k] : k \in 1 .. (i - 1)} /\ Len(s) = (i - 1) + 1 - 1
        /\ \A k \in 1 .. ((i - 1) + 1 - 1) : s[k] = bs[k + 1 - 1]
    BY <1>1, <2>1, SortedPart
  <2>3. (i - 1) + 1 - 1 = i - 1 /\ \A k \in 1 .. (i - 1) : k + 1 - 1 = k
    BY <1>1
  <2> QED
    BY <2>2, <2>3
<1>3. /\ Sorted(t) /\ Elements(t) = {bs[k] : k \in (i + 1) .. Len(bs)} /\ Len(t) = Len(bs) - i
      /\ \A k \in 1 .. (Len(bs) - i) : t[k] = bs[k + i]
  <2>1. i + 1 \in Nat /\ 1 <= i + 1 /\ i + 1 <= Len(bs) + 1 /\ Len(bs) <= Len(bs)
    BY <1>1
  <2>2. /\ Sorted(t) /\ Elements(t) = {bs[k] : k \in (i + 1) .. Len(bs)} /\ Len(t) = Len(bs) + 1 - (i + 1)
        /\ \A k \in 1 .. (Len(bs) + 1 - (i + 1)) : t[k] = bs[k + (i + 1) - 1]
    BY <1>1, <2>1, SortedPart
  <2>3. Len(bs) + 1 - (i + 1) = Len(bs) - i /\ \A k \in 1 .. (Len(bs) - i) : k + (i + 1) - 1 = k + i
    BY <1>1
  <2> QED
    BY <2>2, <2>3
<1>4. cs = s \o t
  BY Zenon DEF L!RemoveAt
<1> HIDE DEF s, t, cs
<1>5. Before(Elements(s), Elements(t))
  <2>1. ASSUME NEW a \in Elements(s), NEW c \in Elements(t) PROVE a.end <= c.start
    <3>1. PICK j \in 1 .. (i - 1) : a = bs[j]
      BY <1>2
    <3>2. PICK k \in (i + 1) .. Len(bs) : c = bs[k]
      BY <1>3
    <3>3. j \in 1 .. Len(bs) /\ k \in 1 .. Len(bs) /\ j < k
      BY <1>1
    <3> QED
      BY <3>1, <3>2, <3>3, SortedBlocks
  <2> QED
    BY <2>1 DEF Before
<1>6. Sorted(cs) /\ Elements(cs) = Elements(s) \cup Elements(t)
  BY <1>2, <1>3, <1>4, <1>5, SortedConcat
<1>7. /\ Len(cs) = Len(s) + Len(t)
      /\ \A k \in 1 .. Len(s) : cs[k] = s[k]
      /\ \A k \in 1 .. Len(t) : cs[Len(s) + k] = t[k]
  <2>1. s \in Seq(StreamRange) /\ t \in Seq(StreamRange)
    BY <1>2, <1>3, SortedBlocks
  <2> QED
    BY <1>4, <2>1
<1>8. Len(cs) = Len(bs) - 1 /\ \A k \in 1 .. (i - 1) : cs[k] = bs[k]
  BY <1>1, <1>2, <1>3, <1>7
<1>9. ASSUME NEW j \in i .. (Len(bs) - 1) PROVE cs[j] = bs[j + 1]
  <2>1. j - (i - 1) \in 1 .. (Len(bs) - i) /\ (i - 1) + (j - (i - 1)) = j /\ j - (i - 1) + i = j + 1
    BY <1>1
  <2>2. cs[j] = t[j - (i - 1)]
    BY <1>2, <1>3, <1>7, <2>1
  <2> QED
    BY <1>3, <2>1, <2>2
<1>10. Elements(cs) = Elements(bs) \ {bs[i]}
  <2>1. ASSUME NEW k \in 1 .. Len(bs), k # i PROVE bs[k] # bs[i]
    <3>1. IsBlock(bs[k]) /\ IsBlock(bs[i]) /\ (k < i \/ i < k)
      BY <1>1, <2>1, SortedBlocks
    <3>2. bs[k].end <= bs[i].start \/ bs[i].end <= bs[k].start
      BY <1>1, <3>1, SortedBlocks
    <3> QED
      BY <3>1, <3>2, BlockFields
  <2>2. 1 .. Len(bs) = (1 .. (i - 1)) \cup {i} \cup ((i + 1) .. Len(bs))
    BY <1>1
  <2>3. ASSUME NEW c \in Elements(bs), c # bs[i] PROVE c \in Elements(cs)
    <3>1. PICK k \in 1 .. Len(bs) : c = bs[k]
      BY DEF Elements
    <3>2. k \in 1 .. (i - 1) \/ k \in (i + 1) .. Len(bs)
      BY <2>2, <2>3, <3>1
    <3> QED
      BY <1>2, <1>3, <1>6, <3>1, <3>2
  <2>4. ASSUME NEW c \in Elements(cs) PROVE c \in Elements(bs) /\ c # bs[i]
    <3>1. PICK k \in (1 .. (i - 1)) \cup ((i + 1) .. Len(bs)) : c = bs[k]
      BY <1>2, <1>3, <1>6, <2>4
    <3>2. k \in 1 .. Len(bs) /\ k # i
      BY <1>1, <3>1
    <3> QED
      BY <2>1, <3>1, <3>2, SortedBlocks
  <2> QED
    BY <2>3, <2>4
<1> QED
  BY <1>6, <1>8, <1>9, <1>10 DEF cs

-----------------------------------------------------------------------------
(* The inductive invariant.                                                *)

Context ==
    [ackStreamPos : Nat, streamPos : Nat, flightBlocks : Seq(StreamRange),
     lostBlocks : Seq(StreamRange), flight : Int, lost : Int,
     latest : Nat, prevDup : Nat, dup : Nat]

ListsSorted ==
    /\ ctx \in Context
    /\ Sorted(ctx.flightBlocks) /\ Sorted(ctx.lostBlocks)
    /\ Sorted(flightRest) /\ Sorted(lostRest) /\ Sorted(lateRest)

(* Between two operations the context is the one of SendQueue.tla.         *)
CountersShown ==
    /\ flight = ctx.flight
    /\ lost = ctx.lost

DupAckShown ==
    /\ latestAckStreamPos = ctx.latest
    /\ prevDupAckStreamPos = ctx.prevDup
    /\ dupAckTimes = ctx.dup

ContextShown ==
    /\ ackStreamPos = ctx.ackStreamPos
    /\ flightBlocks = Elements(ctx.flightBlocks)
    /\ lostBlocks = Elements(ctx.lostBlocks)
    /\ CountersShown
    /\ DupAckShown

(* No operation holds the lock.                                            *)
IdleInv ==
    /\ ContextShown
    /\ lateRest = <<>>
    /\ total = 0

(* The buffers lie behind each other up to bufferStreamPos; those behind   *)
(* curr are untouched, and curr is the first with bytes left.              *)
Buffer == [start : Nat, offset : Nat, end : Nat]

RangeOf(b) == [start |-> b.start, end |-> b.end]

Chained(bs, last) ==
    /\ bs \in Seq(Buffer)
    /\ \A i \in 1 .. Len(bs) : bs[i].start < bs[i].end
    /\ \A i, j \in 1 .. Len(bs) : i < j => bs[i].end <= bs[j].start
    /\ \A i \in 1 .. (Len(bs) - 1) : bs[i].end = bs[i + 1].start
    /\ bs # <<>> => bs[Len(bs)].end = last

CurrIs(bs, c) ==
    /\ c \in 0 .. Len(bs)
    /\ c # 0 => /\ bs[c].start <= bs[c].offset /\ bs[c].offset < bs[c].end
                /\ \A i \in (c + 1) .. Len(bs) : bs[i].offset = bs[i].start

BuffersShown ==
    /\ Chained(bufferList, bufferStreamPos)
    /\ CurrIs(bufferList, curr)
    /\ offsetStreamPos = IF curr = 0 THEN bufferStreamPos ELSE bufferList[curr].offset
    /\ buffers = {RangeOf(bufferList[i]) : i \in 1 .. Len(bufferList)}

(* The walk of SendQueueConfirmRange has handled every block before those  *)
(* that are left on the two old lists, by the state SendQueue.tla gives    *)
(* each of them.                                                           *)
Verdict == [b \in Blocks |-> WalkState(b, CountDupAck(ackArg), MaxPos(ackStreamPos, ackArg),
                                       Elements(sackArg))]

Rest == Elements(flightRest) \cup Elements(lostRest)

Judged(V, S, v) == {b \in S : V[b] = v}

WalkLists(V, fb, lb, D, F, T) ==
    /\ F = Judged(V, fb \cap D, "PREV")
    /\ T = Judged(V, lb \cap D, "PREV") \cup Judged(V, (fb \cup lb) \cap D, "LOST")

WalkCounts(V, fb, lb, D, f0, l0, f1, l1) ==
    /\ f1 = f0 - TotalLength(Judged(V, fb \cap D, "ACK") \cup Judged(V, fb \cap D, "LOST"))
    /\ l1 = l0 - TotalLength(Judged(V, lb \cap D, "ACK"))
               + TotalLength(Judged(V, fb \cap D, "LOST"))

DupHit(count, D) == count[2] = 4 /\ \E b \in D : b.start = count[1]

WalkDup(count, D, prev, c) ==
    /\ c.latest = IF DupHit(count, D) THEN 0 ELSE count[1]
    /\ c.dup = IF DupHit(count, D) THEN 0 ELSE count[2]
    /\ c.prevDup = IF DupHit(count, D) THEN count[1] ELSE prev

WalkInv ==
    /\ ackArg \in InitStreamPos .. streamPos
    /\ sackArg \in SackLists(ackArg)
    /\ ctx.ackStreamPos = MaxPos(ackStreamPos, ackArg)
    /\ Elements(flightRest) \subseteq flightBlocks
    /\ Elements(lostRest) \subseteq lostBlocks
    /\ Before(Blocks \ Rest, Rest)
    /\ \A b \in Blocks \ Rest : Verdict[b] # "OUT_OF_RANGE"
    /\ WalkLists(Verdict, flightBlocks, lostBlocks, Blocks \ Rest,
                 Elements(ctx.flightBlocks), Elements(ctx.lostBlocks))
    /\ WalkCounts(Verdict, flightBlocks, lostBlocks, Blocks \ Rest,
                  flight, lost, ctx.flight, ctx.lost)
    /\ WalkDup(CountDupAck(ackArg), Blocks \ Rest, prevDupAckStreamPos, ctx)

(* SendQueueMarkRangeTimeout has put the late blocks aside, in order, and  *)
(* then splices them into the lost list, in order.                         *)
Late == flightBlocks \ Elements(ctx.flightBlocks)

LateInv ==
    /\ ackStreamPos = ctx.ackStreamPos
    /\ CountersShown
    /\ DupAckShown
    /\ Elements(ctx.flightBlocks) \subseteq flightBlocks
    /\ total = TotalLength(Late)

MarkInv ==
    /\ LateInv
    /\ Elements(ctx.lostBlocks) = lostBlocks
    /\ Elements(lateRest) = Late
    /\ place \in 1 .. (Len(ctx.flightBlocks) + 1)
    /\ \A j \in place .. Len(ctx.flightBlocks) : \A a \in Elements(lateRest) :
          a.end <= ctx.flightBlocks[j].start

SpliceInv ==
    /\ LateInv
    /\ Elements(lateRest) \subseteq Late
    /\ Elements(ctx.lostBlocks) = lostBlocks \cup (Late \ Elements(lateRest))
    /\ place \in 0 .. Len(ctx.lostBlocks)
    /\ \A j \in 1 .. place : \A a \in Elements(lateRest) : ctx.lostBlocks[j].end <= a.start

StepInv ==
    /\ step \in {"idle", "walk", "mark", "splice"}
    /\ step = "idle" => IdleInv
    /\ step = "walk" => WalkInv
    /\ step = "mark" => MarkInv
    /\ step = "splice" => SpliceInv

ListInv ==
    /\ IndInv
    /\ streamPos = ctx.streamPos
    /\ ListsSorted
    /\ BuffersShown
    /\ StepInv

-----------------------------------------------------------------------------
(* The SACK as a list and as a set.                                        *)

LEMMA SackOfList ==
  ASSUME NEW ack \in Nat, NEW s \in SackLists(ack), streamPos \in Nat
  PROVE  /\ Sorted(s)
         /\ Elements(s) \in Sacks(ack)
         /\ Bytes(Elements(s)) = UNION {s[i].start .. (s[i].end - 1) : i \in DOMAIN s}
<1> DEFINE R == {r \in Ranges(streamPos) : r.start > ack}
<1>1. PICK n \in 0 .. MaxSackRanges : s \in [1 .. n -> R]
  BY DEF SackLists
<1>2. \A i, j \in DOMAIN s : i < j => s[i].end < s[j].start
  BY DEF SackLists
<1>3. n \in Nat /\ DOMAIN s = 1 .. n /\ \A i \in 1 .. n : s[i] \in R
  BY <1>1
<1>4. \A r \in R : r \in StreamRange /\ r.start < r.end /\ r.start \in Nat /\ r.end \in Nat
  BY SendQueueAssumption DEF Ranges, StreamRange
<1>5. s \in Seq(StreamRange) /\ Len(s) = n
  <2>1. s \in [1 .. n -> StreamRange]
    BY <1>1, <1>4
  <2> QED
    BY <1>3, <2>1
<1> HIDE DEF R
<1>6. Sorted(s)
  <2>1. \A i \in 1 .. Len(s) : s[i].start < s[i].end
    BY <1>3, <1>4, <1>5
  <2>2. ASSUME NEW i \in 1 .. Len(s), NEW j \in 1 .. Len(s), i < j PROVE s[i].end <= s[j].start
    <3>1. s[i].end < s[j].start /\ s[i] \in R /\ s[j] \in R
      BY <1>2, <1>3, <1>5, <2>2
    <3> QED
      BY <1>4, <3>1
  <2> QED
    BY <1>5, <2>1, <2>2 DEF Sorted
<1>7. Elements(s) \subseteq R
  BY <1>3, <1>5 DEF Elements
<1>8. Cardinality(Elements(s)) <= MaxSackRanges
  <2> DEFINE f == [i \in 1 .. n |-> s[i]]
  <2>1. IsFiniteSet(1 .. n) /\ Cardinality(1 .. n) = n
    <3>1. IsFiniteSet(1 .. n) /\ Cardinality(1 .. n) = IF 1 > n THEN 0 ELSE n - 1 + 1
      BY <1>3, FS_Interval
    <3> QED
      BY <1>3, <3>1
  <2>2. f \in Surjection(1 .. n, Elements(s))
    BY <1>5 DEF Surjection, Elements
  <2>3. IsFiniteSet(Elements(s)) /\ Cardinality(Elements(s)) <= n
    BY <2>1, <2>2, FS_Surjection
  <2>4. Cardinality(Elements(s)) \in Nat
    BY <2>3, FS_CardinalityType
  <2>5. n <= MaxSackRanges /\ MaxSackRanges \in Nat
    BY <1>1, SendQueueAssumption
  <2> QED
    BY <1>3, <2>3, <2>4, <2>5
<1>9. ASSUME NEW q \in Elements(s), NEW r \in Elements(s)
      PROVE  q = r \/ q.end < r.start \/ r.end < q.start
  <2>1. PICK i \in 1 .. n : q = s[i]
    BY <1>5 DEF Elements
  <2>2. PICK j \in 1 .. n : r = s[j]
    BY <1>5 DEF Elements
  <2>3. i < j \/ i = j \/ j < i
    BY <1>3
  <2> QED
    BY <1>2, <1>3, <2>1, <2>2, <2>3
<1>10. Bytes(Elements(s)) = UNION {s[i].start .. (s[i].end - 1) : i \in DOMAIN s}
  <2>1. ASSUME NEW x \in Bytes(Elements(s))
        PROVE  x \in UNION {s[i].start .. (s[i].end - 1) : i \in DOMAIN s}
    BY <1>3, <1>5 DEF Bytes, BytesOf, Elements
  <2>2. ASSUME NEW x \in UNION {s[i].start .. (s[i].end - 1) : i \in DOMAIN s}
        PROVE  x \in Bytes(Elements(s))
    <3>1. PICK i \in 1 .. Len(s) : x \in s[i].start .. (s[i].end - 1)
      BY <1>3, <1>5
    <3>2. s[i] \in Elements(s)
      BY DEF Elements
    <3> QED
      BY <3>1, <3>2 DEF Bytes, BytesOf
  <2> QED
    BY <2>1, <2>2
<1> QED
  BY <1>6, <1>7, <1>8, <1>9, <1>10 DEF Sacks, R

(* The loop of CheckBlockStateByAck over the ranges finds what             *)
(* SendQueue.tla says of the set of ranges.                                *)
LEMMA StateByAck ==
  ASSUME NEW b, IsBlock(b), NEW ack \in Nat, NEW s, Sorted(s)
  PROVE  L!CheckBlockStateByAck(b, ack, s) = CheckBlockStateByAck(b, ack, Elements(s))
<1> DEFINE stops == {i \in DOMAIN s : \/ b.end <= s[i].start
                                      \/ b.start >= s[i].start /\ b.end <= s[i].end}
           at == CHOOSE i \in stops : \A j \in stops : i <= j
           In(r) == r.start <= b.start /\ b.end <= r.end
<1>1. b.start \in Nat /\ b.end \in Nat /\ b.start < b.end
  BY BlockFields
<1>2. s \in Seq(StreamRange) /\ Len(s) \in Nat /\ DOMAIN s = 1 .. Len(s)
  BY SortedBlocks
<1>3. \A i \in 1 .. Len(s) : s[i] \in Elements(s) /\ s[i].start \in Nat /\ s[i].end \in Nat /\ s[i].start < s[i].end
  BY SortedBlocks, BlockFields
<1>4. \A r \in Elements(s) : \E i \in 1 .. Len(s) : r = s[i]
  BY SortedBlocks
<1>5. CASE stops = {}
  <2>1. \A i \in 1 .. Len(s) : ~(b.end <= s[i].start) /\ ~In(s[i])
    BY <1>1, <1>2, <1>3, <1>5
  <2>2. ~(\E r \in Elements(s) : In(r)) /\ ~(\E r \in Elements(s) : b.end <= r.start)
    BY <1>4, <2>1
  <2>3. /\ L!CheckBlockStateByAck(b, ack, s)
             = CASE b.end <= ack -> "ACK"
                 [] b.end > ack /\ b.start < ack -> "LOST"
                 [] b.start >= ack /\ b.end > ack -> "OUT_OF_RANGE"
    <3> HIDE DEF stops
    <3>1. /\ L!CheckBlockStateByAck(b, ack, s)
             = CASE b.end <= ack -> "ACK"
                 [] b.end > ack /\ b.start < ack -> "LOST"
                 [] b.start >= ack /\ b.end > ack /\ stops = {} -> "OUT_OF_RANGE"
                 [] b.start >= ack /\ b.end > ack /\ stops # {} ->
                     IF b.end <= s[at].start THEN "PREV" ELSE "ACK"
      BY Zenon DEF L!CheckBlockStateByAck, stops, at
    <3> HIDE DEF at
    <3> QED
      BY <1>1, <1>5, <3>1
  <2> QED
    BY <1>1, <2>2, <2>3 DEF CheckBlockStateByAck
<1>6. CASE stops # {}
  <2>1. stops \in SUBSET Nat
    BY <1>2
  <2>2. at \in stops /\ \A j \in stops : at <= j
    <3>1. \E i \in stops : \A j \in stops : i <= j
      BY <1>6, <2>1, Least
    <3> QED
      BY <3>1
  <2>3. at \in 1 .. Len(s) /\ (b.end <= s[at].start \/ In(s[at]))
    BY <1>1, <1>2, <1>3, <2>2
  <2>4. L!CheckBlockStateByAck(b, ack, s)
             = CASE b.end <= ack -> "ACK"
                 [] b.end > ack /\ b.start < ack -> "LOST"
                 [] b.start >= ack /\ b.end > ack ->
                     IF b.end <= s[at].start THEN "PREV" ELSE "ACK"
    <3> HIDE DEF stops
    <3>1. /\ L!CheckBlockStateByAck(b, ack, s)
             = CASE b.end <= ack -> "ACK"
                 [] b.end > ack /\ b.start < ack -> "LOST"
                 [] b.start >= ack /\ b.end > ack /\ stops = {} -> "OUT_OF_RANGE"
                 [] b.start >= ack /\ b.end > ack /\ stops # {} ->
                     IF b.end <= s[at].start THEN "PREV" ELSE "ACK"
      BY Zenon DEF L!CheckBlockStateByAck, stops, at
    <3> HIDE DEF at
    <3> QED
      BY <1>1, <1>6, <3>1
  <2>5. CASE b.end <= s[at].start
    <3>1. ASSUME NEW r \in Elements(s), In(r) PROVE FALSE
      <4>1. PICK k \in 1 .. Len(s) : r = s[k]
        BY <1>4
      <4>2. k \in stops
        BY <1>1, <1>2, <1>3, <3>1, <4>1
      <4>3. at <= k
        BY <2>2, <4>2
      <4> HIDE DEF at, stops
      <4>4. at = k \/ at < k
        BY <2>3, <4>3
      <4>5. CASE at = k
        BY <1>1, <1>3, <2>3, <2>5, <3>1, <4>1, <4>5
      <4>6. CASE at < k
        <5>1. s[at].end <= s[k].start
          BY <2>3, <4>6, SortedBlocks
        <5> QED
          BY <1>1, <1>3, <2>3, <2>5, <3>1, <4>1, <5>1
      <4> QED
        BY <4>4, <4>5, <4>6
    <3>2. \E r \in Elements(s) : b.end <= r.start
      BY <1>3, <2>3, <2>5
    <3> HIDE DEF at, stops
    <3> QED
      BY <1>1, <2>4, <2>5, <3>1, <3>2 DEF CheckBlockStateByAck
  <2>6. CASE ~(b.end <= s[at].start)
    <3>1. \E r \in Elements(s) : In(r)
      BY <1>3, <2>3, <2>6
    <3> HIDE DEF at, stops
    <3> QED
      BY <1>1, <2>4, <2>6, <3>1 DEF CheckBlockStateByAck
  <2> QED
    BY <2>5, <2>6
<1> QED
  BY <1>5, <1>6

-----------------------------------------------------------------------------
(* The buffers.                                                            *)

BufferRanges(bs) == {RangeOf(bs[i]) : i \in 1 .. Len(bs)}

LEMMA BufferFields ==
  ASSUME NEW bs, NEW last, Chained(bs, last), NEW i \in 1 .. Len(bs)
  PROVE  /\ bs[i] \in Buffer
         /\ bs[i].start \in Nat /\ bs[i].offset \in Nat /\ bs[i].end \in Nat
         /\ bs[i].start < bs[i].end
         /\ RangeOf(bs[i]) \in BufferRanges(bs)
<1>1. bs[i] \in Buffer /\ bs[i].start < bs[i].end
  BY DEF Chained
<1>2. RangeOf(bs[i]) \in BufferRanges(bs)
  BY Zenon DEF BufferRanges
<1> QED
  BY <1>1, <1>2 DEF Buffer

LEMMA ChainEnds ==
  ASSUME NEW bs, NEW last \in Nat, Chained(bs, last)
  PROVE  /\ bs \in Seq(Buffer) /\ Len(bs) \in Nat
         /\ \A i \in 1 .. Len(bs) : bs[i].end <= last
<1>1. bs \in Seq(Buffer) /\ Len(bs) \in Nat
  BY DEF Chained
<1>2. ASSUME NEW i \in 1 .. Len(bs) PROVE bs[i].end <= last
  <2>1. bs # <<>> /\ Len(bs) \in 1 .. Len(bs) /\ (i = Len(bs) \/ i < Len(bs))
    BY <1>1, <1>2
  <2>2. bs[Len(bs)].end = last
    BY <2>1 DEF Chained
  <2>3. CASE i < Len(bs)
    <3>1. bs[i].end <= bs[Len(bs)].start
      BY <2>1, <2>3 DEF Chained
    <3>2. bs[i].end \in Nat /\ bs[Len(bs)].start \in Nat /\ bs[Len(bs)].start < bs[Len(bs)].end
      BY <2>1, BufferFields
    <3> QED
      BY <2>2, <3>1, <3>2
  <2> QED
    BY <2>1, <2>2, <2>3
<1> QED
  BY <1>1, <1>2

LEMMA RangesShown ==
  ASSUME NEW bs \in Seq(Buffer)
  PROVE  {[start |-> b.start, end |-> b.end] : b \in L!BlockSet(bs)} = BufferRanges(bs)
<1>1. DOMAIN bs = 1 .. Len(bs)
  OBVIOUS
<1>2. L!BlockSet(bs) = {bs[i] : i \in 1 .. Len(bs)}
  BY <1>1, Zenon DEF L!BlockSet
<1>3. \A b : RangeOf(b) = [start |-> b.start, end |-> b.end]
  BY DEF RangeOf
<1> QED
  BY <1>2, <1>3, Zenon DEF BufferRanges

NewBuffer(last, len) == [start |-> last, offset |-> last, end |-> last + len]

BufferAdded(bs, last, len) == Append(bs, NewBuffer(last, len))

LEMMA ChainAppend ==
  ASSUME NEW bs, NEW last \in Nat, Chained(bs, last), NEW len \in Nat \ {0}
  PROVE  /\ Chained(BufferAdded(bs, last, len), last + len)
         /\ Len(BufferAdded(bs, last, len)) = Len(bs) + 1
         /\ BufferAdded(bs, last, len)[Len(bs) + 1] = NewBuffer(last, len)
         /\ \A i \in 1 .. Len(bs) : BufferAdded(bs, last, len)[i] = bs[i]
         /\ BufferRanges(BufferAdded(bs, last, len))
                = BufferRanges(bs) \cup {[start |-> last, end |-> last + len]}
<1> DEFINE b  == NewBuffer(last, len)
           cs == BufferAdded(bs, last, len)
<1>1. bs \in Seq(Buffer) /\ Len(bs) \in Nat /\ \A i \in 1 .. Len(bs) : bs[i].end <= last
  BY ChainEnds
<1>2. b \in Buffer /\ b.start = last /\ b.end = last + len /\ b.start < b.end
  BY DEF Buffer, NewBuffer
<1>2a. RangeOf(b) = [start |-> last, end |-> last + len]
  BY DEF RangeOf, NewBuffer
<1> HIDE DEF b
<1>3. /\ cs \in Seq(Buffer) /\ Len(cs) = Len(bs) + 1
      /\ cs[Len(bs) + 1] = b
      /\ \A i \in 1 .. Len(bs) : cs[i] = bs[i]
  BY <1>1, <1>2 DEF BufferAdded, b
<1>4. \A i \in 1 .. (Len(bs) + 1) : i \in 1 .. Len(bs) \/ i = Len(bs) + 1
  BY <1>1
<1> HIDE DEF cs
<1>5. \A i \in 1 .. Len(cs) : cs[i].start < cs[i].end
  BY <1>2, <1>3, <1>4 DEF Chained
<1>6. ASSUME NEW i \in 1 .. Len(cs), NEW j \in 1 .. Len(cs), i < j
      PROVE  cs[i].end <= cs[j].start
  <2>1. i \in 1 .. Len(bs) /\ (j \in 1 .. Len(bs) \/ j = Len(bs) + 1)
    BY <1>1, <1>3, <1>6
  <2>2. CASE j \in 1 .. Len(bs)
    BY <1>3, <1>6, <2>1, <2>2 DEF Chained
  <2>3. CASE j = Len(bs) + 1
    BY <1>1, <1>2, <1>3, <2>1, <2>3
  <2> QED
    BY <2>1, <2>2, <2>3
<1>7. ASSUME NEW i \in 1 .. (Len(cs) - 1) PROVE cs[i].end = cs[i + 1].start
  <2>1. i \in 1 .. Len(bs) /\ (i = Len(bs) \/ i \in 1 .. (Len(bs) - 1))
    BY <1>1, <1>3
  <2>2. CASE i = Len(bs)
    <3>1. bs # <<>>
      BY <1>1, <2>1
    <3> QED
      BY <1>2, <1>3, <2>1, <2>2, <3>1 DEF Chained
  <2>3. CASE i \in 1 .. (Len(bs) - 1)
    <3>1. i + 1 \in 1 .. Len(bs) /\ bs[i].end = bs[i + 1].start
      BY <1>1, <2>3 DEF Chained
    <3> QED
      BY <1>3, <2>1, <3>1
  <2> QED
    BY <2>1, <2>2, <2>3
<1>8. Chained(cs, last + len)
  BY <1>2, <1>3, <1>5, <1>6, <1>7 DEF Chained
<1>9. BufferRanges(cs) = BufferRanges(bs) \cup {RangeOf(b)}
  <2>1. ASSUME NEW r \in BufferRanges(cs) PROVE r \in BufferRanges(bs) \cup {RangeOf(b)}
    <3>1. PICK i \in 1 .. Len(cs) : r = RangeOf(cs[i])
      BY DEF BufferRanges
    <3>2. CASE i \in 1 .. Len(bs)
      BY <1>3, <3>1, <3>2, Zenon DEF BufferRanges
    <3>3. CASE i = Len(bs) + 1
      BY <1>3, <3>1, <3>3, Zenon
    <3> QED
      BY <1>3, <1>4, <3>2, <3>3
  <2>2. ASSUME NEW r \in BufferRanges(bs) PROVE r \in BufferRanges(cs)
    <3>1. PICK i \in 1 .. Len(bs) : r = RangeOf(bs[i])
      BY DEF BufferRanges
    <3>2. i \in 1 .. Len(cs) /\ cs[i] = bs[i]
      BY <1>1, <1>3
    <3> QED
      BY <3>1, <3>2, Zenon DEF BufferRanges
  <2>3. RangeOf(b) \in BufferRanges(cs)
    <3>1. Len(bs) + 1 \in 1 .. Len(cs) /\ cs[Len(bs) + 1] = b
      BY <1>1, <1>3
    <3> QED
      BY <3>1, Zenon DEF BufferRanges
  <2> QED
    BY <2>1, <2>2, <2>3
<1> QED
  BY <1>2a, <1>3, <1>8, <1>9 DEF cs, b

(* A buffer's offset moves.                                                *)
OffsetMoved(bs, c, x) == [bs EXCEPT ![c].offset = x]

LEMMA ChainOffset ==
  ASSUME NEW bs, NEW last \in Nat, Chained(bs, last), NEW c \in 1 .. Len(bs), NEW x \in Nat
  PROVE  /\ Chained(OffsetMoved(bs, c, x), last)
         /\ Len(OffsetMoved(bs, c, x)) = Len(bs)
         /\ OffsetMoved(bs, c, x)[c].start = bs[c].start
         /\ OffsetMoved(bs, c, x)[c].end = bs[c].end
         /\ OffsetMoved(bs, c, x)[c].offset = x
         /\ \A i \in 1 .. Len(bs) : i # c => OffsetMoved(bs, c, x)[i] = bs[i]
         /\ BufferRanges(OffsetMoved(bs, c, x)) = BufferRanges(bs)
<1> DEFINE w == [bs[c] EXCEPT !.offset = x]
           cs == OffsetMoved(bs, c, x)
<1>1. bs \in Seq(Buffer) /\ Len(bs) \in Nat
  BY ChainEnds
<1>2. bs[c] \in Buffer
  BY BufferFields
<1>3. w \in Buffer /\ w.start = bs[c].start /\ w.end = bs[c].end /\ w.offset = x
  BY <1>2 DEF Buffer
<1>4. cs = [bs EXCEPT ![c] = w]
  BY <1>1 DEF OffsetMoved
<1> HIDE DEF w, cs
<1>5. /\ cs \in Seq(Buffer) /\ Len(cs) = Len(bs) /\ cs[c] = w
      /\ \A i \in 1 .. Len(bs) : i # c => cs[i] = bs[i]
  BY <1>1, <1>3, <1>4
<1>6. \A i \in 1 .. Len(bs) : cs[i].start = bs[i].start /\ cs[i].end = bs[i].end
  BY <1>3, <1>5
<1>7. Chained(cs, last)
  <2>1. \A i \in 1 .. (Len(bs) - 1) : i \in 1 .. Len(bs) /\ i + 1 \in 1 .. Len(bs)
    BY <1>1
  <2>2. cs # <<>> => bs # <<>> /\ Len(bs) \in 1 .. Len(bs)
    BY <1>1, <1>5
  <2> QED
    BY <1>5, <1>6, <2>1, <2>2 DEF Chained
<1>8. \A i \in 1 .. Len(bs) : RangeOf(cs[i]) = RangeOf(bs[i])
  BY <1>6 DEF RangeOf
<1>9. BufferRanges(cs) = BufferRanges(bs)
  BY <1>5, <1>8 DEF BufferRanges
<1> QED
  BY <1>3, <1>5, <1>7, <1>9 DEF cs

(* The first n buffers go.                                                 *)
BuffersPopped(bs, n) == SubSeq(bs, n + 1, Len(bs))

RangesBehind(bs, n) == {RangeOf(bs[i]) : i \in (n + 1) .. Len(bs)}

LEMMA ChainPop ==
  ASSUME NEW bs, NEW last \in Nat, Chained(bs, last), NEW n \in 1 .. Len(bs)
  PROVE  /\ Chained(BuffersPopped(bs, n), last)
         /\ Len(BuffersPopped(bs, n)) = Len(bs) - n
         /\ \A i \in 1 .. (Len(bs) - n) : BuffersPopped(bs, n)[i] = bs[i + n]
         /\ BufferRanges(BuffersPopped(bs, n)) = RangesBehind(bs, n)
<1> DEFINE cs == BuffersPopped(bs, n)
<1>1. bs \in Seq(Buffer) /\ Len(bs) \in Nat /\ n \in Nat /\ n <= Len(bs)
  <2>1. bs \in Seq(Buffer) /\ Len(bs) \in Nat
    BY ChainEnds
  <2> QED
    BY <2>1
<1>2. /\ cs \in Seq(Buffer) /\ Len(cs) = Len(bs) - n
      /\ \A i \in 1 .. (Len(bs) - n) : i + n \in 1 .. Len(bs) /\ cs[i] = bs[i + n]
  BY <1>1 DEF BuffersPopped
<1> HIDE DEF cs
<1>3. \A i \in 1 .. Len(cs) : cs[i].start < cs[i].end
  BY <1>2 DEF Chained
<1>4. ASSUME NEW i \in 1 .. Len(cs), NEW j \in 1 .. Len(cs), i < j
      PROVE  cs[i].end <= cs[j].start
  <2>1. i + n \in 1 .. Len(bs) /\ j + n \in 1 .. Len(bs) /\ i + n < j + n /\ cs[i] = bs[i + n] /\ cs[j] = bs[j + n]
    BY <1>1, <1>2, <1>4
  <2> QED
    BY <2>1 DEF Chained
<1>5. ASSUME NEW i \in 1 .. (Len(cs) - 1) PROVE cs[i].end = cs[i + 1].start
  <2>1. /\ i \in 1 .. (Len(bs) - n) /\ i + 1 \in 1 .. (Len(bs) - n)
        /\ i + n \in 1 .. (Len(bs) - 1) /\ (i + 1) + n = (i + n) + 1
    BY <1>1, <1>2
  <2>2. cs[i] = bs[i + n] /\ cs[i + 1] = bs[(i + n) + 1]
    BY <1>2, <2>1
  <2> QED
    BY <2>1, <2>2 DEF Chained
<1>6. ASSUME cs # <<>> PROVE cs[Len(cs)].end = last
  <2>1. Len(cs) \in 1 .. (Len(bs) - n) /\ Len(cs) + n = Len(bs) /\ bs # <<>>
    BY <1>1, <1>2, <1>6
  <2>2. cs[Len(cs)] = bs[Len(bs)]
    BY <1>2, <2>1
  <2> QED
    BY <2>1, <2>2 DEF Chained
<1>7. Chained(cs, last)
  BY <1>2, <1>3, <1>4, <1>5, <1>6 DEF Chained
<1>8. BufferRanges(cs) = RangesBehind(bs, n)
  <2>1. ASSUME NEW i \in 1 .. Len(cs)
        PROVE  i + n \in (n + 1) .. Len(bs) /\ cs[i] = bs[i + n]
    BY <1>1, <1>2
  <2>2. ASSUME NEW i \in (n + 1) .. Len(bs)
        PROVE  i - n \in 1 .. Len(cs) /\ cs[i - n] = bs[i]
    <3>1. i - n \in 1 .. (Len(bs) - n) /\ (i - n) + n = i
      BY <1>1
    <3> QED
      BY <1>2, <3>1
  <2>3. ASSUME NEW r \in BufferRanges(cs) PROVE r \in RangesBehind(bs, n)
    <3>1. PICK i \in 1 .. Len(cs) : r = RangeOf(cs[i])
      BY DEF BufferRanges
    <3> QED
      BY <2>1, <3>1, Zenon DEF RangesBehind
  <2>4. ASSUME NEW r \in RangesBehind(bs, n) PROVE r \in BufferRanges(cs)
    <3>1. PICK i \in (n + 1) .. Len(bs) : r = RangeOf(bs[i])
      BY DEF RangesBehind
    <3> QED
      BY <2>2, <3>1, Zenon DEF BufferRanges
  <2> QED
    BY <2>3, <2>4
<1> QED
  BY <1>2, <1>7, <1>8 DEF cs

-----------------------------------------------------------------------------
(* The operations that are one step.                                       *)

(* What a step has to keep, next to the invariant of SendQueue.tla.        *)
ListShape ==
    /\ streamPos = ctx.streamPos
    /\ ListsSorted
    /\ BuffersShown
    /\ StepInv

LEMMA ShownAfter ==
  ASSUME ShowsLists, ListsSorted', Chained(bufferList', bufferStreamPos'), CurrIs(bufferList', curr')
  PROVE  ContextShown' /\ streamPos' = ctx'.streamPos /\ BuffersShown'
<1>1. ctx'.flightBlocks \in Seq(StreamRange) /\ ctx'.lostBlocks \in Seq(StreamRange)
  BY DEF ListsSorted, Sorted
<1>2. flightBlocks' = Elements(ctx'.flightBlocks) /\ lostBlocks' = Elements(ctx'.lostBlocks)
  BY <1>1, BlockSetIs DEF ShowsLists
<1>3. ContextShown' /\ streamPos' = ctx'.streamPos
  BY <1>2, Zenon DEF ShowsLists, ContextShown, CountersShown, DupAckShown
<1>4. buffers' = BufferRanges(bufferList')
  <2>1. bufferList' \in Seq(Buffer)
    BY DEF Chained
  <2> QED
    BY <2>1, RangesShown DEF ShowsLists
<1>5. offsetStreamPos' = IF curr' = 0 THEN bufferStreamPos' ELSE bufferList'[curr'].offset
  BY Zenon DEF ShowsLists
<1> QED
  BY <1>3, <1>4, <1>5, Zenon DEF BuffersShown, BufferRanges

LEMMA ShapeAfter ==
  ASSUME ShowsLists, ListsSorted', Chained(bufferList', bufferStreamPos'), CurrIs(bufferList', curr'),
         step' = "idle", lateRest' = <<>>, total' = 0
  PROVE  ListShape'
<1>1. ContextShown' /\ streamPos' = ctx'.streamPos /\ BuffersShown'
  BY ShownAfter
<1>2. StepInv'
  BY <1>1 DEF StepInv, IdleInv
<1> QED
  BY <1>1, <1>2 DEF ListShape

LEMMA AddBufferList ==
  ASSUME ListInv, NEW len \in 1 .. (MaxStreamPos - bufferStreamPos), L!AddBuffer(len), ShowsLists
  PROVE  AddBuffer(len) /\ ListShape'
<1>1. /\ step = "idle" /\ bufferStreamPos + len <= MaxStreamPos
      /\ bufferList' = BufferAdded(bufferList, bufferStreamPos, len)
      /\ curr' = IF curr = 0 THEN Len(bufferList) + 1 ELSE curr
      /\ unSendLength' = unSendLength + len
      /\ bufferStreamPos' = bufferStreamPos + len
      /\ ctx' = ctx /\ acked' = acked
      /\ step' = step /\ flightRest' = flightRest /\ lostRest' = lostRest /\ lateRest' = lateRest
      /\ total' = total
  BY DEF L!AddBuffer, L!locals, BufferAdded, NewBuffer
<1>2. IdleInv /\ ContextShown /\ streamPos = ctx.streamPos /\ ListsSorted /\ BuffersShown /\ IndInv
  BY <1>1 DEF ListInv, StepInv, IdleInv
<1>3. bufferStreamPos \in Nat /\ len \in Nat \ {0} /\ len > 0 /\ offsetStreamPos \in Nat
  BY <1>2 DEF IndInv, TypeOK
<1>4. Chained(bufferList, bufferStreamPos) /\ CurrIs(bufferList, curr)
  BY <1>2 DEF BuffersShown
<1> DEFINE b == NewBuffer(bufferStreamPos, len)
<1>5. /\ Chained(bufferList', bufferStreamPos + len)
      /\ Len(bufferList') = Len(bufferList) + 1 /\ bufferList'[Len(bufferList) + 1] = b
      /\ \A i \in 1 .. Len(bufferList) : bufferList'[i] = bufferList[i]
      /\ BufferRanges(bufferList') = BufferRanges(bufferList)
                                       \cup {[start |-> bufferStreamPos, end |-> bufferStreamPos + len]}
  BY <1>1, <1>3, <1>4, ChainAppend, ZenonT(30)
<1>6. Len(bufferList) \in Nat
  BY <1>3, <1>4, ChainEnds
<1>7. b.start = bufferStreamPos /\ b.offset = bufferStreamPos /\ b.end = bufferStreamPos + len
  BY DEF NewBuffer
<1> HIDE DEF b
<1>8. /\ CurrIs(bufferList', curr')
      /\ curr' # 0
      /\ bufferList'[curr'].offset = IF curr = 0 THEN bufferStreamPos ELSE bufferList[curr].offset
  <2>1. CASE curr = 0
    <3>1. curr' = Len(bufferList) + 1 /\ curr' # 0 /\ bufferList'[curr'] = b
      BY <1>1, <1>5, <1>6, <2>1
    <3>2. curr' \in 0 .. Len(bufferList') /\ (curr' + 1) .. Len(bufferList') = {}
      BY <1>5, <1>6, <3>1
    <3> QED
      BY <1>3, <1>7, <2>1, <3>1, <3>2 DEF CurrIs
  <2>2. CASE curr # 0
    <3>1. curr \in 1 .. Len(bufferList) /\ curr' = curr /\ bufferList'[curr'] = bufferList[curr]
      BY <1>1, <1>4, <1>5, <1>6, <2>2 DEF CurrIs
    <3>2. curr' \in 0 .. Len(bufferList')
      BY <1>5, <1>6, <3>1
    <3>3. ASSUME NEW i \in (curr' + 1) .. Len(bufferList')
          PROVE  bufferList'[i].offset = bufferList'[i].start
      <4>1. i \in (curr + 1) .. Len(bufferList) \/ i = Len(bufferList) + 1
        BY <1>5, <1>6, <3>1
      <4>2. CASE i \in (curr + 1) .. Len(bufferList)
        <5>1. i \in 1 .. Len(bufferList)
          BY <1>6, <3>1, <4>2
        <5> QED
          BY <1>4, <1>5, <2>2, <4>2, <5>1 DEF CurrIs
      <4>3. CASE i = Len(bufferList) + 1
        BY <1>5, <1>7, <4>3
      <4> QED
        BY <4>1, <4>2, <4>3
    <3> QED
      BY <1>4, <2>2, <3>1, <3>2, <3>3 DEF CurrIs
  <2> QED
    BY <2>1, <2>2
<1>9. ListsSorted'
  BY <1>1, <1>2 DEF ListsSorted
<1>10. ListShape'
  <2>1. step' = "idle" /\ lateRest' = <<>> /\ total' = 0
    BY <1>1, <1>2 DEF IdleInv
  <2> QED
    BY <1>1, <1>5, <1>8, <1>9, <2>1, ShapeAfter
<1>11. ContextShown' /\ streamPos' = ctx'.streamPos /\ BuffersShown'
  BY <1>1, <1>5, <1>8, <1>9, ShownAfter
<1>12. UNCHANGED <<contextVars, offsetStreamPos, acked>>
  <2>1. UNCHANGED contextVars
    BY <1>1, <1>2, <1>11 DEF ContextShown, CountersShown, DupAckShown, contextVars
  <2>2. offsetStreamPos' = bufferList'[curr'].offset
    BY <1>8, <1>11 DEF BuffersShown
  <2>3. offsetStreamPos' = offsetStreamPos
    BY <1>2, <1>8, <2>2 DEF BuffersShown
  <2> QED
    BY <1>1, <2>1, <2>3
<1>13. buffers' = buffers \cup {[start |-> bufferStreamPos, end |-> bufferStreamPos + len]}
  BY <1>2, <1>5, <1>11 DEF BuffersShown, BufferRanges
<1> QED
  BY <1>1, <1>3, <1>10, <1>12, <1>13 DEF AddBuffer

LEMMA PopCompleteBuffersList ==
  ASSUME ListInv, NEW seen \in InitStreamPos .. ctx.ackStreamPos, L!PopCompleteBuffers(seen), ShowsLists
  PROVE  PopCompleteBuffers(seen) /\ seen \in InitStreamPos .. ackStreamPos /\ ListShape'
<1>1. PICK n \in 1 .. Len(bufferList) :
        /\ \A i \in 1 .. n : bufferList[i].end <= seen
        /\ n < Len(bufferList) => bufferList[n + 1].end > seen
        /\ bufferList' = BuffersPopped(bufferList, n)
        /\ curr' = IF curr <= n THEN 0 ELSE curr - n
  BY Zenon DEF L!PopCompleteBuffers, BuffersPopped
<1>2. /\ step = "idle"
      /\ ctx' = ctx /\ acked' = acked /\ bufferStreamPos' = bufferStreamPos /\ unSendLength' = unSendLength
      /\ step' = step /\ flightRest' = flightRest /\ lostRest' = lostRest /\ lateRest' = lateRest
      /\ total' = total
  BY DEF L!PopCompleteBuffers, L!locals
<1>3. IdleInv /\ ContextShown /\ streamPos = ctx.streamPos /\ ListsSorted /\ BuffersShown /\ IndInv
  BY <1>2 DEF ListInv, StepInv, IdleInv
<1>4. bufferStreamPos \in Nat /\ offsetStreamPos \in Nat /\ ackStreamPos \in Nat /\ InitStreamPos \in Nat
  BY <1>3, SendQueueAssumption DEF IndInv, TypeOK
<1>5. seen \in InitStreamPos .. ackStreamPos /\ seen \in Nat /\ seen <= offsetStreamPos
  <2>1. ackStreamPos = ctx.ackStreamPos
    BY <1>3 DEF ContextShown
  <2>2. ackStreamPos <= offsetStreamPos
    BY <1>3 DEF IndInv, PositionsOrdered
  <2> QED
    BY <1>4, <2>1, <2>2
<1>6. Chained(bufferList, bufferStreamPos) /\ CurrIs(bufferList, curr)
  BY <1>3 DEF BuffersShown
<1>7. /\ Chained(bufferList', bufferStreamPos)
      /\ Len(bufferList') = Len(bufferList) - n
      /\ \A i \in 1 .. (Len(bufferList) - n) : bufferList'[i] = bufferList[i + n]
      /\ BufferRanges(bufferList') = RangesBehind(bufferList, n)
  <2>1. /\ Chained(BuffersPopped(bufferList, n), bufferStreamPos)
        /\ Len(BuffersPopped(bufferList, n)) = Len(bufferList) - n
        /\ \A i \in 1 .. (Len(bufferList) - n) : BuffersPopped(bufferList, n)[i] = bufferList[i + n]
        /\ BufferRanges(BuffersPopped(bufferList, n)) = RangesBehind(bufferList, n)
    BY <1>4, <1>6, ChainPop
  <2>2. bufferList' = BuffersPopped(bufferList, n)
    BY <1>1
  <2> QED
    BY <2>1, <2>2, Zenon
<1>8. Len(bufferList) \in Nat /\ n \in Nat /\ 1 <= n /\ n <= Len(bufferList)
  <2>1. Len(bufferList) \in Nat
    BY <1>4, <1>6, ChainEnds
  <2> QED
    BY <2>1
<1>9. curr # 0 => n < curr /\ curr \in 1 .. Len(bufferList)
  <2> SUFFICES ASSUME curr # 0 PROVE n < curr /\ curr \in 1 .. Len(bufferList)
    OBVIOUS
  <2>1. curr \in 1 .. Len(bufferList) /\ offsetStreamPos = bufferList[curr].offset
    BY <1>3, <1>6, <1>8 DEF CurrIs, BuffersShown
  <2>2. bufferList[curr].offset < bufferList[curr].end
    BY <1>6 DEF CurrIs
  <2>3. ASSUME curr <= n PROVE FALSE
    <3>1. bufferList[curr].end <= seen
      BY <1>1, <1>8, <2>1, <2>3
    <3>2. bufferList[curr].end \in Nat
      BY <1>6, <2>1, BufferFields
    <3> QED
      BY <1>4, <1>5, <2>1, <2>2, <3>1, <3>2
  <2> QED
    BY <1>8, <2>1, <2>3
<1>10. /\ CurrIs(bufferList', curr')
       /\ curr' = 0 <=> curr = 0
       /\ curr # 0 => bufferList'[curr'].offset = bufferList[curr].offset
  <2>1. CASE curr = 0
    <3>1. curr' = 0
      BY <1>1, <1>8, <2>1
    <3> QED
      BY <1>7, <1>8, <2>1, <3>1 DEF CurrIs
  <2>2. CASE curr # 0
    <3>1. /\ curr' = curr - n /\ curr' # 0 /\ curr' \in 1 .. (Len(bufferList) - n)
          /\ curr' \in 0 .. Len(bufferList') /\ curr' + n = curr
      <4>1. n < curr /\ curr \in 1 .. Len(bufferList) /\ curr \in Nat /\ curr <= Len(bufferList)
        BY <1>8, <1>9, <2>2
      <4>2. curr' = curr - n
        BY <1>1, <1>8, <4>1
      <4>3. Len(bufferList') = Len(bufferList) - n
        BY <1>7
      <4> QED
        BY <1>8, <4>1, <4>2, <4>3
    <3>2. bufferList'[curr'] = bufferList[curr]
      <4>1. bufferList'[curr'] = bufferList[curr' + n]
        BY <1>7, <3>1, Zenon
      <4> QED
        BY <3>1, <4>1
    <3>3. ASSUME NEW i \in (curr' + 1) .. Len(bufferList')
          PROVE  bufferList'[i].offset = bufferList'[i].start
      <4>1. i \in 1 .. (Len(bufferList) - n) /\ i + n \in (curr + 1) .. Len(bufferList)
        BY <1>7, <1>8, <3>1
      <4>2. bufferList'[i] = bufferList[i + n]
        BY <1>7, <4>1
      <4>3. bufferList[i + n].offset = bufferList[i + n].start
        BY <1>6, <2>2, <4>1 DEF CurrIs
      <4> QED
        BY <4>2, <4>3
    <3> QED
      BY <1>6, <2>2, <3>1, <3>2, <3>3 DEF CurrIs
  <2> QED
    BY <2>1, <2>2
<1>11. ListsSorted'
  BY <1>2, <1>3 DEF ListsSorted
<1>12. ListShape'
  <2>1. step' = "idle" /\ lateRest' = <<>> /\ total' = 0
    BY <1>2, <1>3 DEF IdleInv
  <2> QED
    BY <1>2, <1>7, <1>10, <1>11, <2>1, ShapeAfter
<1>13. ContextShown' /\ streamPos' = ctx'.streamPos /\ BuffersShown'
  BY <1>2, <1>7, <1>10, <1>11, ShownAfter
<1>14. UNCHANGED <<contextVars, bufferStreamPos, unSendLength, offsetStreamPos, acked>>
  <2>1. UNCHANGED contextVars
    BY <1>2, <1>3, <1>13 DEF ContextShown, CountersShown, DupAckShown, contextVars
  <2>2. offsetStreamPos' = offsetStreamPos
    BY <1>2, <1>3, <1>10, <1>13 DEF BuffersShown
  <2> QED
    BY <1>2, <2>1, <2>2
<1>15. buffers = BufferRanges(bufferList) /\ buffers' = BufferRanges(bufferList')
  BY <1>3, <1>13 DEF BuffersShown, BufferRanges
<1>16. ASSUME NEW i \in 1 .. Len(bufferList)
       PROVE  RangeOf(bufferList[i]).end > seen <=> i \in (n + 1) .. Len(bufferList)
  <2>1. RangeOf(bufferList[i]).end = bufferList[i].end
    BY DEF RangeOf
  <2>2. bufferList[i].end \in Nat
    BY <1>6, BufferFields
  <2>3. CASE i <= n
    <3>1. bufferList[i].end <= seen /\ i \notin (n + 1) .. Len(bufferList)
      BY <1>1, <1>8, <2>3
    <3> QED
      BY <1>5, <2>1, <2>2, <3>1
  <2>4. CASE n < i
    <3>1. n < Len(bufferList) /\ n + 1 \in 1 .. Len(bufferList) /\ i \in (n + 1) .. Len(bufferList)
      BY <1>8, <2>4
    <3>2. bufferList[n + 1].end > seen
      BY <1>1, <3>1
    <3>3. CASE i = n + 1
      BY <2>1, <3>1, <3>2, <3>3
    <3>4. CASE n + 1 < i
      <4>1. bufferList[n + 1].end <= bufferList[i].start
        BY <1>6, <3>1, <3>4 DEF Chained
      <4>2. bufferList[n + 1].end \in Nat /\ bufferList[i].start \in Nat /\ bufferList[i].start < bufferList[i].end
        BY <1>6, <3>1, BufferFields
      <4> QED
        BY <1>5, <2>1, <2>2, <3>1, <3>2, <4>1, <4>2
    <3> QED
      BY <1>8, <2>4, <3>3, <3>4
  <2> QED
    BY <1>8, <2>3, <2>4
<1>17. buffers' = {b \in buffers : b.end > seen}
  <2>1. ASSUME NEW r \in buffers' PROVE r \in buffers /\ r.end > seen
    <3>1. PICK i \in (n + 1) .. Len(bufferList) : r = RangeOf(bufferList[i])
      BY <1>7, <1>15 DEF RangesBehind
    <3>2. i \in 1 .. Len(bufferList)
      BY <1>8
    <3>3. r \in BufferRanges(bufferList)
      BY <3>1, <3>2, Zenon DEF BufferRanges
    <3> QED
      BY <1>15, <1>16, <3>1, <3>2, <3>3
  <2>2. ASSUME NEW r \in buffers, r.end > seen PROVE r \in buffers'
    <3>1. PICK i \in 1 .. Len(bufferList) : r = RangeOf(bufferList[i])
      BY <1>15 DEF BufferRanges
    <3>2. i \in (n + 1) .. Len(bufferList)
      BY <1>16, <2>2, <3>1
    <3> QED
      BY <1>7, <1>15, <3>1, <3>2, Zenon DEF RangesBehind
  <2> QED
    BY <2>1, <2>2
<1>18. \E b \in buffers : b.end <= seen
  <2>1. 1 \in 1 .. Len(bufferList) /\ 1 \in 1 .. n
    BY <1>8
  <2>2. RangeOf(bufferList[1]) \in buffers
    BY <1>6, <1>15, <2>1, BufferFields
  <2>3. RangeOf(bufferList[1]).end <= seen
    BY <1>1, <2>1 DEF RangeOf
  <2> QED
    BY <2>2, <2>3
<1> QED
  BY <1>5, <1>12, <1>14, <1>17, <1>18 DEF PopCompleteBuffers

-----------------------------------------------------------------------------
(* The two sorted insertions.                                              *)

LEMMA MoveLostToFlightSorted ==
  ASSUME NEW bs, Sorted(bs), NEW b, IsBlock(b), Apart(Elements(bs), {b})
  PROVE  /\ Sorted(L!MoveLostToFlight(bs, b))
         /\ Elements(L!MoveLostToFlight(bs, b)) = Elements(bs) \cup {b}
<1> DEFINE Stop(i) == /\ \A j \in 1 .. i : bs[j].start <= b.start
                      /\ i < Len(bs) => b.start < bs[i + 1].start
           at == CHOOSE i \in 0 .. Len(bs) : Stop(i)
<1>1. Len(bs) \in Nat /\ b.start \in Nat /\ b.end \in Nat /\ b.start < b.end
  BY SortedBlocks, BlockFields
<1>2. \A i \in 1 .. Len(bs) : bs[i].start \in Nat /\ bs[i].end \in Nat /\ bs[i].start < bs[i].end
  BY SortedBlocks, BlockFields
<1>3. \A i \in 1 .. Len(bs) : bs[i].end <= b.start \/ b.end <= bs[i].start
  BY SortedBlocks DEF Apart
<1>4. \E i \in 0 .. Len(bs) : Stop(i)
  <2> DEFINE N == {i \in 0 .. Len(bs) : i < Len(bs) => b.start < bs[i + 1].start}
  <2>1. N \in SUBSET Nat /\ N # {}
    <3>1. Len(bs) \in N
      BY <1>1
    <3> QED
      BY <1>1, <3>1
  <2>2. PICK i \in N : \A y \in N : i <= y
    BY <2>1, Least
  <2>3. ASSUME NEW j \in 1 .. i PROVE bs[j].start <= b.start
    <3>1. j - 1 \in 0 .. Len(bs) /\ ~(i <= j - 1) /\ j - 1 < Len(bs) /\ (j - 1) + 1 = j /\ j \in 1 .. Len(bs)
      BY <1>1, <2>2, <2>3
    <3>2. ~(b.start < bs[j].start)
      BY <2>2, <3>1
    <3> QED
      BY <1>1, <1>2, <3>1, <3>2
  <2> QED
    BY <2>2, <2>3
<1>5. at \in 0 .. Len(bs) /\ Stop(at)
  BY <1>4
<1>6. L!MoveLostToFlight(bs, b) = L!InsertAt(bs, at + 1, b)
  BY Zenon DEF L!MoveLostToFlight
<1> HIDE DEF at
<1>7. ASSUME NEW j \in 1 .. at PROVE bs[j].end <= b.start
  <2>1. j \in 1 .. Len(bs) /\ bs[j].start <= b.start
    BY <1>1, <1>5
  <2> QED
    BY <1>1, <1>2, <1>3, <2>1
<1>8. ASSUME NEW j \in (at + 1) .. Len(bs) PROVE b.end <= bs[j].start
  <2>1. at < Len(bs) /\ at + 1 \in 1 .. Len(bs) /\ j \in 1 .. Len(bs) /\ (j = at + 1 \/ at + 1 < j)
    BY <1>1, <1>5
  <2>2. b.start < bs[at + 1].start
    BY <1>5, <2>1
  <2>3. b.start < bs[j].start
    <3>1. CASE j = at + 1
      BY <2>2, <3>1
    <3>2. CASE at + 1 < j
      <4>1. bs[at + 1].end <= bs[j].start
        BY <2>1, <3>2, SortedBlocks
      <4> QED
        BY <1>1, <1>2, <2>1, <2>2, <4>1
    <3> QED
      BY <2>1, <3>1, <3>2
  <2> QED
    BY <1>1, <1>2, <1>3, <2>1, <2>3
<1>9. at \in 0 .. Len(bs)
  BY <1>5
<1>10. /\ Sorted(L!InsertAt(bs, at + 1, b))
       /\ Elements(L!InsertAt(bs, at + 1, b)) = Elements(bs) \cup {b}
  BY <1>7, <1>8, <1>9, SortedInsert
<1> QED
  BY <1>6, <1>10

(* MoveFlightToLost, for one block that lies behind the first from ones.   *)
Spliced(bs, from, b) == L!InsertAt(bs, L!PlaceFor(bs, from, b) + 1, b)

LEMMA SpliceSorted ==
  ASSUME NEW bs, Sorted(bs), NEW b, IsBlock(b), Apart(Elements(bs), {b}),
         NEW from \in 0 .. Len(bs), \A j \in 1 .. from : bs[j].end <= b.start
  PROVE  /\ L!PlaceFor(bs, from, b) \in from .. Len(bs)
         /\ Sorted(Spliced(bs, from, b))
         /\ Elements(Spliced(bs, from, b)) = Elements(bs) \cup {b}
         /\ Len(Spliced(bs, from, b)) = Len(bs) + 1
         /\ \A j \in 1 .. (L!PlaceFor(bs, from, b) + 1) : Spliced(bs, from, b)[j].end <= b.end
<1> DEFINE Stop(i) == /\ \A j \in (from + 1) .. i : b.end > bs[j].start
                      /\ i < Len(bs) => b.end <= bs[i + 1].start
           at == L!PlaceFor(bs, from, b)
           cs == Spliced(bs, from, b)
<1>1. Len(bs) \in Nat /\ b.start \in Nat /\ b.end \in Nat /\ b.start < b.end /\ from \in Nat /\ from <= Len(bs)
  <2>1. Len(bs) \in Nat
    BY SortedBlocks
  <2> QED
    BY <2>1, BlockFields
<1>2. \A i \in 1 .. Len(bs) : bs[i].start \in Nat /\ bs[i].end \in Nat /\ bs[i].start < bs[i].end
  BY SortedBlocks, BlockFields
<1>3. \A i \in 1 .. Len(bs) : bs[i].end <= b.start \/ b.end <= bs[i].start
  BY SortedBlocks DEF Apart
<1>4. \E i \in from .. Len(bs) : Stop(i)
  <2> DEFINE N == {i \in from .. Len(bs) : i < Len(bs) => b.end <= bs[i + 1].start}
  <2>1. N \in SUBSET Nat /\ N # {}
    <3>1. Len(bs) \in N
      BY <1>1
    <3> QED
      BY <1>1, <3>1
  <2>2. PICK i \in N : \A y \in N : i <= y
    BY <2>1, Least
  <2>3. ASSUME NEW j \in (from + 1) .. i PROVE b.end > bs[j].start
    <3>1. j - 1 \in from .. Len(bs) /\ ~(i <= j - 1) /\ j - 1 < Len(bs) /\ (j - 1) + 1 = j /\ j \in 1 .. Len(bs)
      BY <1>1, <2>2, <2>3
    <3>2. ~(b.end <= bs[j].start)
      BY <2>2, <3>1
    <3> QED
      BY <1>1, <1>2, <3>1, <3>2
  <2> QED
    BY <2>2, <2>3
<1>5. at \in from .. Len(bs) /\ Stop(at)
  BY <1>4 DEF L!PlaceFor
<1> HIDE DEF at
<1>6. at \in Nat /\ from <= at /\ at <= Len(bs) /\ at \in 0 .. Len(bs)
  BY <1>1, <1>5
<1>7. ASSUME NEW j \in 1 .. at PROVE bs[j].end <= b.start
  <2>1. j \in 1 .. Len(bs) /\ (j \in 1 .. from \/ j \in (from + 1) .. at)
    BY <1>1, <1>6
  <2>2. CASE j \in (from + 1) .. at
    <3>1. b.end > bs[j].start
      BY <1>5, <2>2
    <3> QED
      BY <1>1, <1>2, <1>3, <2>1, <3>1
  <2> QED
    BY <2>1, <2>2
<1>8. ASSUME NEW j \in (at + 1) .. Len(bs) PROVE b.end <= bs[j].start
  <2>1. at < Len(bs) /\ at + 1 \in 1 .. Len(bs) /\ j \in 1 .. Len(bs) /\ (j = at + 1 \/ at + 1 < j)
    BY <1>1, <1>6
  <2>2. b.end <= bs[at + 1].start
    BY <1>5, <2>1
  <2>3. CASE at + 1 < j
    <3>1. bs[at + 1].end <= bs[j].start
      BY <2>1, <2>3, SortedBlocks
    <3> QED
      BY <1>1, <1>2, <2>1, <2>2, <3>1
  <2> QED
    BY <2>1, <2>2, <2>3
<1>9. /\ Sorted(cs)
      /\ Elements(cs) = Elements(bs) \cup {b}
      /\ Len(cs) = Len(bs) + 1
      /\ \A j \in 1 .. at : cs[j] = bs[j]
      /\ cs[at + 1] = b
  <2>1. cs = L!InsertAt(bs, at + 1, b)
    BY DEF Spliced, at
  <2> HIDE DEF cs
  <2>2. /\ Sorted(L!InsertAt(bs, at + 1, b))
        /\ Elements(L!InsertAt(bs, at + 1, b)) = Elements(bs) \cup {b}
        /\ Len(L!InsertAt(bs, at + 1, b)) = Len(bs) + 1
        /\ \A j \in 1 .. at : L!InsertAt(bs, at + 1, b)[j] = bs[j]
        /\ L!InsertAt(bs, at + 1, b)[at + 1] = b
    BY <1>6, <1>7, <1>8, SortedInsert
  <2> QED
    BY <2>1, <2>2, Zenon
<1> HIDE DEF cs, Stop
<1>10. ASSUME NEW j \in 1 .. (at + 1) PROVE cs[j].end <= b.end
  <2>1. j \in 1 .. at \/ j = at + 1
    BY <1>6
  <2>2. CASE j \in 1 .. at
    <3>1. cs[j] = bs[j] /\ bs[j].end <= b.start /\ j \in 1 .. Len(bs)
      BY <1>6, <1>7, <1>9, <2>2
    <3> QED
      BY <1>1, <1>2, <3>1
  <2>3. CASE j = at + 1
    BY <1>1, <1>9, <2>3
  <2> QED
    BY <2>1, <2>2, <2>3
<1> QED
  BY <1>5, <1>9, <1>10 DEF at, cs

-----------------------------------------------------------------------------
(* SendQueueFillPayload                                                     *)

LostFilled(c, F, T, n) ==
    [c EXCEPT !.lostBlocks = T, !.flightBlocks = F, !.flight = @ + n, !.lost = @ - n]

IsLostFilled(d, c, F, T, n) ==
    /\ d \in Context
    /\ d.flightBlocks = F /\ d.lostBlocks = T
    /\ d.flight = c.flight + n /\ d.lost = c.lost - n
    /\ d.ackStreamPos = c.ackStreamPos /\ d.streamPos = c.streamPos
    /\ d.latest = c.latest /\ d.prevDup = c.prevDup /\ d.dup = c.dup

LEMMA LostFilledContext ==
  ASSUME NEW c \in Context, NEW F \in Seq(StreamRange), NEW T \in Seq(StreamRange), NEW n \in Int
  PROVE  IsLostFilled(LostFilled(c, F, T, n), c, F, T, n)
<1>1. c.flight + n \in Int /\ c.lost - n \in Int
  BY DEF Context
<1>2. LostFilled(c, F, T, n) \in Context
  BY <1>1 DEF LostFilled, Context
<1>3. /\ LostFilled(c, F, T, n).flightBlocks = F
      /\ LostFilled(c, F, T, n).lostBlocks = T
      /\ LostFilled(c, F, T, n).flight = c.flight + n
      /\ LostFilled(c, F, T, n).lost = c.lost - n
      /\ LostFilled(c, F, T, n).ackStreamPos = c.ackStreamPos
      /\ LostFilled(c, F, T, n).streamPos = c.streamPos
      /\ LostFilled(c, F, T, n).latest = c.latest
      /\ LostFilled(c, F, T, n).prevDup = c.prevDup
      /\ LostFilled(c, F, T, n).dup = c.dup
  BY DEF LostFilled, Context
<1> QED
  BY <1>2, <1>3 DEF IsLostFilled

(* Blocks that are not the same lie apart.                                 *)
LEMMA BlocksApart ==
  ASSUME IndInv, NEW S, S \subseteq Blocks, NEW b \in Blocks, b \notin S
  PROVE  IsBlock(b) /\ Apart(S, {b}) /\ b.end <= streamPos /\ streamPos \in Nat
<1>1. WellFormed(Blocks, streamPos) /\ streamPos \in Nat
  BY DEF IndInv, TypeOK
<1>2. IsBlock(b) /\ b.end <= streamPos
  BY <1>1 DEF WellFormed, IsBlock
<1>3. Apart(S, {b})
  BY <1>1 DEF WellFormed, Apart
<1> QED
  BY <1>1, <1>2, <1>3

LEMMA FillLostPayloadList ==
  ASSUME ListInv, L!FillLostPayload, ShowsLists
  PROVE  FillLostPayload /\ ListShape'
<1> DEFINE b == Head(ctx.lostBlocks)
           F == L!MoveLostToFlight(ctx.flightBlocks, b)
           n == b.end - b.start
<1>1. /\ step = "idle" /\ ctx.lostBlocks # <<>>
      /\ ctx' = LostFilled(ctx, F, Tail(ctx.lostBlocks), n)
      /\ bufferList' = bufferList /\ curr' = curr
      /\ bufferStreamPos' = bufferStreamPos /\ unSendLength' = unSendLength /\ acked' = acked
      /\ step' = step /\ flightRest' = flightRest /\ lostRest' = lostRest /\ lateRest' = lateRest
      /\ total' = total
  BY Zenon DEF L!FillLostPayload, L!bufferVars, L!locals, L!SizeOf, LostFilled
<1>2. IdleInv /\ ContextShown /\ streamPos = ctx.streamPos /\ ListsSorted /\ BuffersShown /\ IndInv
  BY <1>1 DEF ListInv, StepInv, IdleInv
<1>3. /\ Sorted(Tail(ctx.lostBlocks))
      /\ b \in Elements(ctx.lostBlocks) /\ IsBlock(b)
      /\ Elements(Tail(ctx.lostBlocks)) = Elements(ctx.lostBlocks) \ {b}
      /\ Before({b}, Elements(Tail(ctx.lostBlocks)))
  BY <1>1, <1>2, SortedTail DEF ListsSorted
<1>4. flightBlocks = Elements(ctx.flightBlocks) /\ lostBlocks = Elements(ctx.lostBlocks)
  BY <1>2 DEF ContextShown
<1>5. b.start \in Nat /\ b.end \in Nat /\ n \in Int
  BY <1>3, BlockFields
<1> HIDE DEF b, n
<1>6. Apart(Elements(ctx.flightBlocks), {b})
  <2>1. b \in Blocks /\ flightBlocks \subseteq Blocks /\ b \notin flightBlocks
    BY <1>2, <1>3, <1>4 DEF Blocks, IndInv
  <2> QED
    BY <1>2, <1>4, <2>1, BlocksApart
<1>7. Sorted(F) /\ Elements(F) = Elements(ctx.flightBlocks) \cup {b}
  BY <1>2, <1>3, <1>6, MoveLostToFlightSorted DEF ListsSorted
<1> HIDE DEF F
<1>8. /\ ctx' \in Context
      /\ ctx'.flightBlocks = F /\ ctx'.lostBlocks = Tail(ctx.lostBlocks)
      /\ ctx'.flight = ctx.flight + n /\ ctx'.lost = ctx.lost - n
      /\ ctx'.ackStreamPos = ctx.ackStreamPos /\ ctx'.streamPos = ctx.streamPos
      /\ ctx'.latest = ctx.latest /\ ctx'.prevDup = ctx.prevDup /\ ctx'.dup = ctx.dup
  <2> DEFINE T == Tail(ctx.lostBlocks)
  <2>1. ctx \in Context /\ F \in Seq(StreamRange) /\ T \in Seq(StreamRange)
    BY <1>2, <1>3, <1>7, SortedBlocks DEF ListsSorted
  <2>2. ctx' = LostFilled(ctx, F, T, n)
    BY <1>1
  <2> HIDE DEF T
  <2>3. IsLostFilled(LostFilled(ctx, F, T, n), ctx, F, T, n)
    BY <1>5, <2>1, LostFilledContext
  <2>4. IsLostFilled(ctx', ctx, F, T, n)
    BY <2>2, <2>3, Zenon
  <2> QED
    BY <2>4 DEF T, IsLostFilled
<1>9. ListsSorted'
  BY <1>1, <1>2, <1>3, <1>7, <1>8 DEF ListsSorted
<1>10. Chained(bufferList', bufferStreamPos') /\ CurrIs(bufferList', curr')
  BY <1>1, <1>2 DEF BuffersShown
<1>11. ListShape'
  <2>1. step' = "idle" /\ lateRest' = <<>> /\ total' = 0
    BY <1>1, <1>2 DEF IdleInv
  <2> QED
    BY <1>9, <1>10, <2>1, ShapeAfter
<1>12. ContextShown' /\ streamPos' = ctx'.streamPos /\ BuffersShown'
  BY <1>9, <1>10, ShownAfter
<1>13. UNCHANGED <<ackStreamPos, streamPos, latestAckStreamPos, prevDupAckStreamPos,
                   dupAckTimes, bufferVars, acked>>
  <2>1. UNCHANGED bufferVars
    BY <1>1, <1>2, <1>12 DEF BuffersShown, bufferVars
  <2>2. UNCHANGED <<ackStreamPos, latestAckStreamPos, prevDupAckStreamPos, dupAckTimes>>
    BY <1>2, <1>8, <1>12 DEF ContextShown, DupAckShown
  <2> QED
    BY <1>1, <1>2, <1>8, <1>12, <2>1, <2>2
<1>14. /\ lostBlocks' = lostBlocks \ {b}
       /\ flightBlocks' = flightBlocks \cup {b}
       /\ flight' = flight + (b.end - b.start)
       /\ lost' = lost - (b.end - b.start)
  BY <1>2, <1>3, <1>7, <1>8, <1>12 DEF ContextShown, CountersShown, n
<1>15. b \in lostBlocks /\ IsFirst(b, lostBlocks)
  <2>1. ASSUME NEW s \in lostBlocks PROVE b.start <= s.start
    <3>1. CASE s = b
      BY <1>5, <3>1
    <3>2. CASE s # b
      <4>1. s \in Elements(Tail(ctx.lostBlocks))
        BY <1>3, <1>4, <3>2
      <4>2. b.end <= s.start
        BY <1>3, <4>1 DEF Before
      <4>3. IsBlock(s) /\ b.start < b.end
        BY <1>3, <4>1, SortedBlocks DEF IsBlock
      <4> QED
        BY <1>5, <4>2, <4>3, BlockFields
    <3> QED
      BY <3>1, <3>2
  <2> QED
    BY <1>3, <1>4, <2>1 DEF IsFirst
<1> QED
  BY <1>11, <1>13, <1>14, <1>15 DEF FillLostPayload

NewFilled(c, F, n) == [c EXCEPT !.flightBlocks = F, !.flight = @ + n, !.streamPos = @ + n]

LEMMA NewFilledContext ==
  ASSUME NEW c \in Context, NEW F \in Seq(StreamRange), NEW n \in Nat
  PROVE  /\ NewFilled(c, F, n) \in Context
         /\ NewFilled(c, F, n).flightBlocks = F
         /\ NewFilled(c, F, n).lostBlocks = c.lostBlocks
         /\ NewFilled(c, F, n).flight = c.flight + n
         /\ NewFilled(c, F, n).lost = c.lost
         /\ NewFilled(c, F, n).ackStreamPos = c.ackStreamPos
         /\ NewFilled(c, F, n).streamPos = c.streamPos + n
         /\ NewFilled(c, F, n).latest = c.latest
         /\ NewFilled(c, F, n).prevDup = c.prevDup
         /\ NewFilled(c, F, n).dup = c.dup
<1>1. c.flight + n \in Int /\ c.streamPos + n \in Nat
  BY DEF Context
<1>2. NewFilled(c, F, n) \in Context
  BY <1>1 DEF NewFilled, Context
<1>3. /\ NewFilled(c, F, n).flightBlocks = F
      /\ NewFilled(c, F, n).lostBlocks = c.lostBlocks
      /\ NewFilled(c, F, n).flight = c.flight + n
      /\ NewFilled(c, F, n).lost = c.lost
      /\ NewFilled(c, F, n).ackStreamPos = c.ackStreamPos
      /\ NewFilled(c, F, n).streamPos = c.streamPos + n
      /\ NewFilled(c, F, n).latest = c.latest
      /\ NewFilled(c, F, n).prevDup = c.prevDup
      /\ NewFilled(c, F, n).dup = c.dup
  BY DEF NewFilled, Context
<1> QED
  BY <1>2, <1>3

LEMMA FillNewPayloadList ==
  ASSUME ListInv, L!FillNewPayload, ShowsLists
  PROVE  FillNewPayload /\ ListShape'
<1> DEFINE u    == bufferList[curr]
           left == u.end - u.offset
           size == IF left <= Mtu THEN left ELSE Mtu
           b    == [start |-> u.offset, end |-> u.offset + size]
           F    == Append(ctx.flightBlocks, b)
<1>1. /\ step = "idle" /\ ctx.lostBlocks = <<>> /\ unSendLength > 0
      /\ bufferList' = OffsetMoved(bufferList, curr, b.end)
      /\ curr' = CASE left > Mtu -> curr
                   [] left <= Mtu /\ curr < Len(bufferList) -> curr + 1
                   [] left <= Mtu /\ curr = Len(bufferList) -> 0
      /\ unSendLength' = unSendLength - size
      /\ ctx' = NewFilled(ctx, F, size)
      /\ bufferStreamPos' = bufferStreamPos /\ acked' = acked
      /\ step' = step /\ flightRest' = flightRest /\ lostRest' = lostRest /\ lateRest' = lateRest
      /\ total' = total
  BY Zenon DEF L!FillNewPayload, L!locals, NewFilled, OffsetMoved
<1>2. IdleInv /\ ContextShown /\ streamPos = ctx.streamPos /\ ListsSorted /\ BuffersShown /\ IndInv
  BY <1>1 DEF ListInv, StepInv, IdleInv
<1>3. /\ bufferStreamPos \in Nat /\ offsetStreamPos \in Nat /\ streamPos \in Nat /\ unSendLength \in Nat
      /\ streamPos = offsetStreamPos /\ unSendLength = bufferStreamPos - offsetStreamPos
      /\ Mtu \in Nat \ {0}
  BY <1>2, SendQueueAssumption DEF IndInv, TypeOK, PositionsOrdered
<1>4. Chained(bufferList, bufferStreamPos) /\ CurrIs(bufferList, curr)
  BY <1>2 DEF BuffersShown
<1>5. Len(bufferList) \in Nat /\ curr \in 1 .. Len(bufferList) /\ offsetStreamPos = u.offset
  <2>1. Len(bufferList) \in Nat
    BY <1>3, <1>4, ChainEnds
  <2>2. curr # 0
    BY <1>1, <1>2, <1>3 DEF BuffersShown
  <2> QED
    BY <1>2, <1>4, <2>1, <2>2 DEF CurrIs, BuffersShown
<1>6. /\ u.start \in Nat /\ u.offset \in Nat /\ u.end \in Nat
      /\ u.start <= u.offset /\ u.offset < u.end
      /\ RangeOf(u) \in BufferRanges(bufferList)
      /\ \A i \in (curr + 1) .. Len(bufferList) : bufferList[i].offset = bufferList[i].start
  BY <1>4, <1>5, BufferFields DEF CurrIs
<1> HIDE DEF u
<1>7. /\ left \in Nat /\ size \in Nat \ {0} /\ b.start = u.offset /\ b.end = u.offset + size
      /\ b.end \in Nat /\ b.start < b.end /\ b \in StreamRange /\ IsBlock(b)
      /\ left > Mtu => size = Mtu /\ b.end < u.end
      /\ left <= Mtu => size = left /\ b.end = u.end
  BY <1>3, <1>6 DEF IsBlock, StreamRange
<1>8. b = GeneratedBlock(RangeOf(u)) /\ size = b.end - b.start
  <2>1. RangeOf(u).end = u.end
    BY DEF RangeOf
  <2>2. GeneratedBlock(RangeOf(u))
          = [start |-> offsetStreamPos,
             end   |-> IF u.end - offsetStreamPos <= Mtu THEN u.end ELSE offsetStreamPos + Mtu]
    BY <2>1 DEF GeneratedBlock
  <2>3. b.end = IF u.end - offsetStreamPos <= Mtu THEN u.end ELSE offsetStreamPos + Mtu
    BY <1>3, <1>5, <1>6, <1>7
  <2>4. b = [start |-> b.start, end |-> b.end]
    OBVIOUS
  <2> HIDE DEF b
  <2> QED
    BY <1>5, <1>6, <1>7, <2>2, <2>3, <2>4
<1> HIDE DEF b, size, left
<1>9. /\ Chained(bufferList', bufferStreamPos)
      /\ Len(bufferList') = Len(bufferList)
      /\ bufferList'[curr].start = u.start
      /\ bufferList'[curr].end = u.end
      /\ bufferList'[curr].offset = b.end
      /\ \A i \in 1 .. Len(bufferList) : i # curr => bufferList'[i] = bufferList[i]
      /\ BufferRanges(bufferList') = BufferRanges(bufferList)
  <2>1. /\ Chained(OffsetMoved(bufferList, curr, b.end), bufferStreamPos)
        /\ Len(OffsetMoved(bufferList, curr, b.end)) = Len(bufferList)
        /\ OffsetMoved(bufferList, curr, b.end)[curr].start = bufferList[curr].start
        /\ OffsetMoved(bufferList, curr, b.end)[curr].end = bufferList[curr].end
        /\ OffsetMoved(bufferList, curr, b.end)[curr].offset = b.end
        /\ \A i \in 1 .. Len(bufferList) :
              i # curr => OffsetMoved(bufferList, curr, b.end)[i] = bufferList[i]
        /\ BufferRanges(OffsetMoved(bufferList, curr, b.end)) = BufferRanges(bufferList)
    BY <1>3, <1>4, <1>5, <1>7, ChainOffset, SMTT(30)
  <2>2. bufferList' = OffsetMoved(bufferList, curr, b.end)
    BY <1>1
  <2> QED
    BY <2>1, <2>2, Zenon DEF u
<1>10. CurrIs(bufferList', curr')
         /\ b.end = (IF curr' = 0 THEN bufferStreamPos ELSE bufferList'[curr'].offset)
  <2>0. \A i \in (curr + 1) .. Len(bufferList) : i \in 1 .. Len(bufferList) /\ i # curr
    BY <1>5
  <2>1. CASE left > Mtu
    <3>1. curr' = curr
      BY <1>1, <1>3, <1>7, <2>1
    <3>2. b.end < u.end /\ u.start <= b.end
      BY <1>6, <1>7, <2>1
    <3>3. \A i \in (curr + 1) .. Len(bufferList') : bufferList'[i].offset = bufferList'[i].start
      BY <1>6, <1>9, <2>0
    <3> QED
      BY <1>5, <1>9, <3>1, <3>2, <3>3 DEF CurrIs
  <2>2. CASE left <= Mtu /\ curr < Len(bufferList)
    <3>1. curr' = curr + 1
      BY <1>1, <1>3, <1>5, <1>7, <2>2
    <3>2. curr + 1 \in 1 .. Len(bufferList) /\ curr + 1 # curr /\ curr + 1 # 0 /\ curr \in 1 .. (Len(bufferList) - 1)
      BY <1>5, <2>2
    <3>3. bufferList'[curr + 1] = bufferList[curr + 1]
      BY <1>9, <3>2
    <3>4. bufferList[curr + 1].offset = bufferList[curr + 1].start
      <4>1. curr + 1 \in (curr + 1) .. Len(bufferList)
        BY <3>2
      <4> QED
        BY <1>6, <4>1
    <3>5. u.end = bufferList[curr + 1].start
      BY <1>4, <3>2 DEF Chained, u
    <3>6. bufferList[curr + 1].start < bufferList[curr + 1].end /\ bufferList[curr + 1].start \in Nat
      BY <1>4, <3>2, BufferFields
    <3>7. \A i \in ((curr + 1) + 1) .. Len(bufferList') : bufferList'[i].offset = bufferList'[i].start
      <4>1. \A i \in ((curr + 1) + 1) .. Len(bufferList') : i \in (curr + 1) .. Len(bufferList)
        BY <1>5, <1>9
      <4> QED
        BY <1>6, <1>9, <2>0, <4>1
    <3>8. curr + 1 \in 0 .. Len(bufferList')
      BY <1>9, <3>2
    <3> QED
      BY <1>7, <2>2, <3>1, <3>2, <3>3, <3>4, <3>5, <3>6, <3>7, <3>8 DEF CurrIs
  <2>3. CASE left <= Mtu /\ curr = Len(bufferList)
    <3>1. curr' = 0
      BY <1>1, <1>3, <1>5, <1>7, <2>3
    <3>2. bufferList # <<>>
      BY <1>5
    <3>3. u.end = bufferStreamPos
      BY <1>4, <2>3, <3>2 DEF Chained, u
    <3> QED
      BY <1>5, <1>7, <1>9, <2>3, <3>1, <3>3 DEF CurrIs
  <2> QED
    BY <1>3, <1>5, <1>7, <2>1, <2>2, <2>3
<1>11. flightBlocks = Elements(ctx.flightBlocks) /\ lostBlocks = Elements(ctx.lostBlocks)
  BY <1>2 DEF ContextShown
<1>12. Sorted(F) /\ Elements(F) = flightBlocks \cup {b}
  <2>1. Before(Elements(ctx.flightBlocks), {b})
    <3>1. \A c \in flightBlocks : c.end <= streamPos
      BY <1>2 DEF IndInv, WellFormed, Blocks
    <3> QED
      BY <1>3, <1>5, <1>7, <1>11, <3>1 DEF Before
  <2>2. Sorted(ctx.flightBlocks)
    BY <1>2 DEF ListsSorted
  <2> QED
    BY <1>7, <1>11, <2>1, <2>2, SortedAppend
<1> HIDE DEF F
<1>13. /\ ctx' \in Context
       /\ ctx'.flightBlocks = F /\ ctx'.lostBlocks = ctx.lostBlocks
       /\ ctx'.flight = ctx.flight + size /\ ctx'.lost = ctx.lost
       /\ ctx'.ackStreamPos = ctx.ackStreamPos /\ ctx'.streamPos = ctx.streamPos + size
       /\ ctx'.latest = ctx.latest /\ ctx'.prevDup = ctx.prevDup /\ ctx'.dup = ctx.dup
  <2>1. ctx \in Context /\ F \in Seq(StreamRange) /\ size \in Nat
    BY <1>2, <1>7, <1>12, SortedBlocks DEF ListsSorted
  <2> QED
    BY <1>1, <2>1, NewFilledContext
<1>14. ListsSorted'
  BY <1>1, <1>2, <1>12, <1>13 DEF ListsSorted
<1>15. Chained(bufferList', bufferStreamPos') /\ CurrIs(bufferList', curr')
  BY <1>1, <1>9, <1>10
<1>16. ListShape'
  <2>1. step' = "idle" /\ lateRest' = <<>> /\ total' = 0
    BY <1>1, <1>2 DEF IdleInv
  <2> QED
    BY <1>14, <1>15, <2>1, ShapeAfter
<1>17. ContextShown' /\ streamPos' = ctx'.streamPos /\ BuffersShown'
  BY <1>14, <1>15, ShownAfter
<1>18. UNCHANGED <<ackStreamPos, lostBlocks, lost, latestAckStreamPos,
                   prevDupAckStreamPos, dupAckTimes, bufferStreamPos, buffers, acked>>
  <2>1. UNCHANGED <<ackStreamPos, latestAckStreamPos, prevDupAckStreamPos, dupAckTimes, lostBlocks, lost>>
    BY <1>2, <1>13, <1>17 DEF ContextShown, DupAckShown, CountersShown
  <2>2. UNCHANGED buffers
    BY <1>2, <1>9, <1>17 DEF BuffersShown, BufferRanges
  <2> QED
    BY <1>1, <2>1, <2>2
<1>19. /\ flightBlocks' = flightBlocks \cup {b}
       /\ flight' = flight + (b.end - b.start)
       /\ streamPos' = streamPos + (b.end - b.start)
       /\ offsetStreamPos' = b.end
       /\ unSendLength' = unSendLength - (b.end - b.start)
  <2>1. flightBlocks' = flightBlocks \cup {b}
    BY <1>12, <1>13, <1>17 DEF ContextShown
  <2>2. flight' = flight + size /\ streamPos' = streamPos + size
    BY <1>2, <1>13, <1>17 DEF ContextShown, CountersShown
  <2>3. offsetStreamPos' = b.end
    BY <1>1, <1>10, <1>17 DEF BuffersShown
  <2> QED
    BY <1>1, <1>8, <2>1, <2>2, <2>3
<1>20. IsCurr(RangeOf(u)) /\ RangeOf(u) \in buffers
  <2>1. RangeOf(u) \in buffers
    BY <1>2, <1>6 DEF BuffersShown, BufferRanges
  <2>2. RangeOf(u).start = u.start /\ RangeOf(u).end = u.end
    BY DEF RangeOf
  <2> QED
    BY <1>5, <1>6, <2>1, <2>2 DEF IsCurr
<1>21. lostBlocks = {}
  BY <1>1, <1>11, SortedEmpty
<1> QED
  <2> DEFINE g == GeneratedBlock(RangeOf(u))
  <2>1. /\ flightBlocks' = flightBlocks \cup {g}
        /\ flight' = flight + (g.end - g.start)
        /\ streamPos' = streamPos + (g.end - g.start)
        /\ offsetStreamPos' = g.end
        /\ unSendLength' = unSendLength - (g.end - g.start)
    BY <1>8, <1>19, Zenon
  <2> HIDE DEF g
  <2>2. \E c \in buffers :
          /\ IsCurr(c)
          /\ /\ flightBlocks' = flightBlocks \cup {GeneratedBlock(c)}
             /\ flight' = flight + (GeneratedBlock(c).end - GeneratedBlock(c).start)
             /\ streamPos' = streamPos + (GeneratedBlock(c).end - GeneratedBlock(c).start)
             /\ offsetStreamPos' = GeneratedBlock(c).end
             /\ unSendLength' = unSendLength - (GeneratedBlock(c).end - GeneratedBlock(c).start)
    BY <1>20, <2>1, Zenon DEF g
  <2> QED
    BY <1>1, <1>16, <1>18, <1>21, <2>2, Zenon DEF FillNewPayload

-----------------------------------------------------------------------------
(* SendQueueMarkRangeTimeout and MoveFlightToLost                           *)

(* A step in the middle of an operation changes no buffer.                 *)
LEMMA BuffersKept ==
  ASSUME BuffersShown, UNCHANGED vars, bufferList' = bufferList, curr' = curr
  PROVE  BuffersShown'
  BY DEF BuffersShown, vars, bufferVars

LEMMA NoLength == TotalLength({}) = 0
<1>1. Bytes({}) = {}
  BY DEF Bytes
<1> QED
  BY <1>1, FS_EmptySet DEF TotalLength

LEMMA MarkBeginList ==
  ASSUME ListInv, L!MarkBegin, UNCHANGED vars
  PROVE  ListShape'
<1>1. /\ step = "idle" /\ step' = "mark" /\ place' = 1
      /\ ctx' = ctx /\ flightRest' = flightRest /\ lostRest' = lostRest /\ lateRest' = lateRest
      /\ total' = total /\ bufferList' = bufferList /\ curr' = curr
  BY DEF L!MarkBegin, L!bufferVars
<1>2. IdleInv /\ ContextShown /\ streamPos = ctx.streamPos /\ ListsSorted /\ BuffersShown
  BY <1>1 DEF ListInv, StepInv, IdleInv
<1>3. /\ ackStreamPos' = ackStreamPos /\ streamPos' = streamPos /\ flightBlocks' = flightBlocks
      /\ lostBlocks' = lostBlocks
  BY DEF vars, contextVars
<1>4. CountersShown' /\ DupAckShown'
  BY <1>1, <1>2 DEF ContextShown, CountersShown, DupAckShown, vars, contextVars
<1>5. Late' = {}
  BY <1>1, <1>2, <1>3 DEF Late, ContextShown
<1>6. LateInv'
  <2>1. total' = 0
    BY <1>1, <1>2 DEF IdleInv
  <2> QED
    BY <1>1, <1>2, <1>3, <1>4, <1>5, <2>1, NoLength DEF LateInv, ContextShown
<1>7. lateRest' = <<>> /\ Elements(lateRest') = {}
  BY <1>1, <1>2, SortedEmpty DEF IdleInv
<1>8. MarkInv'
  <2>1. Len(ctx.flightBlocks) \in Nat
    BY <1>2, SortedBlocks DEF ListsSorted
  <2>2. place' \in 1 .. (Len(ctx'.flightBlocks) + 1)
    BY <1>1, <2>1
  <2>3. Elements(ctx'.lostBlocks) = lostBlocks'
    BY <1>1, <1>2, <1>3 DEF ContextShown
  <2> QED
    BY <1>5, <1>6, <1>7, <2>2, <2>3 DEF MarkInv
<1>9. BuffersShown' /\ ListsSorted' /\ streamPos' = ctx'.streamPos
  BY <1>1, <1>2, <1>3, BuffersKept DEF ListsSorted
<1> QED
  BY <1>1, <1>8, <1>9 DEF ListShape, StepInv

FlightPut(c, F) == [c EXCEPT !.flightBlocks = F]

IsFlightPut(d, c, F) ==
    /\ d \in Context
    /\ d.flightBlocks = F /\ d.lostBlocks = c.lostBlocks
    /\ d.flight = c.flight /\ d.lost = c.lost
    /\ d.ackStreamPos = c.ackStreamPos /\ d.streamPos = c.streamPos
    /\ d.latest = c.latest /\ d.prevDup = c.prevDup /\ d.dup = c.dup

LEMMA FlightPutContext ==
  ASSUME NEW c \in Context, NEW F \in Seq(StreamRange)
  PROVE  IsFlightPut(FlightPut(c, F), c, F)
  BY DEF IsFlightPut, FlightPut, Context

LostPut(c, T) == [c EXCEPT !.lostBlocks = T]

IsLostPut(d, c, T) ==
    /\ d \in Context
    /\ d.flightBlocks = c.flightBlocks /\ d.lostBlocks = T
    /\ d.flight = c.flight /\ d.lost = c.lost
    /\ d.ackStreamPos = c.ackStreamPos /\ d.streamPos = c.streamPos
    /\ d.latest = c.latest /\ d.prevDup = c.prevDup /\ d.dup = c.dup

LEMMA LostPutContext ==
  ASSUME NEW c \in Context, NEW T \in Seq(StreamRange)
  PROVE  IsLostPut(LostPut(c, T), c, T)
  BY DEF IsLostPut, LostPut, Context

(* The late blocks put aside so far, with one more.                        *)
LEMMA LateLength ==
  ASSUME IndInv, NEW S, S \subseteq flightBlocks, NEW b \in flightBlocks, b \notin S
  PROVE  /\ TotalLength(S \cup {b}) = TotalLength(S) + (b.end - b.start)
         /\ TotalLength(S) \in Nat
<1>1. WellFormed(Blocks, streamPos) /\ streamPos \in Nat
  BY DEF IndInv, TypeOK
<1>2. WellFormed(S \cup {b}, streamPos) /\ WellFormed(S, streamPos)
  BY <1>1 DEF WellFormed, Blocks
<1> QED
  BY <1>1, <1>2, LengthAdd, BytesFinite

LEMMA MarkLateList ==
  ASSUME ListInv, L!MarkLate, UNCHANGED vars
  PROVE  ListShape'
<1> DEFINE F == ctx.flightBlocks
           b == F[place]
<1>1. /\ step = "mark" /\ place <= Len(F)
      /\ lateRest' = Append(lateRest, b)
      /\ total' = total + (b.end - b.start)
      /\ ctx' = FlightPut(ctx, L!RemoveAt(F, place))
      /\ step' = step /\ place' = place /\ flightRest' = flightRest /\ lostRest' = lostRest
      /\ bufferList' = bufferList /\ curr' = curr
  BY DEF L!MarkLate, L!bufferVars, L!SizeOf, FlightPut
<1>2. /\ MarkInv /\ LateInv /\ streamPos = ctx.streamPos /\ ListsSorted /\ BuffersShown /\ IndInv
      /\ ctx \in Context
  BY <1>1 DEF ListInv, StepInv, MarkInv, ListsSorted
<1>3. /\ ackStreamPos' = ackStreamPos /\ streamPos' = streamPos /\ flightBlocks' = flightBlocks
      /\ lostBlocks' = lostBlocks
  BY DEF vars, contextVars
<1>4. Len(F) \in Nat /\ place \in 1 .. Len(F) /\ place \in Nat
  <2>1. Len(F) \in Nat
    BY <1>2, SortedBlocks DEF ListsSorted
  <2> QED
    BY <1>1, <1>2, <2>1 DEF MarkInv
<1>5. IsBlock(b) /\ b \in Elements(F) /\ b \in flightBlocks
  BY <1>2, <1>4, SortedBlocks DEF ListsSorted, LateInv
<1> DEFINE G == L!RemoveAt(F, place)
<1>6. /\ Sorted(G)
      /\ Elements(G) = Elements(F) \ {b}
      /\ Len(G) = Len(F) - 1
      /\ \A j \in 1 .. (place - 1) : G[j] = F[j]
      /\ \A j \in place .. (Len(F) - 1) : G[j] = F[j + 1]
  BY <1>2, <1>4, SortedRemove DEF ListsSorted
<1>7. IsFlightPut(ctx', ctx, G)
  <2> HIDE DEF G
  <2>1. G \in Seq(StreamRange)
    BY <1>6, SortedBlocks
  <2>2. IsFlightPut(FlightPut(ctx, G), ctx, G)
    BY <1>2, <2>1, FlightPutContext
  <2>3. ctx' = FlightPut(ctx, G)
    BY <1>1 DEF G
  <2> QED
    BY <2>2, <2>3, Zenon
<1> HIDE DEF G, F, b
<1>8. ctx' \in Context /\ ctx'.flightBlocks = G /\ ctx'.lostBlocks = ctx.lostBlocks
  BY <1>7 DEF IsFlightPut
<1>9. Sorted(lateRest') /\ Elements(lateRest') = Elements(lateRest) \cup {b}
  <2>1. Sorted(lateRest)
    BY <1>2 DEF ListsSorted
  <2>2. Before(Elements(lateRest), {b})
    <3>1. place \in place .. Len(F)
      BY <1>4
    <3> QED
      BY <1>2, <3>1 DEF MarkInv, Before, F, b
  <2>3. Sorted(Append(lateRest, b)) /\ Elements(Append(lateRest, b)) = Elements(lateRest) \cup {b}
    BY <1>5, <2>1, <2>2, SortedAppend
  <2> QED
    BY <1>1, <2>3
<1>10. ListsSorted'
  BY <1>1, <1>2, <1>6, <1>8, <1>9 DEF ListsSorted
<1>11. Late' = Late \cup {b} /\ b \notin Late /\ Late \subseteq flightBlocks
  BY <1>3, <1>5, <1>6, <1>8 DEF Late, F
<1>12. CountersShown' /\ DupAckShown' /\ ackStreamPos' = ctx'.ackStreamPos /\ streamPos' = ctx'.streamPos
  <2>1. /\ CountersShown /\ DupAckShown /\ ackStreamPos = ctx.ackStreamPos /\ streamPos = ctx.streamPos
    BY <1>2 DEF LateInv
  <2> QED
    BY <1>7, <2>1 DEF IsFlightPut, CountersShown, DupAckShown, vars, contextVars
<1>13. LateInv'
  <2>1. Elements(ctx'.flightBlocks) \subseteq flightBlocks'
    BY <1>2, <1>3, <1>6, <1>8 DEF LateInv, F
  <2>2. total = TotalLength(Late)
    BY <1>2 DEF LateInv
  <2>3. TotalLength(Late \cup {b}) = TotalLength(Late) + (b.end - b.start)
    BY <1>2, <1>5, <1>11, LateLength
  <2>4. total' = TotalLength(Late')
    BY <1>1, <1>11, <2>2, <2>3
  <2> QED
    BY <1>12, <2>1, <2>4 DEF LateInv
<1>14. MarkInv'
  <2>1. Elements(ctx'.lostBlocks) = lostBlocks'
    BY <1>2, <1>3, <1>8 DEF MarkInv
  <2>2. Elements(lateRest') = Late'
    BY <1>2, <1>9, <1>11 DEF MarkInv
  <2>3. place' \in 1 .. (Len(G) + 1)
    BY <1>1, <1>4, <1>6
  <2>4. ASSUME NEW j \in place .. Len(G), NEW a \in Elements(lateRest) \cup {b}
        PROVE  a.end <= G[j].start
    <3>1. /\ j \in place .. (Len(F) - 1) /\ j + 1 \in place .. Len(F) /\ j + 1 \in 1 .. Len(F)
          /\ place < j + 1
      BY <1>4, <1>6
    <3>2. G[j] = F[j + 1]
      BY <1>6, <3>1
    <3>3. CASE a \in Elements(lateRest)
      BY <1>2, <3>1, <3>2, <3>3 DEF MarkInv, F
    <3>4. CASE a = b
      <4>1. Sorted(F)
        BY <1>2 DEF ListsSorted, F
      <4>2. F[place].end <= F[j + 1].start
        BY <1>4, <3>1, <4>1, SortedBlocks
      <4> QED
        BY <3>2, <3>4, <4>2 DEF b
    <3> QED
      BY <3>3, <3>4
  <2>5. \A j \in place' .. Len(ctx'.flightBlocks) : \A a \in Elements(lateRest') :
           a.end <= ctx'.flightBlocks[j].start
    BY <1>1, <1>8, <1>9, <2>4
  <2> QED
    BY <1>8, <1>13, <2>1, <2>2, <2>3, <2>5 DEF MarkInv
<1>15. BuffersShown'
  BY <1>1, <1>2, BuffersKept
<1> QED
  BY <1>1, <1>10, <1>12, <1>14, <1>15 DEF ListShape, StepInv

LEMMA MarkStaysList ==
  ASSUME ListInv, L!MarkStays \/ L!MarkEnd, UNCHANGED vars
  PROVE  ListShape'
<1>1. /\ step = "mark"
      /\ ctx' = ctx /\ flightRest' = flightRest /\ lostRest' = lostRest /\ lateRest' = lateRest
      /\ total' = total /\ bufferList' = bufferList /\ curr' = curr
      /\ \/ step' = "mark" /\ place <= Len(ctx.flightBlocks) /\ place' = place + 1
         \/ step' = "splice" /\ place' = 0
  BY DEF L!MarkStays, L!MarkEnd, L!bufferVars
<1>2. /\ MarkInv /\ LateInv /\ streamPos = ctx.streamPos /\ ListsSorted /\ BuffersShown
  BY <1>1 DEF ListInv, StepInv, MarkInv
<1>3. /\ ackStreamPos' = ackStreamPos /\ streamPos' = streamPos /\ flightBlocks' = flightBlocks
      /\ lostBlocks' = lostBlocks
  BY DEF vars, contextVars
<1>4. BuffersShown' /\ ListsSorted' /\ streamPos' = ctx'.streamPos
  BY <1>1, <1>2, <1>3, BuffersKept DEF ListsSorted
<1>5. LateInv' /\ Late' = Late
  BY <1>1, <1>2, <1>3 DEF LateInv, Late, CountersShown, DupAckShown, vars, contextVars
<1>6. Len(ctx.flightBlocks) \in Nat /\ Len(ctx.lostBlocks) \in Nat
  BY <1>2, SortedBlocks DEF ListsSorted
<1>7. CASE step' = "mark"
  <2>1. place <= Len(ctx.flightBlocks) /\ place' = place + 1
    BY <1>1, <1>7
  <2>2. place' \in 1 .. (Len(ctx.flightBlocks) + 1) /\ place' .. Len(ctx.flightBlocks) \subseteq place .. Len(ctx.flightBlocks)
    BY <1>2, <1>6, <2>1 DEF MarkInv
  <2>3. MarkInv'
    BY <1>1, <1>2, <1>3, <1>5, <2>2 DEF MarkInv
  <2> QED
    BY <1>4, <1>7, <2>3 DEF ListShape, StepInv
<1>8. CASE step' = "splice"
  <2>1. place' = 0 /\ place' \in 0 .. Len(ctx.lostBlocks) /\ 1 .. place' = {}
    BY <1>1, <1>6, <1>8
  <2>2. SpliceInv'
    BY <1>1, <1>2, <1>3, <1>5, <2>1 DEF MarkInv, SpliceInv
  <2> QED
    BY <1>4, <1>8, <2>2 DEF ListShape, StepInv
<1> QED
  BY <1>1, <1>7, <1>8

LEMMA SpliceBlockList ==
  ASSUME ListInv, L!SpliceBlock, UNCHANGED vars
  PROVE  ListShape'
<1> DEFINE T  == ctx.lostBlocks
           b  == Head(lateRest)
           at == L!PlaceFor(T, place, b)
           U  == Spliced(T, place, b)
<1>1. /\ step = "splice" /\ lateRest # <<>>
      /\ ctx' = LostPut(ctx, U) /\ place' = at + 1 /\ lateRest' = Tail(lateRest)
      /\ step' = step /\ flightRest' = flightRest /\ lostRest' = lostRest /\ total' = total
      /\ bufferList' = bufferList /\ curr' = curr
  BY Zenon DEF L!SpliceBlock, L!bufferVars, LostPut, Spliced
<1>2. /\ SpliceInv /\ LateInv /\ streamPos = ctx.streamPos /\ ListsSorted /\ BuffersShown /\ IndInv
      /\ ctx \in Context /\ Sorted(T) /\ Sorted(lateRest)
  BY <1>1 DEF ListInv, StepInv, SpliceInv, ListsSorted
<1>3. /\ ackStreamPos' = ackStreamPos /\ streamPos' = streamPos /\ flightBlocks' = flightBlocks
      /\ lostBlocks' = lostBlocks
  BY DEF vars, contextVars
<1>4. /\ Sorted(Tail(lateRest))
      /\ b \in Elements(lateRest) /\ IsBlock(b)
      /\ Elements(Tail(lateRest)) = Elements(lateRest) \ {b}
      /\ Before({b}, Elements(Tail(lateRest)))
  BY <1>1, <1>2, SortedTail
<1> HIDE DEF b, T
<1>5. Apart(Elements(T), {b})
  <2>1. /\ Elements(T) = lostBlocks \cup (Late \ Elements(lateRest))
        /\ Elements(lateRest) \subseteq Late /\ Late \subseteq flightBlocks
    BY <1>2 DEF SpliceInv, Late, T
  <2>2. Elements(T) \subseteq Blocks /\ b \in Blocks /\ b \notin Elements(T)
    BY <1>2, <1>4, <2>1 DEF Blocks, IndInv
  <2> QED
    BY <1>2, <2>2, BlocksApart
<1>6. place \in 0 .. Len(T) /\ \A j \in 1 .. place : T[j].end <= b.start
  BY <1>2, <1>4 DEF SpliceInv, T
<1>7. /\ at \in place .. Len(T)
      /\ Sorted(U)
      /\ Elements(U) = Elements(T) \cup {b}
      /\ Len(U) = Len(T) + 1
      /\ \A j \in 1 .. (at + 1) : U[j].end <= b.end
  BY <1>2, <1>4, <1>5, <1>6, SpliceSorted
<1> HIDE DEF U, at
<1>8. IsLostPut(ctx', ctx, U)
  <2>1. U \in Seq(StreamRange)
    BY <1>7, SortedBlocks
  <2>2. IsLostPut(LostPut(ctx, U), ctx, U)
    BY <1>2, <2>1, LostPutContext
  <2> QED
    BY <1>1, <2>2
<1>9. ctx' \in Context /\ ctx'.lostBlocks = U /\ ctx'.flightBlocks = ctx.flightBlocks
  BY <1>8 DEF IsLostPut
<1>10. ListsSorted'
  BY <1>1, <1>2, <1>4, <1>7, <1>9 DEF ListsSorted
<1>11. LateInv' /\ Late' = Late /\ streamPos' = ctx'.streamPos
  <2>1. Late' = Late
    BY <1>3, <1>9 DEF Late
  <2>2. CountersShown' /\ DupAckShown' /\ ackStreamPos' = ctx'.ackStreamPos /\ streamPos' = ctx'.streamPos
    <3>1. /\ CountersShown /\ DupAckShown /\ ackStreamPos = ctx.ackStreamPos /\ streamPos = ctx.streamPos
      BY <1>2 DEF LateInv
    <3> QED
      BY <1>8, <3>1 DEF IsLostPut, CountersShown, DupAckShown, vars, contextVars
  <2> QED
    BY <1>1, <1>2, <1>3, <1>9, <2>1, <2>2 DEF LateInv
<1>12. SpliceInv'
  <2>1. Elements(lateRest') = Elements(lateRest) \ {b}
    BY <1>1, <1>4
  <2>2. Elements(U) = lostBlocks \cup (Late \ (Elements(lateRest) \ {b})) /\ Elements(lateRest) \subseteq Late
    BY <1>2, <1>4, <1>7 DEF SpliceInv, T
  <2>3. place' \in 0 .. Len(U)
    <3>1. Len(T) \in Nat /\ place \in Nat /\ at \in Nat /\ at <= Len(T)
      <4>1. Len(T) \in Nat
        BY <1>2, SortedBlocks
      <4> QED
        BY <1>6, <1>7, <4>1
    <3> QED
      BY <1>1, <1>7, <3>1
  <2>4. ASSUME NEW j \in 1 .. (at + 1), NEW a \in Elements(lateRest') PROVE U[j].end <= a.start
    <3>1. U[j].end <= b.end /\ b.end <= a.start
      BY <1>1, <1>4, <1>7 DEF Before
    <3>2. a \in Elements(Tail(lateRest))
      BY <1>1
    <3>3. IsBlock(a)
      BY <1>4, <3>2, SortedBlocks
    <3>4. j \in 1 .. Len(U)
      <4>1. Len(T) \in Nat
        BY <1>2, SortedBlocks
      <4> QED
        BY <1>6, <1>7, <4>1
    <3>5. IsBlock(U[j])
      BY <1>7, <3>4, SortedBlocks
    <3>6. U[j].end \in Nat /\ b.end \in Nat /\ a.start \in Nat
      BY <1>4, <3>3, <3>5, BlockFields
    <3> QED
      BY <3>1, <3>6
  <2>5. \A j \in 1 .. place' : \A a \in Elements(lateRest') : ctx'.lostBlocks[j].end <= a.start
    BY <1>1, <1>9, <2>4
  <2> QED
    BY <1>3, <1>9, <1>11, <2>1, <2>2, <2>3, <2>5 DEF SpliceInv
<1>13. BuffersShown'
  BY <1>1, <1>2, BuffersKept
<1> QED
  BY <1>1, <1>10, <1>11, <1>12, <1>13 DEF ListShape, StepInv

Counted(c, n) == [c EXCEPT !.flight = @ - n, !.lost = @ + n]

IsCounted(d, c, n) ==
    /\ d \in Context
    /\ d.flightBlocks = c.flightBlocks /\ d.lostBlocks = c.lostBlocks
    /\ d.flight = c.flight - n /\ d.lost = c.lost + n
    /\ d.ackStreamPos = c.ackStreamPos /\ d.streamPos = c.streamPos
    /\ d.latest = c.latest /\ d.prevDup = c.prevDup /\ d.dup = c.dup

LEMMA CountedContext ==
  ASSUME NEW c \in Context, NEW n \in Nat
  PROVE  IsCounted(Counted(c, n), c, n)
<1>1. c.flight - n \in Int /\ c.lost + n \in Int
  BY DEF Context
<1>2. Counted(c, n) \in Context
  BY <1>1 DEF Counted, Context
<1>3. /\ Counted(c, n).flightBlocks = c.flightBlocks
      /\ Counted(c, n).lostBlocks = c.lostBlocks
      /\ Counted(c, n).flight = c.flight - n
      /\ Counted(c, n).lost = c.lost + n
      /\ Counted(c, n).ackStreamPos = c.ackStreamPos
      /\ Counted(c, n).streamPos = c.streamPos
      /\ Counted(c, n).latest = c.latest
      /\ Counted(c, n).prevDup = c.prevDup
      /\ Counted(c, n).dup = c.dup
  BY DEF Counted, Context
<1> QED
  BY <1>2, <1>3 DEF IsCounted

LEMMA SpliceEndList ==
  ASSUME ListInv, L!SpliceEnd, ShowsLists
  PROVE  /\ Late \in SUBSET flightBlocks
         /\ MarkRangeTimeout(Late) \/ UNCHANGED vars
         /\ ListShape'
<1>1. /\ step = "splice" /\ lateRest = <<>>
      /\ ctx' = Counted(ctx, total)
      /\ bufferList' = bufferList /\ curr' = curr /\ bufferStreamPos' = bufferStreamPos
      /\ unSendLength' = unSendLength /\ acked' = acked
      /\ step' = "idle" /\ flightRest' = <<>> /\ lostRest' = <<>> /\ lateRest' = <<>> /\ total' = 0
  BY DEF L!SpliceEnd, L!LocalsGone, L!MarkCounted, L!bufferVars, Counted
<1>2. /\ SpliceInv /\ LateInv /\ streamPos = ctx.streamPos /\ ListsSorted /\ BuffersShown /\ IndInv
      /\ ctx \in Context
  BY <1>1 DEF ListInv, StepInv, SpliceInv, ListsSorted
<1>3. Late \in SUBSET flightBlocks
  BY DEF Late
<1>4. total = TotalLength(Late) /\ total \in Nat
  <2>1. total = TotalLength(Late)
    BY <1>2 DEF LateInv
  <2>2. WellFormed(Late, streamPos) /\ streamPos \in Nat
    BY <1>2 DEF IndInv, TypeOK, WellFormed, Blocks, Late
  <2> QED
    BY <2>1, <2>2, BytesFinite
<1>5. IsCounted(ctx', ctx, total)
  <2>1. IsCounted(Counted(ctx, total), ctx, total)
    BY <1>2, <1>4, CountedContext
  <2> QED
    BY <1>1, <2>1, Zenon
<1>6. ListsSorted'
  BY <1>1, <1>2, <1>5, SortedEmpty DEF ListsSorted, IsCounted
<1>7. Chained(bufferList', bufferStreamPos') /\ CurrIs(bufferList', curr')
  BY <1>1, <1>2 DEF BuffersShown
<1>8. ListShape'
  BY <1>1, <1>6, <1>7, ShapeAfter
<1>9. ContextShown' /\ streamPos' = ctx'.streamPos /\ BuffersShown'
  BY <1>6, <1>7, ShownAfter
<1>10. UNCHANGED <<ackStreamPos, streamPos, latestAckStreamPos, prevDupAckStreamPos,
                   dupAckTimes, bufferVars, acked>>
  <2>1. UNCHANGED bufferVars
    BY <1>1, <1>2, <1>9 DEF BuffersShown, bufferVars
  <2>2. UNCHANGED <<ackStreamPos, latestAckStreamPos, prevDupAckStreamPos, dupAckTimes>>
    BY <1>2, <1>5, <1>9 DEF ContextShown, DupAckShown, LateInv, IsCounted
  <2> QED
    BY <1>1, <1>2, <1>5, <1>9, <2>1, <2>2 DEF IsCounted
<1>11. /\ flightBlocks' = flightBlocks \ Late
       /\ lostBlocks' = lostBlocks \cup Late
       /\ flight' = flight - TotalLength(Late)
       /\ lost' = lost + TotalLength(Late)
  <2>1. flightBlocks' = Elements(ctx.flightBlocks) /\ lostBlocks' = Elements(ctx.lostBlocks)
    BY <1>5, <1>9 DEF ContextShown, IsCounted
  <2>2. Elements(ctx.flightBlocks) = flightBlocks \ Late
    BY <1>2 DEF LateInv, Late
  <2>3. Elements(ctx.lostBlocks) = lostBlocks \cup Late
    BY <1>1, <1>2, SortedEmpty DEF SpliceInv
  <2>4. flight' = flight - total /\ lost' = lost + total
    BY <1>2, <1>5, <1>9 DEF ContextShown, CountersShown, LateInv, IsCounted
  <2> QED
    BY <1>4, <2>1, <2>2, <2>3, <2>4
<1>12. CASE Late # {}
  BY <1>3, <1>8, <1>10, <1>11, <1>12 DEF MarkRangeTimeout
<1>13. CASE Late = {}
  <2>1. TotalLength(Late) = 0 /\ flight \in Nat /\ lost \in Nat
    BY <1>2, <1>13, NoLength DEF IndInv, TypeOK
  <2>2. UNCHANGED vars
    BY <1>10, <1>11, <1>13, <2>1 DEF vars, contextVars
  <2> QED
    BY <1>3, <1>8, <2>2
<1> QED
  BY <1>12, <1>13

-----------------------------------------------------------------------------
(* The walk of SendQueueConfirmRange: its beginning.                       *)

IsDupCounted(d, c, l, n) ==
    /\ d \in Context
    /\ d.flightBlocks = c.flightBlocks /\ d.lostBlocks = c.lostBlocks
    /\ d.flight = c.flight /\ d.lost = c.lost
    /\ d.ackStreamPos = c.ackStreamPos /\ d.streamPos = c.streamPos
    /\ d.latest = l /\ d.prevDup = c.prevDup /\ d.dup = n

(* The duplicate acks are counted as in SendQueue.tla.                     *)
LEMMA CountedIs ==
  ASSUME ctx \in Context, DupAckShown, NEW ack \in Nat
  PROVE  IsDupCounted(L!Counted(ack), ctx, CountDupAck(ack)[1], CountDupAck(ack)[2])
<1>1. /\ ctx.latest \in Nat /\ ctx.prevDup \in Nat /\ ctx.dup \in Nat
      /\ latestAckStreamPos = ctx.latest /\ prevDupAckStreamPos = ctx.prevDup /\ dupAckTimes = ctx.dup
  BY DEF Context, DupAckShown
<1>2. (ctx.dup + 1) % DupAckModulus \in Nat
  BY <1>1, SendQueueAssumption
<1>3. CASE ctx.prevDup < ack /\ ctx.latest < ack
  <2>1. CountDupAck(ack)[1] = ack /\ CountDupAck(ack)[2] = 1
    BY <1>1, <1>3 DEF CountDupAck
  <2>2. L!Counted(ack) = [ctx EXCEPT !.latest = ack, !.dup = 1]
    BY <1>1, <1>3 DEF L!Counted
  <2>3. IsDupCounted([ctx EXCEPT !.latest = ack, !.dup = 1], ctx, ack, 1)
    BY DEF IsDupCounted, Context
  <2> QED
    BY <2>1, <2>2, <2>3, Zenon
<1>4. CASE ctx.prevDup < ack /\ ctx.latest = ack
  <2> DEFINE n == (ctx.dup + 1) % DupAckModulus
  <2>1. CountDupAck(ack)[1] = ctx.latest /\ CountDupAck(ack)[2] = n
    BY <1>1, <1>4 DEF CountDupAck
  <2>2. L!Counted(ack) = [ctx EXCEPT !.dup = n]
    BY <1>1, <1>4 DEF L!Counted
  <2>3. IsDupCounted([ctx EXCEPT !.dup = n], ctx, ctx.latest, n)
    <3>1. n \in Nat
      BY <1>2
    <3> HIDE DEF n
    <3> QED
      BY <3>1 DEF IsDupCounted, Context
  <2> HIDE DEF n
  <2> QED
    BY <2>1, <2>2, <2>3, Zenon
<1>5. CASE ctx.prevDup >= ack \/ ctx.latest > ack
  <2>1. CountDupAck(ack)[1] = ctx.latest /\ CountDupAck(ack)[2] = ctx.dup
    BY <1>1, <1>5 DEF CountDupAck
  <2>2. L!Counted(ack) = ctx
    BY <1>1, <1>5 DEF L!Counted
  <2>3. IsDupCounted(ctx, ctx, ctx.latest, ctx.dup)
    BY DEF IsDupCounted, Context
  <2> QED
    BY <2>1, <2>2, <2>3, Zenon
<1> QED
  BY <1>1, <1>3, <1>4, <1>5

Emptied(c, ack) ==
    [c EXCEPT !.ackStreamPos = IF @ < ack THEN ack ELSE @, !.flightBlocks = <<>>, !.lostBlocks = <<>>]

IsEmptied(d, c, ack) ==
    /\ d \in Context
    /\ d.flightBlocks = <<>> /\ d.lostBlocks = <<>>
    /\ d.flight = c.flight /\ d.lost = c.lost
    /\ d.ackStreamPos = MaxPos(c.ackStreamPos, ack) /\ d.streamPos = c.streamPos
    /\ d.latest = c.latest /\ d.prevDup = c.prevDup /\ d.dup = c.dup

LEMMA EmptiedContext ==
  ASSUME NEW c \in Context, NEW ack \in Nat
  PROVE  IsEmptied(Emptied(c, ack), c, ack)
<1>1. c.ackStreamPos \in Nat /\ MaxPos(c.ackStreamPos, ack) \in Nat
  BY DEF Context, MaxPos
<1>2. Emptied(c, ack) = [c EXCEPT !.ackStreamPos = MaxPos(c.ackStreamPos, ack),
                                  !.flightBlocks = <<>>, !.lostBlocks = <<>>]
  BY DEF Emptied, MaxPos
<1>3. <<>> \in Seq(StreamRange)
  OBVIOUS
<1> QED
  BY <1>1, <1>2, <1>3 DEF IsEmptied, Context

LEMMA ConfirmBeginList ==
  ASSUME ListInv, NEW ack \in InitStreamPos .. ctx.streamPos, NEW sack \in SackLists(ack),
         L!ConfirmBegin(ack, sack), UNCHANGED vars
  PROVE  ListShape'
<1>1. /\ step = "idle" /\ step' = "walk"
      /\ flightRest' = ctx.flightBlocks /\ lostRest' = ctx.lostBlocks
      /\ ackArg' = ack /\ sackArg' = sack
      /\ ctx' = Emptied(L!Counted(ack), ack)
      /\ lateRest' = lateRest /\ bufferList' = bufferList /\ curr' = curr
  BY Zenon DEF L!ConfirmBegin, L!bufferVars, Emptied
<1>2. IdleInv /\ ContextShown /\ streamPos = ctx.streamPos /\ ListsSorted /\ BuffersShown /\ ctx \in Context
  BY <1>1 DEF ListInv, StepInv, IdleInv, ListsSorted
<1>3. /\ streamPos \in Nat /\ InitStreamPos \in Nat /\ ack \in InitStreamPos .. streamPos /\ ack \in Nat
      /\ flight \in Nat /\ lost \in Nat
  BY <1>2, SendQueueAssumption DEF ListInv, IndInv, TypeOK
<1>4. /\ ackStreamPos' = ackStreamPos /\ streamPos' = streamPos /\ flightBlocks' = flightBlocks
      /\ lostBlocks' = lostBlocks /\ flight' = flight /\ lost' = lost
      /\ latestAckStreamPos' = latestAckStreamPos /\ prevDupAckStreamPos' = prevDupAckStreamPos
      /\ dupAckTimes' = dupAckTimes
  BY DEF vars, contextVars
<1> DEFINE c == L!Counted(ack)
<1>5. IsDupCounted(c, ctx, CountDupAck(ack)[1], CountDupAck(ack)[2])
  BY <1>2, <1>3, CountedIs DEF ContextShown
<1> HIDE DEF c
<1>6. IsEmptied(ctx', c, ack)
  <2>1. c \in Context
    BY <1>5 DEF IsDupCounted
  <2>2. IsEmptied(Emptied(c, ack), c, ack)
    BY <1>3, <2>1, EmptiedContext
  <2> QED
    BY <1>1, <2>2, Zenon DEF c
<1>7. /\ ctx' \in Context /\ ctx'.flightBlocks = <<>> /\ ctx'.lostBlocks = <<>>
      /\ ctx'.flight = flight /\ ctx'.lost = lost /\ ctx'.streamPos = streamPos
      /\ ctx'.ackStreamPos = MaxPos(ackStreamPos, ack)
      /\ ctx'.latest = CountDupAck(ack)[1] /\ ctx'.dup = CountDupAck(ack)[2]
      /\ ctx'.prevDup = prevDupAckStreamPos
  BY <1>2, <1>5, <1>6 DEF IsDupCounted, IsEmptied, ContextShown, CountersShown, DupAckShown
<1>8. BuffersShown' /\ ListsSorted' /\ streamPos' = ctx'.streamPos
  BY <1>1, <1>2, <1>4, <1>7, BuffersKept, SortedEmpty DEF ListsSorted
<1>9. Rest' = Blocks /\ Blocks' = Blocks /\ (Blocks \ Rest)' = {}
  BY <1>1, <1>2, <1>4 DEF Rest, Blocks, ContextShown
<1>10. /\ (CountDupAck(ackArg))' = CountDupAck(ack)
       /\ sackArg' \in SackLists(ackArg)'
       /\ ackArg' \in InitStreamPos .. streamPos'
       /\ ctx'.ackStreamPos = MaxPos(ackStreamPos', ackArg')
  <2>1. SackLists(ackArg)' = SackLists(ack)
    BY <1>1, <1>4 DEF SackLists
  <2> QED
    BY <1>1, <1>3, <1>4, <1>7, <2>1 DEF CountDupAck
<1>11. WalkInv'
  <2>1. ASSUME NEW V PROVE /\ WalkLists(V, flightBlocks, lostBlocks, {}, {}, {})
                           /\ WalkCounts(V, flightBlocks, lostBlocks, {}, flight, lost, flight, lost)
    <3>1. /\ Judged(V, flightBlocks \cap {}, "ACK") \cup Judged(V, flightBlocks \cap {}, "LOST") = {}
          /\ Judged(V, lostBlocks \cap {}, "ACK") = {}
          /\ Judged(V, flightBlocks \cap {}, "LOST") = {}
          /\ Judged(V, flightBlocks \cap {}, "PREV") = {}
          /\ Judged(V, lostBlocks \cap {}, "PREV") = {}
          /\ Judged(V, (flightBlocks \cup lostBlocks) \cap {}, "LOST") = {}
      BY DEF Judged
    <3>2. flight = flight - 0 /\ lost = lost - 0 + 0
      BY <1>3
    <3> QED
      BY <3>1, <3>2, NoLength DEF WalkLists, WalkCounts
  <2>2. ASSUME NEW d, d.latest = CountDupAck(ack)[1], d.dup = CountDupAck(ack)[2], d.prevDup = prevDupAckStreamPos
        PROVE  WalkDup(CountDupAck(ack), {}, prevDupAckStreamPos, d)
    BY <2>2 DEF WalkDup, DupHit
  <2>3. /\ Elements(flightRest') \subseteq flightBlocks' /\ Elements(lostRest') \subseteq lostBlocks'
        /\ Elements(ctx'.flightBlocks) = {} /\ Elements(ctx'.lostBlocks) = {}
    BY <1>1, <1>2, <1>4, <1>7, SortedEmpty DEF ContextShown
  <2>4. /\ Before((Blocks \ Rest)', Rest')
        /\ \A b \in (Blocks \ Rest)' : Verdict'[b] # "OUT_OF_RANGE"
    BY <1>9 DEF Before
  <2>5. /\ WalkLists(Verdict', flightBlocks', lostBlocks', (Blocks \ Rest)',
                     Elements(ctx'.flightBlocks), Elements(ctx'.lostBlocks))
        /\ WalkCounts(Verdict', flightBlocks', lostBlocks', (Blocks \ Rest)',
                      flight', lost', ctx'.flight, ctx'.lost)
    BY <1>4, <1>7, <1>9, <2>1, <2>3
  <2>6. WalkDup((CountDupAck(ackArg))', (Blocks \ Rest)', prevDupAckStreamPos', ctx')
    BY <1>4, <1>7, <1>9, <1>10, <2>2
  <2> QED
    BY <1>10, <2>3, <2>4, <2>5, <2>6, Zenon DEF WalkInv
<1> QED
  BY <1>1, <1>8, <1>11 DEF ListShape, StepInv


-----------------------------------------------------------------------------
(* One turn of the walk.                                                   *)

(* The first of two lists that lie apart begins.                           *)
LEMMA FirstOfTwo ==
  ASSUME NEW s, Sorted(s), s # <<>>, NEW t, Sorted(t),
         t # <<>> => Head(s).end <= Head(t).start
  PROVE  Before({Head(s)}, (Elements(s) \cup Elements(t)) \ {Head(s)})
<1> DEFINE h == Head(s)
<1>1. /\ IsBlock(h) /\ Before({h}, Elements(Tail(s)))
      /\ Elements(Tail(s)) = Elements(s) \ {h}
  BY SortedTail
<1> HIDE DEF h
<1>2. ASSUME NEW x \in Elements(t)
      PROVE  h.end <= x.start
  <2>1. t # <<>>
    BY EmptyElements
  <2> DEFINE g == Head(t)
  <2>2. /\ g \in Elements(t) /\ IsBlock(g) /\ Before({g}, Elements(Tail(t)))
        /\ Elements(Tail(t)) = Elements(t) \ {g} /\ h.end <= g.start
    BY <2>1, SortedTail DEF h
  <2> HIDE DEF g
  <2>3. IsBlock(x)
    BY SortedBlocks
  <2>4. g.start \in Nat /\ g.end \in Nat /\ g.start < g.end /\ x.start \in Nat /\ h.end \in Nat
    BY <1>1, <2>2, <2>3, BlockFields
  <2>5. x = g \/ g.end <= x.start
    BY <2>2 DEF Before
  <2> QED
    BY <2>2, <2>4, <2>5
<1>3. ASSUME NEW x \in (Elements(s) \cup Elements(t)) \ {h}
      PROVE  h.end <= x.start
  BY <1>1, <1>2 DEF Before
<1> QED
  BY <1>3 DEF Before, h

LEMMA NextBlockIs ==
  ASSUME ListInv, step = "walk", flightRest # <<>> \/ lostRest # <<>>
  PROVE  /\ L!NextBlock \in Rest /\ Rest \subseteq Blocks /\ IsBlock(L!NextBlock)
         /\ Before({L!NextBlock}, Rest \ {L!NextBlock})
         /\ L!FromFlight =>
               /\ flightRest # <<>> /\ L!NextBlock = Head(flightRest)
               /\ L!NextBlock \in flightBlocks /\ L!NextBlock \notin lostBlocks
         /\ ~L!FromFlight =>
               /\ lostRest # <<>> /\ L!NextBlock = Head(lostRest)
               /\ L!NextBlock \in lostBlocks /\ L!NextBlock \notin flightBlocks
<1>1. WalkInv /\ Sorted(flightRest) /\ Sorted(lostRest) /\ IndInv
  BY DEF ListInv, StepInv, ListsSorted
<1>2. /\ Elements(flightRest) \subseteq flightBlocks /\ Elements(lostRest) \subseteq lostBlocks
      /\ flightBlocks \cap lostBlocks = {} /\ WellFormed(Blocks, streamPos)
  BY <1>1 DEF WalkInv, IndInv
<1>3. Rest \subseteq Blocks
  BY <1>2 DEF Rest, Blocks
<1>4. CASE L!FromFlight
  <2>1. /\ flightRest # <<>> /\ L!NextBlock = Head(flightRest)
        /\ lostRest = <<>> \/ Head(flightRest).start < Head(lostRest).start
    BY <1>4, Zenon DEF L!FromFlight, L!NextBlock
  <2>2. Head(flightRest) \in Elements(flightRest) /\ IsBlock(Head(flightRest))
    BY <1>1, <2>1, SortedTail
  <2>3. ASSUME lostRest # <<>> PROVE Head(flightRest).end <= Head(lostRest).start
    <3>1. Head(lostRest) \in Elements(lostRest) /\ IsBlock(Head(lostRest))
      BY <1>1, <2>3, SortedTail
    <3> DEFINE g == Head(flightRest)
               h == Head(lostRest)
    <3>2. g \in Blocks /\ h \in Blocks /\ g # h /\ g.start < h.start /\ IsBlock(g) /\ IsBlock(h)
      BY <1>2, <2>1, <2>2, <2>3, <3>1 DEF Blocks
    <3> HIDE DEF g, h
    <3>3. g.end <= h.start \/ h.end <= g.start
      BY <1>2, <3>2 DEF WellFormed
    <3>4. g.start \in Nat /\ h.start \in Nat /\ h.end \in Nat /\ h.start < h.end
      BY <3>2, BlockFields
    <3>5. g.end <= h.start
      BY <3>2, <3>3, <3>4
    <3> QED
      BY <3>5 DEF g, h
  <2>4. Before({Head(flightRest)}, Rest \ {Head(flightRest)})
    BY <1>1, <2>1, <2>3, FirstOfTwo DEF Rest
  <2> QED
    BY <1>2, <1>3, <1>4, <2>1, <2>2, <2>4 DEF Rest
<1>5. CASE ~L!FromFlight
  <2>1. /\ lostRest # <<>> /\ L!NextBlock = Head(lostRest)
        /\ flightRest = <<>> \/ ~(Head(flightRest).start < Head(lostRest).start)
    BY <1>5, Zenon DEF L!FromFlight, L!NextBlock
  <2>2. Head(lostRest) \in Elements(lostRest) /\ IsBlock(Head(lostRest))
    BY <1>1, <2>1, SortedTail
  <2>3. ASSUME flightRest # <<>> PROVE Head(lostRest).end <= Head(flightRest).start
    <3>1. Head(flightRest) \in Elements(flightRest) /\ IsBlock(Head(flightRest))
      BY <1>1, <2>3, SortedTail
    <3> DEFINE g == Head(flightRest)
               h == Head(lostRest)
    <3>2. g \in Blocks /\ h \in Blocks /\ g # h /\ ~(g.start < h.start) /\ IsBlock(g) /\ IsBlock(h)
      BY <1>2, <2>1, <2>2, <2>3, <3>1 DEF Blocks
    <3> HIDE DEF g, h
    <3>3. g.end <= h.start \/ h.end <= g.start
      BY <1>2, <3>2 DEF WellFormed
    <3>4. /\ g.start \in Nat /\ g.end \in Nat /\ h.start \in Nat /\ h.end \in Nat
          /\ h.start < h.end /\ g.start < g.end
      BY <3>2, BlockFields
    <3>5. h.end <= g.start
      BY <3>2, <3>3, <3>4
    <3> QED
      BY <3>5 DEF g, h
  <2>4. Before({Head(lostRest)}, (Elements(lostRest) \cup Elements(flightRest)) \ {Head(lostRest)})
    BY <1>1, <2>1, <2>3, FirstOfTwo
  <2>5. Before({Head(lostRest)}, Rest \ {Head(lostRest)})
    <3>1. Rest = Elements(lostRest) \cup Elements(flightRest)
      BY DEF Rest
    <3> QED
      BY <2>4, <3>1
  <2> QED
    BY <1>2, <1>3, <1>5, <2>1, <2>2, <2>5 DEF Rest
<1> QED
  BY <1>4, <1>5

(* A block found at the position of the fourth equal ack before: no other  *)
(* block begins there.                                                     *)
LEMMA HitOnce ==
  ASSUME ListInv, step = "walk", flightRest # <<>> \/ lostRest # <<>>
  PROVE  /\ L!HitByDup(L!NextBlock) <=>
               /\ L!NextBlock.start = CountDupAck(ackArg)[1] /\ CountDupAck(ackArg)[2] = 4
         /\ L!HitByDup(L!NextBlock) => /\ ~DupHit(CountDupAck(ackArg), Blocks \ Rest)
                                       /\ ctx.latest = CountDupAck(ackArg)[1]
<1> DEFINE b == L!NextBlock
           count == CountDupAck(ackArg)
           D == Blocks \ Rest
<1>1. WalkInv /\ IndInv
  BY DEF ListInv, StepInv
<1>2. /\ b \in Rest /\ IsBlock(b) /\ b \in Blocks
  BY NextBlockIs
<1>3. WalkDup(count, D, prevDupAckStreamPos, ctx)
  BY <1>1, Zenon DEF WalkInv
<1>4. L!HitByDup(b) <=> b.start = ctx.latest /\ ctx.dup = 4
  BY Zenon DEF L!HitByDup
<1>5. WellFormed(Blocks, streamPos) /\ Before(D, Rest)
  BY <1>1 DEF IndInv, WalkInv
<1> HIDE DEF b, count
<1>6. CASE DupHit(count, D)
  <2>1. ctx.dup = 0
    BY <1>3, <1>6 DEF WalkDup
  <2>2. PICK d \in D : d.start = count[1]
    BY <1>6 DEF DupHit
  <2>3. d.end <= b.start /\ d.start < d.end /\ d.start \in Nat /\ d.end \in Nat /\ b.start \in Nat
    BY <1>2, <1>5, <2>2, BlockFields DEF Before, WellFormed, StreamRange
  <2>4. b.start # count[1]
    BY <2>2, <2>3
  <2> QED
    BY <1>4, <2>1, <2>4 DEF b, count
<1>7. CASE ~DupHit(count, D)
  <2>1. ctx.dup = count[2] /\ ctx.latest = count[1]
    BY <1>3, <1>7 DEF WalkDup
  <2> QED
    BY <1>4, <1>7, <2>1 DEF b, count
<1> QED
  BY <1>6, <1>7

(* The state the loop gives the block is the one of SendQueue.tla.         *)
LEMMA NextStateIs ==
  ASSUME ListInv, step = "walk", flightRest # <<>> \/ lostRest # <<>>
  PROVE  /\ L!NextState = Verdict[L!NextBlock]
         /\ L!HitByDup(L!NextBlock) => L!NextState = "LOST"
         /\ L!NextState \in {"ACK", "PREV", "LOST", "OUT_OF_RANGE"}
<1> DEFINE b == L!NextBlock
           count == CountDupAck(ackArg)
<1>1. WalkInv /\ IndInv /\ ctx \in Context
  BY DEF ListInv, StepInv, ListsSorted
<1>2. /\ b \in Blocks /\ IsBlock(b)
  BY NextBlockIs
<1>3. ctx.ackStreamPos \in Nat /\ ctx.ackStreamPos = MaxPos(ackStreamPos, ackArg)
  BY <1>1 DEF WalkInv, Context
<1>4. Sorted(sackArg)
  <2>1. ackArg \in Nat /\ streamPos \in Nat /\ sackArg \in SackLists(ackArg)
    BY <1>1, SendQueueAssumption DEF WalkInv, IndInv, TypeOK
  <2> QED
    BY <2>1, SackOfList
<1>5. L!HitByDup(b) <=> b.start = count[1] /\ count[2] = 4
  BY HitOnce
<1>6. L!CheckBlockStateByAck(b, ctx.ackStreamPos, sackArg)
        = CheckBlockStateByAck(b, ctx.ackStreamPos, Elements(sackArg))
  BY <1>2, <1>3, <1>4, StateByAck
<1>7. L!NextState = IF L!HitByDup(b) THEN "LOST"
                    ELSE L!CheckBlockStateByAck(b, ctx.ackStreamPos, sackArg)
  BY Zenon DEF L!NextState
<1>8. Verdict[b] = WalkState(b, count, ctx.ackStreamPos, Elements(sackArg))
  BY <1>2, <1>3 DEF Verdict
<1> HIDE DEF b, count
<1>9. L!NextState = Verdict[b]
  BY <1>5, <1>6, <1>7, <1>8, Zenon DEF WalkState
<1>10. CheckBlockStateByAck(b, ctx.ackStreamPos, Elements(sackArg)) \in {"ACK", "PREV", "LOST", "OUT_OF_RANGE"}
  <2>1. b.start \in Nat /\ b.end \in Nat /\ b.start < b.end
    BY <1>2, BlockFields
  <2> QED
    BY <1>3, <2>1 DEF CheckBlockStateByAck
<1> QED
  BY <1>6, <1>7, <1>9, <1>10 DEF b

(* One more block judged.                                                  *)
LEMMA JudgedLength ==
  ASSUME NEW B, NEW hi \in Nat, WellFormed(B, hi), NEW S \in SUBSET B, NEW b \in B, b \notin S
  PROVE  /\ TotalLength(S \cup {b}) = TotalLength(S) + (b.end - b.start)
         /\ TotalLength(S) \in Nat
<1>1. WellFormed(S \cup {b}, hi) /\ WellFormed(S, hi)
  BY DEF WellFormed
<1> QED
  BY <1>1, LengthAdd, BytesFinite

(* What the turn of the walk does to both new lists and both counters.     *)
LEMMA WalkTurn ==
  ASSUME NEW V, NEW fb, NEW lb, fb \cap lb = {}, NEW hi \in Nat, WellFormed(fb \cup lb, hi),
         NEW D, NEW b \in fb \cup lb, b \notin D,
         NEW F, NEW T, NEW f0 \in Int, NEW l0 \in Int, NEW f1 \in Int, NEW l1 \in Int,
         WalkLists(V, fb, lb, D, F, T), WalkCounts(V, fb, lb, D, f0, l0, f1, l1),
         NEW n, n = b.end - b.start
  PROVE  /\ V[b] = "ACK" /\ b \in fb =>
               /\ WalkLists(V, fb, lb, D \cup {b}, F, T)
               /\ WalkCounts(V, fb, lb, D \cup {b}, f0, l0, f1 - n, l1)
         /\ V[b] = "ACK" /\ b \in lb =>
               /\ WalkLists(V, fb, lb, D \cup {b}, F, T)
               /\ WalkCounts(V, fb, lb, D \cup {b}, f0, l0, f1, l1 - n)
         /\ V[b] = "PREV" /\ b \in fb =>
               /\ WalkLists(V, fb, lb, D \cup {b}, F \cup {b}, T)
               /\ WalkCounts(V, fb, lb, D \cup {b}, f0, l0, f1, l1)
         /\ V[b] = "LOST" /\ b \in fb =>
               /\ WalkLists(V, fb, lb, D \cup {b}, F, T \cup {b})
               /\ WalkCounts(V, fb, lb, D \cup {b}, f0, l0, f1 - n, l1 + n)
         /\ V[b] \in {"PREV", "LOST"} /\ b \in lb =>
               /\ WalkLists(V, fb, lb, D \cup {b}, F, T \cup {b})
               /\ WalkCounts(V, fb, lb, D \cup {b}, f0, l0, f1, l1)
<1> DEFINE E == D \cup {b}
           FA == Judged(V, fb \cap D, "ACK")
           FL == Judged(V, fb \cap D, "LOST")
           FP == Judged(V, fb \cap D, "PREV")
           LA == Judged(V, lb \cap D, "ACK")
           LP == Judged(V, lb \cap D, "PREV")
           BL == Judged(V, (fb \cup lb) \cap D, "LOST")
<1>1. /\ F = FP /\ T = LP \cup BL
      /\ f1 = f0 - TotalLength(FA \cup FL)
      /\ l1 = l0 - TotalLength(LA) + TotalLength(FL)
  BY DEF WalkLists, WalkCounts
<1>2. /\ FA \cup FL \in SUBSET (fb \cup lb) /\ LA \in SUBSET (fb \cup lb) /\ FL \in SUBSET (fb \cup lb)
      /\ b \notin FA \cup FL /\ b \notin LA /\ b \notin FL
  BY DEF Judged
<1>3. /\ TotalLength((FA \cup FL) \cup {b}) = TotalLength(FA \cup FL) + n
      /\ TotalLength(FA \cup FL) \in Nat
  BY <1>2, JudgedLength, ZenonT(30)
<1>4. TotalLength(LA \cup {b}) = TotalLength(LA) + n /\ TotalLength(LA) \in Nat
  BY <1>2, JudgedLength
<1>5. TotalLength(FL \cup {b}) = TotalLength(FL) + n /\ TotalLength(FL) \in Nat
  BY <1>2, JudgedLength
<1>6. n \in Int
  BY DEF WellFormed, StreamRange
<1>7. /\ FA \cup (FL \cup {b}) = (FA \cup FL) \cup {b} /\ (FA \cup {b}) \cup FL = (FA \cup FL) \cup {b}
      /\ LP \cup (BL \cup {b}) = (LP \cup BL) \cup {b} /\ (LP \cup {b}) \cup BL = (LP \cup BL) \cup {b}
  OBVIOUS
<1> DEFINE a0 == TotalLength(FA \cup FL)
           a1 == TotalLength(LA)
           a2 == TotalLength(FL)
<1>8. /\ a0 \in Nat /\ a1 \in Nat /\ a2 \in Nat
      /\ f1 = f0 - a0 /\ l1 = l0 - a1 + a2
  BY <1>1, <1>3, <1>4, <1>5
<1>9. b \in fb \/ b \in lb
  OBVIOUS
<1>10. ASSUME NEW v
       PROVE  /\ V[b] = v /\ b \in fb => Judged(V, fb \cap E, v) = Judged(V, fb \cap D, v) \cup {b}
              /\ V[b] # v \/ b \notin fb => Judged(V, fb \cap E, v) = Judged(V, fb \cap D, v)
              /\ V[b] = v /\ b \in lb => Judged(V, lb \cap E, v) = Judged(V, lb \cap D, v) \cup {b}
              /\ V[b] # v \/ b \notin lb => Judged(V, lb \cap E, v) = Judged(V, lb \cap D, v)
              /\ V[b] = v => Judged(V, (fb \cup lb) \cap E, v) = Judged(V, (fb \cup lb) \cap D, v) \cup {b}
              /\ V[b] # v => Judged(V, (fb \cup lb) \cap E, v) = Judged(V, (fb \cup lb) \cap D, v)
  <2>1. /\ V[b] = v /\ b \in fb => Judged(V, fb \cap E, v) = Judged(V, fb \cap D, v) \cup {b}
        /\ V[b] # v \/ b \notin fb => Judged(V, fb \cap E, v) = Judged(V, fb \cap D, v)
    BY DEF Judged
  <2>2. /\ V[b] = v /\ b \in lb => Judged(V, lb \cap E, v) = Judged(V, lb \cap D, v) \cup {b}
        /\ V[b] # v \/ b \notin lb => Judged(V, lb \cap E, v) = Judged(V, lb \cap D, v)
    BY DEF Judged
  <2> DEFINE B == fb \cup lb
  <2>3. /\ V[b] = v /\ b \in B => Judged(V, B \cap E, v) = Judged(V, B \cap D, v) \cup {b}
        /\ V[b] # v \/ b \notin B => Judged(V, B \cap E, v) = Judged(V, B \cap D, v)
    <3> HIDE DEF B
    <3> QED
      BY DEF Judged
  <2> QED
    BY <1>9, <2>1, <2>2, <2>3
<1> HIDE DEF E
<1>11. CASE V[b] = "ACK" /\ b \in fb
  <2>1. /\ Judged(V, fb \cap E, "ACK") = FA \cup {b}
        /\ Judged(V, fb \cap E, "LOST") = FL /\ Judged(V, fb \cap E, "PREV") = FP
        /\ Judged(V, lb \cap E, "ACK") = LA /\ Judged(V, lb \cap E, "PREV") = LP
        /\ Judged(V, (fb \cup lb) \cap E, "LOST") = BL
    BY <1>10, <1>11
  <2> HIDE DEF FA, FL, FP, LA, LP, BL
  <2>2. WalkLists(V, fb, lb, E, F, T)
    BY <1>1, <2>1 DEF WalkLists
  <2>3. TotalLength((FA \cup {b}) \cup FL) = a0 + n
    BY <1>3, <1>7
  <2> HIDE DEF a0, a1, a2
  <2>4. f1 - n = f0 - (a0 + n)
    BY <1>6, <1>8
  <2>5. WalkCounts(V, fb, lb, E, f0, l0, f1 - n, l1)
    BY <1>8, <2>1, <2>3, <2>4 DEF WalkCounts, a1, a2
  <2> QED
    BY <1>11, <2>2, <2>5 DEF E
<1>12. CASE V[b] = "ACK" /\ b \in lb
  <2>1. /\ Judged(V, fb \cap E, "ACK") = FA
        /\ Judged(V, fb \cap E, "LOST") = FL /\ Judged(V, fb \cap E, "PREV") = FP
        /\ Judged(V, lb \cap E, "ACK") = LA \cup {b} /\ Judged(V, lb \cap E, "PREV") = LP
        /\ Judged(V, (fb \cup lb) \cap E, "LOST") = BL
    BY <1>10, <1>12
  <2> HIDE DEF FA, FL, FP, LA, LP, BL
  <2>2. WalkLists(V, fb, lb, E, F, T)
    BY <1>1, <2>1 DEF WalkLists
  <2>3. TotalLength(LA \cup {b}) = a1 + n
    BY <1>4
  <2> HIDE DEF a0, a1, a2
  <2>4. l1 - n = l0 - (a1 + n) + a2
    BY <1>6, <1>8
  <2>5. WalkCounts(V, fb, lb, E, f0, l0, f1, l1 - n)
    BY <1>8, <2>1, <2>3, <2>4 DEF WalkCounts, a0, a2
  <2> QED
    BY <1>12, <2>2, <2>5 DEF E
<1>13. CASE V[b] = "PREV" /\ b \in fb
  <2>1. /\ Judged(V, fb \cap E, "ACK") = FA
        /\ Judged(V, fb \cap E, "LOST") = FL /\ Judged(V, fb \cap E, "PREV") = FP \cup {b}
        /\ Judged(V, lb \cap E, "ACK") = LA /\ Judged(V, lb \cap E, "PREV") = LP
        /\ Judged(V, (fb \cup lb) \cap E, "LOST") = BL
    BY <1>10, <1>13
  <2> HIDE DEF FA, FL, FP, LA, LP, BL
  <2>2. WalkLists(V, fb, lb, E, F \cup {b}, T)
    BY <1>1, <2>1 DEF WalkLists
  <2>3. WalkCounts(V, fb, lb, E, f0, l0, f1, l1)
    BY <1>1, <2>1 DEF WalkCounts
  <2> QED
    BY <1>13, <2>2, <2>3 DEF E
<1>14. CASE V[b] = "LOST" /\ b \in fb
  <2>1. /\ Judged(V, fb \cap E, "ACK") = FA
        /\ Judged(V, fb \cap E, "LOST") = FL \cup {b} /\ Judged(V, fb \cap E, "PREV") = FP
        /\ Judged(V, lb \cap E, "ACK") = LA /\ Judged(V, lb \cap E, "PREV") = LP
        /\ Judged(V, (fb \cup lb) \cap E, "LOST") = BL \cup {b}
    BY <1>10, <1>14
  <2> HIDE DEF FA, FL, FP, LA, LP, BL
  <2>2. WalkLists(V, fb, lb, E, F, T \cup {b})
    BY <1>1, <1>7, <2>1 DEF WalkLists
  <2>3. TotalLength(FA \cup (FL \cup {b})) = a0 + n /\ TotalLength(FL \cup {b}) = a2 + n
    BY <1>3, <1>5, <1>7
  <2> HIDE DEF a0, a1, a2
  <2>4. f1 - n = f0 - (a0 + n) /\ l1 + n = l0 - a1 + (a2 + n)
    BY <1>6, <1>8
  <2>5. WalkCounts(V, fb, lb, E, f0, l0, f1 - n, l1 + n)
    BY <1>8, <2>1, <2>3, <2>4 DEF WalkCounts, a1
  <2> QED
    BY <1>14, <2>2, <2>5 DEF E
<1>15. CASE V[b] \in {"PREV", "LOST"} /\ b \in lb
  <2>1. /\ Judged(V, fb \cap E, "ACK") = FA
        /\ Judged(V, fb \cap E, "LOST") = FL /\ Judged(V, fb \cap E, "PREV") = FP
        /\ Judged(V, lb \cap E, "ACK") = LA
        /\ \/ Judged(V, lb \cap E, "PREV") = LP \cup {b} /\ Judged(V, (fb \cup lb) \cap E, "LOST") = BL
           \/ Judged(V, lb \cap E, "PREV") = LP /\ Judged(V, (fb \cup lb) \cap E, "LOST") = BL \cup {b}
    BY <1>10, <1>15
  <2> HIDE DEF FA, FL, FP, LA, LP, BL
  <2>2. WalkLists(V, fb, lb, E, F, T \cup {b})
    BY <1>1, <1>7, <2>1 DEF WalkLists
  <2>3. WalkCounts(V, fb, lb, E, f0, l0, f1, l1)
    BY <1>1, <2>1 DEF WalkCounts
  <2> QED
    BY <1>15, <2>2, <2>3 DEF E
<1> QED
  BY <1>11, <1>12, <1>13, <1>14, <1>15

(* The record operations of the switch.                                    *)
IsTurned(d, c, F, T, f, l) ==
    /\ d \in Context
    /\ d.flightBlocks = F /\ d.lostBlocks = T
    /\ d.flight = f /\ d.lost = l
    /\ d.ackStreamPos = c.ackStreamPos /\ d.streamPos = c.streamPos
    /\ d.latest = c.latest /\ d.prevDup = c.prevDup /\ d.dup = c.dup

FlightLess(c, n) == [c EXCEPT !.flight = @ - n]

LostLess(c, n) == [c EXCEPT !.lost = @ - n]

LostMoved(c, T, n) == [c EXCEPT !.lostBlocks = T, !.flight = @ - n, !.lost = @ + n]

LEMMA TurnedContext ==
  ASSUME NEW c \in Context, NEW F \in Seq(StreamRange), NEW n \in Int
  PROVE  /\ IsTurned(FlightLess(c, n), c, c.flightBlocks, c.lostBlocks, c.flight - n, c.lost)
         /\ IsTurned(LostLess(c, n), c, c.flightBlocks, c.lostBlocks, c.flight, c.lost - n)
         /\ IsTurned(FlightPut(c, F), c, F, c.lostBlocks, c.flight, c.lost)
         /\ IsTurned(LostPut(c, F), c, c.flightBlocks, F, c.flight, c.lost)
         /\ IsTurned(LostMoved(c, F, n), c, c.flightBlocks, F, c.flight - n, c.lost + n)
<1>1. c.flight \in Int /\ c.lost \in Int
  BY DEF Context
<1>2. c.flight - n \in Int /\ c.lost - n \in Int /\ c.lost + n \in Int
  BY <1>1
<1>3. IsTurned(FlightLess(c, n), c, c.flightBlocks, c.lostBlocks, c.flight - n, c.lost)
  <2>1. FlightLess(c, n) \in Context
    BY <1>2 DEF FlightLess, Context
  <2> QED
    BY <2>1 DEF FlightLess, IsTurned, Context
<1>4. IsTurned(LostLess(c, n), c, c.flightBlocks, c.lostBlocks, c.flight, c.lost - n)
  <2>1. LostLess(c, n) \in Context
    BY <1>2 DEF LostLess, Context
  <2> QED
    BY <2>1 DEF LostLess, IsTurned, Context
<1>5. IsTurned(FlightPut(c, F), c, F, c.lostBlocks, c.flight, c.lost)
  BY FlightPutContext DEF IsTurned, IsFlightPut
<1>6. IsTurned(LostPut(c, F), c, c.flightBlocks, F, c.flight, c.lost)
  BY LostPutContext DEF IsTurned, IsLostPut
<1>7. IsTurned(LostMoved(c, F, n), c, c.flightBlocks, F, c.flight - n, c.lost + n)
  <2>1. LostMoved(c, F, n) \in Context
    BY <1>2 DEF LostMoved, Context
  <2> QED
    BY <2>1 DEF LostMoved, IsTurned, Context
<1> QED
  BY <1>3, <1>4, <1>5, <1>6, <1>7

DupGone(c) == [c EXCEPT !.prevDup = c.latest, !.latest = 0, !.dup = 0]

IsDupGone(d, c) ==
    /\ d \in Context
    /\ d.flightBlocks = c.flightBlocks /\ d.lostBlocks = c.lostBlocks
    /\ d.flight = c.flight /\ d.lost = c.lost
    /\ d.ackStreamPos = c.ackStreamPos /\ d.streamPos = c.streamPos
    /\ d.latest = 0 /\ d.prevDup = c.latest /\ d.dup = 0

LEMMA DupGoneContext ==
  ASSUME NEW c \in Context
  PROVE  IsDupGone(DupGone(c), c)
  BY DEF IsDupGone, DupGone, Context

(* The switch: what the turn leaves on the new lists and in the counters.  *)
LEMMA HandledIs ==
  ASSUME ListInv, step = "walk", flightRest # <<>> \/ lostRest # <<>>,
         L!NextState # "OUT_OF_RANGE",
         NEW c \in Context, c.flightBlocks = ctx.flightBlocks, c.lostBlocks = ctx.lostBlocks,
         c.flight = ctx.flight, c.lost = ctx.lost
  PROVE  \E F, T \in Seq(StreamRange), f, l \in Int :
            /\ IsTurned(L!Handled(c), c, F, T, f, l)
            /\ Sorted(F) /\ Sorted(T)
            /\ WalkLists(Verdict, flightBlocks, lostBlocks, (Blocks \ Rest) \cup {L!NextBlock},
                         Elements(F), Elements(T))
            /\ WalkCounts(Verdict, flightBlocks, lostBlocks, (Blocks \ Rest) \cup {L!NextBlock},
                          flight, lost, f, l)
<1> DEFINE b == L!NextBlock
           n == b.end - b.start
           D == Blocks \ Rest
           F == ctx.flightBlocks
           T == ctx.lostBlocks
<1>1. /\ WalkInv /\ IndInv /\ ctx \in Context /\ Sorted(F) /\ Sorted(T)
  BY DEF ListInv, StepInv, ListsSorted
<1>2. /\ b \in Rest /\ Rest \subseteq Blocks /\ IsBlock(b)
      /\ L!FromFlight => b \in flightBlocks /\ b \notin lostBlocks
      /\ ~L!FromFlight => b \in lostBlocks /\ b \notin flightBlocks
  BY NextBlockIs
<1>3. L!NextState = Verdict[b] /\ L!NextState \in {"ACK", "PREV", "LOST"}
  BY NextStateIs
<1>4. /\ WalkLists(Verdict, flightBlocks, lostBlocks, D, Elements(F), Elements(T))
      /\ WalkCounts(Verdict, flightBlocks, lostBlocks, D, flight, lost, ctx.flight, ctx.lost)
      /\ Before(D, Rest)
  BY <1>1, Zenon DEF WalkInv
<1>5. /\ flightBlocks \cap lostBlocks = {} /\ streamPos \in Nat /\ flight \in Int /\ lost \in Int
      /\ WellFormed(flightBlocks \cup lostBlocks, streamPos)
  BY <1>1 DEF IndInv, TypeOK, Blocks
<1>6. ctx.flight \in Int /\ ctx.lost \in Int /\ F \in Seq(StreamRange) /\ T \in Seq(StreamRange)
  BY <1>1 DEF Context
<1> DEFINE V == Verdict
           f == ctx.flight
           l == ctx.lost
<1>7. b \in flightBlocks \cup lostBlocks /\ b \notin D
  BY <1>2 DEF Blocks
<1>8. n \in Int
  BY <1>2, BlockFields
<1>9. L!Handled(c) =
         CASE L!NextState = "ACK" /\ L!FromFlight -> FlightLess(c, n)
           [] L!NextState = "ACK" /\ ~L!FromFlight -> LostLess(c, n)
           [] L!NextState = "PREV" /\ L!FromFlight -> FlightPut(c, Append(c.flightBlocks, b))
           [] L!NextState = "LOST" /\ L!FromFlight -> LostMoved(c, Append(c.lostBlocks, b), n)
           [] L!NextState \in {"PREV", "LOST"} /\ ~L!FromFlight -> LostPut(c, Append(c.lostBlocks, b))
  BY Zenon DEF L!Handled, L!SizeOf, FlightLess, LostLess, FlightPut, LostMoved, LostPut
<1>10. Before(Elements(F), {b}) /\ Before(Elements(T), {b})
  <2>1. Elements(F) \subseteq D /\ Elements(T) \subseteq D
    BY <1>4 DEF WalkLists, Judged
  <2> QED
    BY <1>2, <1>4, <2>1 DEF Before
<1> DEFINE Fb == Append(F, b)
           Tb == Append(T, b)
<1>11. /\ Sorted(Fb) /\ Elements(Fb) = Elements(F) \cup {b}
       /\ Sorted(Tb) /\ Elements(Tb) = Elements(T) \cup {b}
  BY <1>1, <1>2, <1>10, SortedAppend
<1>12. Fb \in Seq(StreamRange) /\ Tb \in Seq(StreamRange)
  BY <1>11, SortedBlocks
<1>13. c.flightBlocks = F /\ c.lostBlocks = T /\ c.flight = f /\ c.lost = l
  OBVIOUS
<1> HIDE DEF b, n, D, F, T, f, l, V, Fb, Tb
<1>14. n = b.end - b.start
  BY DEF n
<1> DEFINE E == D \cup {b}
           Turned(d, G, U, g, m) ==
               /\ IsTurned(d, c, G, U, g, m) /\ Sorted(G) /\ Sorted(U)
               /\ WalkLists(V, flightBlocks, lostBlocks, E, Elements(G), Elements(U))
               /\ WalkCounts(V, flightBlocks, lostBlocks, E, flight, lost, g, m)
<1>15. /\ V[b] = "ACK" /\ b \in flightBlocks =>
               /\ WalkLists(V, flightBlocks, lostBlocks, E, Elements(F), Elements(T))
               /\ WalkCounts(V, flightBlocks, lostBlocks, E, flight, lost, f - n, l)
       /\ V[b] = "ACK" /\ b \in lostBlocks =>
               /\ WalkLists(V, flightBlocks, lostBlocks, E, Elements(F), Elements(T))
               /\ WalkCounts(V, flightBlocks, lostBlocks, E, flight, lost, f, l - n)
       /\ V[b] = "PREV" /\ b \in flightBlocks =>
               /\ WalkLists(V, flightBlocks, lostBlocks, E, Elements(F) \cup {b}, Elements(T))
               /\ WalkCounts(V, flightBlocks, lostBlocks, E, flight, lost, f, l)
       /\ V[b] = "LOST" /\ b \in flightBlocks =>
               /\ WalkLists(V, flightBlocks, lostBlocks, E, Elements(F), Elements(T) \cup {b})
               /\ WalkCounts(V, flightBlocks, lostBlocks, E, flight, lost, f - n, l + n)
       /\ V[b] \in {"PREV", "LOST"} /\ b \in lostBlocks =>
               /\ WalkLists(V, flightBlocks, lostBlocks, E, Elements(F), Elements(T) \cup {b})
               /\ WalkCounts(V, flightBlocks, lostBlocks, E, flight, lost, f, l)
  <2>1. /\ WalkLists(V, flightBlocks, lostBlocks, D, Elements(F), Elements(T))
        /\ WalkCounts(V, flightBlocks, lostBlocks, D, flight, lost, f, l)
    BY <1>4 DEF V, f, l
  <2>2. f \in Int /\ l \in Int
    BY <1>6 DEF f, l
  <2> QED
    BY <1>5, <1>7, <1>14, <2>1, <2>2, WalkTurn
<1>16. \E G, U \in Seq(StreamRange), g, m \in Int : Turned(L!Handled(c), G, U, g, m)
  <2>1. V[b] = L!NextState /\ V[b] \in {"ACK", "PREV", "LOST"}
    BY <1>3 DEF V, b
  <2>2. /\ f \in Int /\ l \in Int /\ f - n \in Int /\ l - n \in Int /\ l + n \in Int
    BY <1>6, <1>8 DEF f, l
  <2>3. F \in Seq(StreamRange) /\ T \in Seq(StreamRange)
    BY <1>6
  <2>4. CASE L!NextState = "ACK" /\ L!FromFlight
    <3>1. L!Handled(c) = FlightLess(c, n)
      BY <1>9, <2>4
    <3>2. IsTurned(FlightLess(c, n), c, F, T, f - n, l)
      BY <1>8, <1>12, <1>13, TurnedContext
    <3>3. IsTurned(L!Handled(c), c, F, T, f - n, l)
      BY <3>1, <3>2, Zenon
    <3>4. Turned(L!Handled(c), F, T, f - n, l)
      BY <1>1, <1>2, <1>15, <2>1, <2>4, <3>3, Zenon DEF b
    <3> HIDE DEF Turned
    <3> QED
      BY <2>2, <2>3, <3>4, Zenon
  <2>5. CASE L!NextState = "ACK" /\ ~L!FromFlight
    <3>1. L!Handled(c) = LostLess(c, n)
      BY <1>9, <2>5
    <3>2. IsTurned(LostLess(c, n), c, F, T, f, l - n)
      BY <1>8, <1>12, <1>13, TurnedContext
    <3>3. IsTurned(L!Handled(c), c, F, T, f, l - n)
      BY <3>1, <3>2, Zenon
    <3>4. Turned(L!Handled(c), F, T, f, l - n)
      BY <1>1, <1>2, <1>15, <2>1, <2>5, <3>3, Zenon DEF b
    <3> HIDE DEF Turned
    <3> QED
      BY <2>2, <2>3, <3>4, Zenon
  <2>6. CASE L!NextState = "PREV" /\ L!FromFlight
    <3>1. L!Handled(c) = FlightPut(c, Fb)
      BY <1>9, <1>13, <2>6 DEF Fb
    <3>2. IsTurned(FlightPut(c, Fb), c, Fb, T, f, l)
      BY <1>8, <1>12, <1>13, TurnedContext
    <3>3. IsTurned(L!Handled(c), c, Fb, T, f, l)
      BY <3>1, <3>2, Zenon
    <3>4. WalkLists(V, flightBlocks, lostBlocks, E, Elements(Fb), Elements(T))
      BY <1>2, <1>11, <1>15, <2>1, <2>6 DEF b
    <3>5. Turned(L!Handled(c), Fb, T, f, l)
      BY <1>1, <1>2, <1>11, <1>15, <2>1, <2>6, <3>3, <3>4, Zenon DEF b
    <3> HIDE DEF Turned
    <3> QED
      BY <1>12, <2>2, <2>3, <3>5, Zenon
  <2>7. CASE L!NextState = "LOST" /\ L!FromFlight
    <3>1. L!Handled(c) = LostMoved(c, Tb, n)
      BY <1>9, <1>13, <2>7 DEF Tb
    <3>2. IsTurned(LostMoved(c, Tb, n), c, F, Tb, f - n, l + n)
      BY <1>8, <1>12, <1>13, TurnedContext
    <3>3. IsTurned(L!Handled(c), c, F, Tb, f - n, l + n)
      BY <3>1, <3>2, Zenon
    <3>4. WalkLists(V, flightBlocks, lostBlocks, E, Elements(F), Elements(Tb))
      BY <1>2, <1>11, <1>15, <2>1, <2>7 DEF b
    <3>5. Turned(L!Handled(c), F, Tb, f - n, l + n)
      BY <1>1, <1>2, <1>11, <1>15, <2>1, <2>7, <3>3, <3>4, Zenon DEF b
    <3> HIDE DEF Turned
    <3> QED
      BY <1>12, <2>2, <2>3, <3>5, Zenon
  <2>8. CASE L!NextState \in {"PREV", "LOST"} /\ ~L!FromFlight
    <3>1. L!Handled(c) = LostPut(c, Tb)
      BY <1>9, <1>13, <2>8 DEF Tb
    <3>2. IsTurned(LostPut(c, Tb), c, F, Tb, f, l)
      BY <1>8, <1>12, <1>13, TurnedContext
    <3>3. IsTurned(L!Handled(c), c, F, Tb, f, l)
      BY <3>1, <3>2, Zenon
    <3>4. WalkLists(V, flightBlocks, lostBlocks, E, Elements(F), Elements(Tb))
      BY <1>2, <1>11, <1>15, <2>1, <2>8 DEF b
    <3>5. Turned(L!Handled(c), F, Tb, f, l)
      BY <1>1, <1>2, <1>11, <1>15, <2>1, <2>8, <3>3, <3>4, Zenon DEF b
    <3> HIDE DEF Turned
    <3> QED
      BY <1>12, <2>2, <2>3, <3>5, Zenon
  <2> QED
    BY <2>1, <2>4, <2>5, <2>6, <2>7, <2>8, Zenon
<1> QED
  BY <1>16, Zenon DEF V, b, D, E, Turned

(* The rest of the lists after the turn.                                   *)
LEMMA RestAfter ==
  ASSUME ListInv, step = "walk", flightRest # <<>> \/ lostRest # <<>>,
         flightRest' = IF L!FromFlight THEN Tail(flightRest) ELSE flightRest,
         lostRest' = IF L!FromFlight THEN lostRest ELSE Tail(lostRest)
  PROVE  /\ Sorted(flightRest') /\ Sorted(lostRest')
         /\ Elements(flightRest') \subseteq Elements(flightRest)
         /\ Elements(lostRest') \subseteq Elements(lostRest)
         /\ Rest' = Rest \ {L!NextBlock}
<1> DEFINE b == L!NextBlock
<1>1. /\ Sorted(flightRest) /\ Sorted(lostRest)
      /\ Elements(flightRest) \subseteq flightBlocks /\ Elements(lostRest) \subseteq lostBlocks
  BY DEF ListInv, StepInv, ListsSorted, WalkInv
<1>2. Rest' = Elements(flightRest') \cup Elements(lostRest')
  BY DEF Rest
<1>3. CASE L!FromFlight
  <2>1. /\ flightRest # <<>> /\ b = Head(flightRest) /\ b \notin lostBlocks
        /\ flightRest' = Tail(flightRest) /\ lostRest' = lostRest
    BY <1>3, NextBlockIs
  <2> HIDE DEF b
  <2>2. Sorted(Tail(flightRest)) /\ Elements(Tail(flightRest)) = Elements(flightRest) \ {b}
    BY <1>1, <2>1, SortedTail
  <2>3. Sorted(flightRest') /\ Elements(flightRest') = Elements(flightRest) \ {b}
    BY <2>1, <2>2
  <2>4. b \notin Elements(lostRest) /\ lostRest' = lostRest
    BY <1>1, <2>1
  <2>5. Rest' = Rest \ {b}
    BY <1>2, <2>3, <2>4 DEF Rest
  <2> QED
    BY <1>1, <2>3, <2>4, <2>5 DEF b
<1>4. CASE ~L!FromFlight
  <2>1. /\ lostRest # <<>> /\ b = Head(lostRest) /\ b \notin flightBlocks
        /\ lostRest' = Tail(lostRest) /\ flightRest' = flightRest
    BY <1>4, NextBlockIs
  <2> HIDE DEF b
  <2>2. Sorted(Tail(lostRest)) /\ Elements(Tail(lostRest)) = Elements(lostRest) \ {b}
    BY <1>1, <2>1, SortedTail
  <2>3. Sorted(lostRest') /\ Elements(lostRest') = Elements(lostRest) \ {b}
    BY <2>1, <2>2
  <2>4. b \notin Elements(flightRest) /\ flightRest' = flightRest
    BY <1>1, <2>1
  <2>5. Rest' = Rest \ {b}
    BY <1>2, <2>3, <2>4 DEF Rest
  <2> QED
    BY <1>1, <2>3, <2>4, <2>5 DEF b
<1> QED
  BY <1>3, <1>4

LEMMA ConfirmBlockList ==
  ASSUME ListInv, L!ConfirmBlock, UNCHANGED vars
  PROVE  ListShape'
<1> DEFINE b == L!NextBlock
           D == Blocks \ Rest
           count == CountDupAck(ackArg)
           c == IF L!HitByDup(b) THEN DupGone(ctx) ELSE ctx
<1>1. /\ step = "walk" /\ ~L!WalkIsOver
      /\ ctx' = L!Handled(c)
      /\ flightRest' = (IF L!FromFlight THEN Tail(flightRest) ELSE flightRest)
      /\ lostRest' = (IF L!FromFlight THEN lostRest ELSE Tail(lostRest))
      /\ step' = step /\ ackArg' = ackArg /\ sackArg' = sackArg /\ lateRest' = lateRest
      /\ bufferList' = bufferList /\ curr' = curr
  BY Zenon DEF L!ConfirmBlock, L!bufferVars, DupGone
<1>2. (flightRest # <<>> \/ lostRest # <<>>) /\ L!NextState # "OUT_OF_RANGE"
  BY <1>1, Zenon DEF L!WalkIsOver
<1>3. /\ WalkInv /\ IndInv /\ ctx \in Context /\ ListsSorted /\ BuffersShown /\ streamPos = ctx.streamPos
  BY <1>1 DEF ListInv, StepInv, ListsSorted
<1>4. /\ b \in Rest /\ Rest \subseteq Blocks /\ IsBlock(b) /\ Before({b}, Rest \ {b})
  BY <1>1, <1>2, NextBlockIs
<1>5. L!NextState = Verdict[b]
  BY <1>1, <1>2, NextStateIs
<1>6. /\ L!HitByDup(b) <=> b.start = count[1] /\ count[2] = 4
      /\ L!HitByDup(b) => ~DupHit(count, D) /\ ctx.latest = count[1]
  BY <1>1, <1>2, HitOnce
<1>7. /\ Sorted(flightRest') /\ Sorted(lostRest')
      /\ Elements(flightRest') \subseteq Elements(flightRest)
      /\ Elements(lostRest') \subseteq Elements(lostRest)
      /\ Rest' = Rest \ {b}
  BY <1>1, <1>2, RestAfter
<1>8. /\ ackStreamPos' = ackStreamPos /\ streamPos' = streamPos /\ flightBlocks' = flightBlocks
      /\ lostBlocks' = lostBlocks /\ flight' = flight /\ lost' = lost
      /\ latestAckStreamPos' = latestAckStreamPos /\ prevDupAckStreamPos' = prevDupAckStreamPos
      /\ dupAckTimes' = dupAckTimes
  BY DEF vars, contextVars
<1>9. IsDupGone(DupGone(ctx), ctx)
  BY <1>3, DupGoneContext
<1>10. /\ c \in Context /\ c.flightBlocks = ctx.flightBlocks /\ c.lostBlocks = ctx.lostBlocks
       /\ c.flight = ctx.flight /\ c.lost = ctx.lost
       /\ c.ackStreamPos = ctx.ackStreamPos /\ c.streamPos = ctx.streamPos
       /\ L!HitByDup(b) => c.latest = 0 /\ c.dup = 0 /\ c.prevDup = ctx.latest
       /\ ~L!HitByDup(b) => c = ctx
  <2>1. CASE L!HitByDup(b)
    <3>1. c = DupGone(ctx)
      BY <2>1
    <3> HIDE DEF c
    <3>2. IsDupGone(c, ctx)
      BY <1>9, <3>1, Zenon
    <3> QED
      BY <2>1, <3>2 DEF IsDupGone
  <2>2. CASE ~L!HitByDup(b)
    BY <1>3, <2>2
  <2> QED
    BY <2>1, <2>2
<1> HIDE DEF b, D, count, c
<1>11. PICK F \in Seq(StreamRange), T \in Seq(StreamRange), f \in Int, l \in Int :
            /\ IsTurned(L!Handled(c), c, F, T, f, l)
            /\ Sorted(F) /\ Sorted(T)
            /\ WalkLists(Verdict, flightBlocks, lostBlocks, D \cup {b}, Elements(F), Elements(T))
            /\ WalkCounts(Verdict, flightBlocks, lostBlocks, D \cup {b}, flight, lost, f, l)
  BY <1>1, <1>2, <1>10, HandledIs DEF D, b
<1>12. IsTurned(ctx', c, F, T, f, l)
  BY <1>1, <1>11, Zenon
<1>13. /\ ctx' \in Context /\ ctx'.flightBlocks = F /\ ctx'.lostBlocks = T
       /\ ctx'.flight = f /\ ctx'.lost = l
       /\ ctx'.ackStreamPos = ctx.ackStreamPos /\ ctx'.streamPos = ctx.streamPos
       /\ ctx'.latest = c.latest /\ ctx'.dup = c.dup /\ ctx'.prevDup = c.prevDup
  BY <1>10, <1>12 DEF IsTurned
<1>14. BuffersShown' /\ ListsSorted' /\ streamPos' = ctx'.streamPos
  BY <1>1, <1>3, <1>7, <1>8, <1>11, <1>13, BuffersKept DEF ListsSorted
<1>15. Blocks' = Blocks /\ (Blocks \ Rest)' = D \cup {b} /\ Verdict' = Verdict /\ b \in Blocks
  <2>1. Blocks' = Blocks
    BY <1>8 DEF Blocks
  <2>2. (Blocks \ Rest)' = D \cup {b}
    BY <1>4, <1>7, <2>1 DEF D
  <2>3. Verdict' = Verdict
    BY <1>1, <1>8, <2>1, Zenon DEF Verdict, WalkState, CountDupAck
  <2> QED
    BY <1>4, <2>1, <2>2, <2>3
<1>16. (CountDupAck(ackArg))' = count
  BY <1>1, <1>8, Zenon DEF CountDupAck, count
<1>17. /\ sackArg' \in SackLists(ackArg)'
       /\ ackArg' \in InitStreamPos .. streamPos'
       /\ ctx'.ackStreamPos = MaxPos(ackStreamPos', ackArg')
  <2>1. SackLists(ackArg)' = SackLists(ackArg)
    BY <1>1, <1>8 DEF SackLists
  <2> QED
    BY <1>1, <1>3, <1>8, <1>13, <2>1 DEF WalkInv
<1>18. WalkInv'
  <2>1. /\ Elements(flightRest') \subseteq flightBlocks' /\ Elements(lostRest') \subseteq lostBlocks'
    BY <1>3, <1>7, <1>8 DEF WalkInv
  <2>2. Before((Blocks \ Rest)', Rest')
    <3>1. Before(D, Rest)
      BY <1>3 DEF WalkInv, D
    <3> QED
      BY <1>4, <1>7, <1>15, <3>1 DEF Before
  <2>3. \A x \in (Blocks \ Rest)' : Verdict'[x] # "OUT_OF_RANGE"
    <3>1. \A x \in D : Verdict[x] # "OUT_OF_RANGE"
      BY <1>3 DEF WalkInv, D
    <3> QED
      BY <1>2, <1>5, <1>15, <3>1
  <2>4. /\ WalkLists(Verdict', flightBlocks', lostBlocks', (Blocks \ Rest)',
                     Elements(ctx'.flightBlocks), Elements(ctx'.lostBlocks))
        /\ WalkCounts(Verdict', flightBlocks', lostBlocks', (Blocks \ Rest)',
                      flight', lost', ctx'.flight, ctx'.lost)
    BY <1>8, <1>11, <1>13, <1>15
  <2>5. WalkDup(count, D \cup {b}, prevDupAckStreamPos, ctx')
    <3>1. WalkDup(count, D, prevDupAckStreamPos, ctx)
      BY <1>3, Zenon DEF WalkInv, D, count
    <3>2. CASE L!HitByDup(b)
      <4>1. DupHit(count, D \cup {b})
        BY <1>6, <3>2 DEF DupHit
      <4> QED
        BY <1>6, <1>10, <1>13, <3>2, <4>1 DEF WalkDup
    <3>3. CASE ~L!HitByDup(b)
      <4>1. DupHit(count, D \cup {b}) <=> DupHit(count, D)
        BY <1>6, <3>3 DEF DupHit
      <4> QED
        BY <1>10, <1>13, <3>1, <3>3, <4>1 DEF WalkDup
    <3> QED
      BY <3>2, <3>3
  <2>6. WalkDup((CountDupAck(ackArg))', (Blocks \ Rest)', prevDupAckStreamPos', ctx')
    BY <1>8, <1>15, <1>16, <2>5
  <2> QED
    BY <1>17, <2>1, <2>2, <2>3, <2>4, <2>6, Zenon DEF WalkInv
<1> QED
  BY <1>1, <1>14, <1>18 DEF ListShape, StepInv

-----------------------------------------------------------------------------
(* The end of the walk.                                                    *)

Joined(c, F, T) == [c EXCEPT !.flightBlocks = F, !.lostBlocks = T]

LEMMA JoinedContext ==
  ASSUME NEW c \in Context, NEW F \in Seq(StreamRange), NEW T \in Seq(StreamRange)
  PROVE  IsTurned(Joined(c, F, T), c, F, T, c.flight, c.lost)
  BY DEF IsTurned, Joined, Context

(* Every block has one of four states.                                     *)
LEMMA VerdictIs ==
  ASSUME IndInv, ackArg \in Nat, NEW b \in Blocks
  PROVE  Verdict[b] \in {"ACK", "PREV", "LOST", "OUT_OF_RANGE"}
<1> DEFINE a == MaxPos(ackStreamPos, ackArg)
           S == Elements(sackArg)
<1>1. b.start \in Nat /\ b.end \in Nat /\ b.start < b.end
  BY DEF IndInv, WellFormed, StreamRange
<1>2. a \in Nat
  BY DEF IndInv, TypeOK, MaxPos
<1> HIDE DEF a, S
<1>3. CheckBlockStateByAck(b, a, S) \in {"ACK", "PREV", "LOST", "OUT_OF_RANGE"}
  BY <1>1, <1>2 DEF CheckBlockStateByAck
<1>4. Verdict[b] = WalkState(b, CountDupAck(ackArg), a, S)
  BY DEF Verdict, a, S
<1> QED
  BY <1>3, <1>4 DEF WalkState

(* The walk stops where SendQueue.tla says it does.                        *)
LEMMA WalkedIs ==
  ASSUME ListInv, step = "walk", L!WalkIsOver
  PROVE  Walked(CountDupAck(ackArg), MaxPos(ackStreamPos, ackArg), Elements(sackArg)) = Blocks \ Rest
<1> DEFINE D == Blocks \ Rest
           W == Walked(CountDupAck(ackArg), MaxPos(ackStreamPos, ackArg), Elements(sackArg))
<1>1. WalkInv /\ IndInv
  BY DEF ListInv, StepInv
<1>2. W = {b \in Blocks : \A c \in Blocks : c.start <= b.start => Verdict[c] # "OUT_OF_RANGE"}
  BY DEF Walked, Verdict
<1>3. /\ Before(D, Rest) /\ \A b \in D : Verdict[b] # "OUT_OF_RANGE"
  BY <1>1 DEF WalkInv
<1>4. \A b \in Blocks : b.start \in Nat /\ b.end \in Nat /\ b.start < b.end
  BY <1>1 DEF IndInv, WellFormed, StreamRange
<1> HIDE DEF W, D
<1>5. ASSUME NEW b \in D PROVE b \in W
  <2>1. b \in Blocks
    BY DEF D
  <2>2. ASSUME NEW c \in Blocks, c.start <= b.start PROVE Verdict[c] # "OUT_OF_RANGE"
    <3>1. CASE c \in Rest
      <4>1. b.end <= c.start
        BY <1>3, <3>1 DEF Before
      <4> QED
        BY <1>4, <2>1, <2>2, <4>1
    <3>2. CASE c \notin Rest
      BY <1>3, <3>2 DEF D
    <3> QED
      BY <3>1, <3>2
  <2> QED
    BY <1>2, <2>1, <2>2
<1>6. ASSUME NEW b \in W, b \in Rest PROVE FALSE
  <2>1. flightRest # <<>> \/ lostRest # <<>>
    BY <1>6, SortedEmpty DEF Rest
  <2> DEFINE n == L!NextBlock
  <2>2. n \in Blocks /\ Before({n}, Rest \ {n})
    BY <2>1, NextBlockIs
  <2>3. L!NextState = "OUT_OF_RANGE"
    BY <2>1, Zenon DEF L!WalkIsOver
  <2>4. Verdict[n] = "OUT_OF_RANGE"
    BY <2>1, <2>3, NextStateIs
  <2> HIDE DEF n
  <2>5. b \in Blocks
    BY <1>2
  <2>6. n.start <= b.start
    <3>1. b = n \/ n.end <= b.start
      BY <1>6, <2>2 DEF Before
    <3> QED
      BY <1>4, <2>2, <2>5, <3>1
  <2> QED
    BY <1>2, <2>2, <2>4, <2>6
<1>7. W \subseteq Blocks
  BY <1>2
<1> QED
  BY <1>5, <1>6, <1>7 DEF W, D

LEMMA ConfirmEndList ==
  ASSUME ListInv, L!ConfirmEnd, ShowsLists
  PROVE  /\ ackArg \in InitStreamPos .. streamPos
         /\ Elements(sackArg) \in Sacks(ackArg)
         /\ ConfirmRange(ackArg, Elements(sackArg))
         /\ ListShape'
<1> DEFINE D == Blocks \ Rest
           S == Elements(sackArg)
           count == CountDupAck(ackArg)
           newAck == MaxPos(ackStreamPos, ackArg)
           F == ctx.flightBlocks
           T == ctx.lostBlocks
<1>1. /\ step = "walk" /\ L!WalkIsOver
      /\ ctx' = Joined(ctx, F \o flightRest, T \o lostRest)
      /\ acked' = acked \cup (InitStreamPos .. (ackArg - 1))
                        \cup UNION {sackArg[i].start .. (sackArg[i].end - 1) : i \in DOMAIN sackArg}
      /\ step' = "idle" /\ flightRest' = <<>> /\ lostRest' = <<>> /\ lateRest' = <<>> /\ total' = 0
      /\ bufferList' = bufferList /\ curr' = curr /\ bufferStreamPos' = bufferStreamPos
      /\ unSendLength' = unSendLength
  BY Zenon DEF L!ConfirmEnd, L!LocalsGone, L!bufferVars, Joined
<1>2. /\ WalkInv /\ IndInv /\ ctx \in Context /\ ListsSorted /\ BuffersShown /\ streamPos = ctx.streamPos
      /\ Sorted(F) /\ Sorted(T) /\ Sorted(flightRest) /\ Sorted(lostRest)
  BY <1>1 DEF ListInv, StepInv, ListsSorted
<1>3. /\ ackArg \in InitStreamPos .. streamPos /\ ackArg \in Nat /\ streamPos \in Nat
      /\ sackArg \in SackLists(ackArg)
  BY <1>2, SendQueueAssumption DEF WalkInv, IndInv, TypeOK
<1>4. /\ S \in Sacks(ackArg)
      /\ Bytes(S) = UNION {sackArg[i].start .. (sackArg[i].end - 1) : i \in DOMAIN sackArg}
  BY <1>3, SackOfList
<1>5. Walked(count, newAck, S) = D
  BY <1>1, WalkedIs
<1>6. /\ WalkLists(Verdict, flightBlocks, lostBlocks, D, Elements(F), Elements(T))
      /\ WalkCounts(Verdict, flightBlocks, lostBlocks, D, flight, lost, ctx.flight, ctx.lost)
      /\ WalkDup(count, D, prevDupAckStreamPos, ctx)
      /\ Before(D, Rest)
      /\ Elements(flightRest) \subseteq flightBlocks /\ Elements(lostRest) \subseteq lostBlocks
      /\ ctx.ackStreamPos = newAck
      /\ \A b \in D : Verdict[b] # "OUT_OF_RANGE"
  BY <1>2, Zenon DEF WalkInv
<1>7. /\ Sorted(F \o flightRest) /\ Elements(F \o flightRest) = Elements(F) \cup Elements(flightRest)
      /\ Sorted(T \o lostRest) /\ Elements(T \o lostRest) = Elements(T) \cup Elements(lostRest)
  <2>1. Elements(F) \subseteq D /\ Elements(T) \subseteq D
    BY <1>6 DEF WalkLists, Judged
  <2>2. Before(Elements(F), Elements(flightRest)) /\ Before(Elements(T), Elements(lostRest))
    BY <1>6, <2>1 DEF Before, Rest
  <2> HIDE DEF F, T
  <2> QED
    BY <1>2, <2>2, SortedConcat
<1>8. /\ ctx' \in Context /\ ctx'.flightBlocks = F \o flightRest /\ ctx'.lostBlocks = T \o lostRest
      /\ ctx'.flight = ctx.flight /\ ctx'.lost = ctx.lost
      /\ ctx'.ackStreamPos = ctx.ackStreamPos /\ ctx'.streamPos = ctx.streamPos
      /\ ctx'.latest = ctx.latest /\ ctx'.dup = ctx.dup /\ ctx'.prevDup = ctx.prevDup
  <2> DEFINE G == F \o flightRest
             U == T \o lostRest
  <2>1. G \in Seq(StreamRange) /\ U \in Seq(StreamRange)
    BY <1>7, SortedBlocks
  <2>2. ctx' = Joined(ctx, G, U)
    BY <1>1
  <2> HIDE DEF G, U
  <2>3. IsTurned(Joined(ctx, G, U), ctx, G, U, ctx.flight, ctx.lost)
    BY <1>2, <2>1, JoinedContext
  <2>4. IsTurned(ctx', ctx, G, U, ctx.flight, ctx.lost)
    BY <2>2, <2>3, Zenon
  <2> QED
    BY <2>4 DEF IsTurned, G, U
<1>9. ListsSorted'
  BY <1>1, <1>7, <1>8, SortedEmpty DEF ListsSorted
<1>10. Chained(bufferList', bufferStreamPos') /\ CurrIs(bufferList', curr')
  BY <1>1, <1>2 DEF BuffersShown
<1>11. ListShape'
  BY <1>1, <1>9, <1>10, ShapeAfter
<1>12. ContextShown' /\ streamPos' = ctx'.streamPos /\ BuffersShown'
  BY <1>9, <1>10, ShownAfter
<1>13. UNCHANGED <<streamPos, bufferVars>>
  <2>1. UNCHANGED bufferVars
    BY <1>1, <1>2, <1>12 DEF BuffersShown, bufferVars
  <2> QED
    BY <1>2, <1>8, <1>12, <2>1
<1>14. /\ flightBlocks' = Elements(F) \cup Elements(flightRest)
       /\ lostBlocks' = Elements(T) \cup Elements(lostRest)
       /\ flight' = ctx.flight /\ lost' = ctx.lost /\ ackStreamPos' = newAck
       /\ latestAckStreamPos' = ctx.latest /\ prevDupAckStreamPos' = ctx.prevDup
       /\ dupAckTimes' = ctx.dup
  BY <1>6, <1>7, <1>8, <1>12 DEF ContextShown, CountersShown, DupAckShown
<1>15. /\ flightBlocks \cap lostBlocks = {}
       /\ \A b \in Blocks : Verdict[b] \in {"ACK", "PREV", "LOST", "OUT_OF_RANGE"}
  BY <1>2, <1>3, VerdictIs DEF IndInv
<1>16. \A b \in Blocks : Verdict[b] = WalkState(b, count, newAck, S)
  BY DEF Verdict
<1>17. acked' = acked \cup (InitStreamPos .. (ackArg - 1)) \cup Bytes(S)
  BY <1>1, <1>4
<1> DEFINE fb == flightBlocks
           lb == lostBlocks
           V == Verdict
           isAcked == {b \in D : V[b] = "ACK"}
           isLost == {b \in D : V[b] = "LOST"}
<1>18. /\ D = (fb \cup lb) \ (Elements(flightRest) \cup Elements(lostRest))
       /\ \A b \in D : V[b] \in {"ACK", "PREV", "LOST"}
  BY <1>6, <1>15 DEF Blocks, Rest
<1>19. /\ isAcked = {b \in D : WalkState(b, count, newAck, S) = "ACK"}
       /\ isLost = {b \in D : WalkState(b, count, newAck, S) = "LOST"}
  BY <1>16
<1> HIDE DEF D, S, count, newAck, F, T, V
<1>20. /\ flightBlocks' = fb \ (isAcked \cup isLost)
       /\ lostBlocks' = (lb \ isAcked) \cup isLost
  <2>1. /\ Elements(F) = {b \in fb \cap D : V[b] = "PREV"}
        /\ Elements(T) = {b \in lb \cap D : V[b] = "PREV"} \cup {b \in (fb \cup lb) \cap D : V[b] = "LOST"}
    BY <1>6 DEF WalkLists, Judged, V
  <2> QED
    BY <1>6, <1>14, <1>15, <1>18, <2>1
<1>21. /\ flight' = flight - TotalLength(fb \cap (isAcked \cup isLost))
       /\ lost' = lost - TotalLength(lb \cap isAcked) + TotalLength(fb \cap isLost)
  <2>1. /\ Judged(V, fb \cap D, "ACK") \cup Judged(V, fb \cap D, "LOST") = fb \cap (isAcked \cup isLost)
        /\ Judged(V, lb \cap D, "ACK") = lb \cap isAcked
        /\ Judged(V, fb \cap D, "LOST") = fb \cap isLost
    BY DEF Judged
  <2>2. /\ ctx.flight = flight - TotalLength(Judged(V, fb \cap D, "ACK") \cup Judged(V, fb \cap D, "LOST"))
        /\ ctx.lost = lost - TotalLength(Judged(V, lb \cap D, "ACK"))
                           + TotalLength(Judged(V, fb \cap D, "LOST"))
    BY <1>6, Zenon DEF WalkCounts, V
  <2> HIDE DEF isAcked, isLost
  <2> QED
    BY <1>14, <2>1, <2>2
<1> DEFINE dupHit == count[2] = 4 /\ \E b \in D : b.start = count[1]
<1>22. /\ latestAckStreamPos' = IF dupHit THEN 0 ELSE count[1]
       /\ prevDupAckStreamPos' = IF dupHit THEN count[1] ELSE prevDupAckStreamPos
       /\ dupAckTimes' = IF dupHit THEN 0 ELSE count[2]
  BY <1>6, <1>14, Zenon DEF WalkDup, DupHit
<1>23. \E seen \in InitStreamPos .. ackStreamPos : ackArg >= seen \/ S # {}
  <2>1. /\ InitStreamPos \in Nat /\ ackStreamPos \in Nat /\ InitStreamPos <= ackStreamPos
        /\ ackArg >= InitStreamPos
    BY <1>2, <1>3, SendQueueAssumption DEF IndInv, TypeOK, PositionsOrdered
  <2> QED
    BY <2>1
<1> HIDE DEF isAcked, isLost, dupHit
<1>24. ConfirmRange(ackArg, S)
  <2> DEFINE walked == Walked(count, newAck, S)
  <2>1. walked = D
    BY <1>5
  <2> HIDE DEF walked
  <2>2. /\ isAcked = {b \in walked : WalkState(b, count, newAck, S) = "ACK"}
        /\ isLost = {b \in walked : WalkState(b, count, newAck, S) = "LOST"}
    BY <1>19, <2>1, Zenon
  <2>3. dupHit <=> (count[2] = 4 /\ \E b \in walked : b.start = count[1])
    BY <2>1, Zenon DEF dupHit
  <2> QED
    BY <1>13, <1>14, <1>17, <1>20, <1>21, <1>22, <1>23, <2>2, <2>3, Zenon
    DEF ConfirmRange, walked, count, newAck
<1> QED
  BY <1>3, <1>4, <1>11, <1>24 DEF S

-----------------------------------------------------------------------------
(* The invariant and the refinement.                                       *)

LEMMA ListInitInv == ListInit => ListInv
<1> SUFFICES ASSUME ListInit PROVE ListInv
  OBVIOUS
<1>1. IndInv
  BY InitInv DEF ListInit
<1>2. /\ ctx = [ackStreamPos |-> InitStreamPos, streamPos |-> InitStreamPos,
                flightBlocks |-> <<>>, lostBlocks |-> <<>>, flight |-> 0, lost |-> 0,
                latest |-> 0, prevDup |-> 0, dup |-> 0]
      /\ bufferList = <<>> /\ curr = 0 /\ step = "idle"
      /\ flightRest = <<>> /\ lostRest = <<>> /\ lateRest = <<>> /\ total = 0
  BY DEF ListInit, L!Init
<1>3. /\ ackStreamPos = InitStreamPos /\ streamPos = InitStreamPos
      /\ flightBlocks = {} /\ lostBlocks = {} /\ flight = 0 /\ lost = 0
      /\ latestAckStreamPos = 0 /\ prevDupAckStreamPos = 0 /\ dupAckTimes = 0
      /\ bufferStreamPos = InitStreamPos /\ offsetStreamPos = InitStreamPos /\ buffers = {}
      /\ InitStreamPos \in Nat
  BY SendQueueAssumption DEF ListInit, Init
<1>4. <<>> \in Seq(StreamRange) /\ <<>> \in Seq(Buffer) /\ Len(<<>>) = 0 /\ 1 .. 0 = {}
  OBVIOUS
<1>5. ctx \in Context
  BY <1>2, <1>3, <1>4 DEF Context
<1>6. /\ ctx.flightBlocks = <<>> /\ ctx.lostBlocks = <<>> /\ ctx.flight = 0 /\ ctx.lost = 0
      /\ ctx.ackStreamPos = InitStreamPos /\ ctx.streamPos = InitStreamPos
      /\ ctx.latest = 0 /\ ctx.prevDup = 0 /\ ctx.dup = 0
  BY <1>2
<1>7. ListsSorted
  BY <1>2, <1>5, <1>6, SortedEmpty DEF ListsSorted
<1>8. Chained(bufferList, bufferStreamPos)
  BY <1>2, <1>4 DEF Chained
<1>9. BuffersShown
  BY <1>2, <1>3, <1>4, <1>8 DEF BuffersShown, CurrIs
<1>10. IdleInv
  BY <1>2, <1>3, <1>6, SortedEmpty DEF IdleInv, ContextShown, CountersShown, DupAckShown
<1>11. StepInv
  BY <1>2, <1>10 DEF StepInv
<1> QED
  BY <1>1, <1>3, <1>6, <1>7, <1>9, <1>11 DEF ListInv

(* Every step of the lists is a step of SendQueue.tla, or none.            *)
LEMMA ListStep ==
  ASSUME ListInv, [ListNext]_<<vars, listVars>>
  PROVE  [Next]_vars /\ ListShape'
<1>1. IndInv /\ streamPos = ctx.streamPos /\ streamPos \in Nat /\ ListShape
  BY DEF ListInv, ListShape, IndInv, TypeOK
<1>2. CASE ShowsLists /\ \E len \in 1 .. (MaxStreamPos - bufferStreamPos) : L!AddBuffer(len)
  <2>1. PICK len \in 1 .. (MaxStreamPos - bufferStreamPos) : L!AddBuffer(len)
    BY <1>2
  <2>2. len \in Nat /\ len > 0
    BY <2>1
  <2>3. AddBuffer(len) /\ ListShape'
    BY <1>2, <2>1, <2>2, AddBufferList
  <2> QED
    BY <2>1, <2>3, Zenon DEF Next
<1>3. CASE ShowsLists /\ L!FillNewPayload
  BY <1>3, FillNewPayloadList, Zenon DEF Next
<1>4. CASE ShowsLists /\ L!FillLostPayload
  BY <1>4, FillLostPayloadList, Zenon DEF Next
<1>5. CASE ShowsLists /\ L!ConfirmEnd
  BY <1>5, ConfirmEndList, Zenon DEF Next
<1>6. CASE ShowsLists /\ L!SpliceEnd
  <2>1. /\ Late \in SUBSET flightBlocks
        /\ MarkRangeTimeout(Late) \/ UNCHANGED vars
        /\ ListShape'
    BY <1>6, SpliceEndList
  <2> QED
    BY <2>1, Zenon DEF Next
<1>7. CASE ShowsLists /\ \E seen \in InitStreamPos .. ctx.ackStreamPos : L!PopCompleteBuffers(seen)
  <2>1. PICK seen \in InitStreamPos .. ctx.ackStreamPos : L!PopCompleteBuffers(seen)
    BY <1>7
  <2>2. PopCompleteBuffers(seen) /\ ListShape' /\ seen \in InitStreamPos .. ackStreamPos
    BY <1>7, <2>1, PopCompleteBuffersList
  <2> QED
    BY <2>2, Zenon DEF Next
<1>8. CASE UNCHANGED vars /\ \E ack \in InitStreamPos .. ctx.streamPos : \E sack \in SackLists(ack) : L!ConfirmBegin(ack, sack)
  BY <1>8, ConfirmBeginList
<1>9. CASE UNCHANGED vars /\ L!ConfirmBlock
  BY <1>9, ConfirmBlockList
<1>10. CASE UNCHANGED vars /\ L!MarkBegin
  BY <1>10, MarkBeginList
<1>11. CASE UNCHANGED vars /\ L!MarkLate
  BY <1>11, MarkLateList
<1>12. CASE UNCHANGED vars /\ (L!MarkStays \/ L!MarkEnd)
  BY <1>12, MarkStaysList
<1>13. CASE UNCHANGED vars /\ L!SpliceBlock
  BY <1>13, SpliceBlockList
<1>14. CASE UNCHANGED <<vars, listVars>>
  <2>1. UNCHANGED vars
    BY <1>14
  <2>2. /\ ackStreamPos' = ackStreamPos /\ streamPos' = streamPos /\ flightBlocks' = flightBlocks
        /\ lostBlocks' = lostBlocks /\ flight' = flight /\ lost' = lost
        /\ latestAckStreamPos' = latestAckStreamPos /\ prevDupAckStreamPos' = prevDupAckStreamPos
        /\ dupAckTimes' = dupAckTimes
        /\ ctx' = ctx /\ bufferList' = bufferList /\ curr' = curr /\ step' = step
        /\ flightRest' = flightRest /\ lostRest' = lostRest /\ ackArg' = ackArg /\ sackArg' = sackArg
        /\ lateRest' = lateRest /\ place' = place /\ total' = total
    BY <1>14 DEF vars, contextVars, listVars
  <2>3. WalkInv' <=> WalkInv
    <3>1. Blocks' = Blocks /\ Rest' = Rest
      BY <2>2 DEF Blocks, Rest
    <3>2. (CountDupAck(ackArg))' = CountDupAck(ackArg) /\ SackLists(ackArg)' = SackLists(ackArg)
      BY <2>2 DEF CountDupAck, SackLists
    <3>3. Verdict' = Verdict
      BY <2>2, <3>1, Zenon DEF Verdict, WalkState, CountDupAck
    <3> QED
      BY <2>2, <3>1, <3>2, <3>3, Zenon DEF WalkInv
  <2>4. IdleInv' <=> IdleInv
    BY <2>2, Zenon DEF IdleInv, ContextShown, CountersShown, DupAckShown
  <2>5. (MarkInv' <=> MarkInv) /\ (SpliceInv' <=> SpliceInv)
    <3>1. Late' = Late
      BY <2>2 DEF Late
    <3>2. LateInv' <=> LateInv
      BY <2>2, <3>1, Zenon DEF LateInv, CountersShown, DupAckShown
    <3> QED
      BY <2>2, <3>1, <3>2, Zenon DEF MarkInv, SpliceInv
  <2>6. BuffersShown' /\ ListsSorted' /\ streamPos' = ctx'.streamPos
    BY <1>1, <2>1, <2>2, BuffersKept DEF ListShape, ListsSorted
  <2>7. ListShape'
    BY <1>1, <2>2, <2>3, <2>4, <2>5, <2>6 DEF ListShape, StepInv
  <2> QED
    BY <2>1, <2>7
<1> QED
  BY <1>2, <1>3, <1>4, <1>5, <1>6, <1>7, <1>8, <1>9, <1>10, <1>11, <1>12, <1>13, <1>14, Zenon
  DEF ListNext, ListOperation, ListLoop

LEMMA ListNextInv == ListInv /\ [ListNext]_<<vars, listVars>> => ListInv'
<1> SUFFICES ASSUME ListInv, [ListNext]_<<vars, listVars>> PROVE ListInv'
  OBVIOUS
<1>1. [Next]_vars /\ ListShape'
  BY ListStep
<1>2. IndInv'
  BY <1>1, NextInv DEF ListInv
<1> QED
  BY <1>1, <1>2, Zenon DEF ListShape, ListInv

LEMMA ListInvariance == ListSpec => []ListInv
<1>1. ListInit => ListInv
  BY ListInitInv
<1>2. ListInv /\ [ListNext]_<<vars, listVars>> => ListInv'
  BY ListNextInv
<1> QED
  BY <1>1, <1>2, PTL DEF ListSpec

(* The flight list and the lost list stay in stream order and without      *)
(* overlap, through the walk of SendQueueConfirmRange that takes them      *)
(* apart and joins them again, the splice of MoveFlightToLost and the      *)
(* sorted insertion of SendQueueMoveLostToFlight.                          *)
THEOREM ListsStayAscending == ListSpec => []ListsAscending
<1>1. ASSUME NEW bs, Sorted(bs) PROVE L!Ascending(bs)
  <2>1. Len(bs) \in Nat
    BY <1>1, SortedBlocks
  <2>2. ASSUME NEW i \in 1 .. (Len(bs) - 1) PROVE bs[i].end <= bs[i + 1].start
    <3>1. i \in 1 .. Len(bs) /\ i + 1 \in 1 .. Len(bs) /\ i < i + 1
      BY <2>1
    <3> QED
      BY <1>1, <3>1, SortedBlocks
  <2> QED
    BY <2>2 DEF L!Ascending
<1>2. ListInv => ListsAscending
  BY <1>1 DEF ListInv, ListsSorted, ListsAscending
<1> QED
  BY <1>2, ListInvariance, PTL

(* The lists of the code do what SendQueue.tla says of the sets: the walk  *)
(* of SendQueueConfirmRange block by block, the marking and splicing of    *)
(* SendQueueMarkRangeTimeout and the popping of buffers have the effect of *)
(* one step of it, on the blocks, the buffers and all counters.            *)
THEOREM ListsImplementSendQueue == ListSpec => ImplementsSendQueue
<1>1. ListInit => Init
  BY DEF ListInit
<1>2. ListInv /\ [ListNext]_<<vars, listVars>> => [Next]_vars
  BY ListStep
<1> QED
  BY <1>1, <1>2, ListInvariance, PTL DEF ListSpec, ImplementsSendQueue, Spec

=============================================================================
