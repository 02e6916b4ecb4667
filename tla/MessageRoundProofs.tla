-------------------------- MODULE MessageRoundProofs --------------------------
(***************************************************************************)
(* Proofs about MessageRound, for any bids, any bandwidth, any number of   *)
(* servers and threads and any lengths of payloads and vectors.            *)
(*                                                                         *)
(* That the winners are those of some auction is all that the slots need.  *)
(* That the payloads arrive needs also what each winner has written and    *)
(* blinded so far (Carrying): no two of the vectors that are summed up,    *)
(* and no two of the servers' shares, have an unknown in common, so the    *)
(* exclusive or of some is their union; the shares then leave of the sum   *)
(* what is of no pad, and in a slot only its own winner has written.       *)
(***************************************************************************)
EXTENDS MessageRound, AuctionProofs

-----------------------------------------------------------------------------
\* The bids have the type of bids, and the winners are those of some bids.
BidsOK == bids \in Seq(BidType)

Sale == winners # None => \E bs \in Seq(BidType) : winners = run_auction(bs)

IInv == BidsOK /\ Sale

LEMMA InvInit == Init => IInv
BY DEF Init, IInv, BidsOK, Sale

LEMMA InvStep ==
  ASSUME IInv, [Next]_vars
  PROVE  IInv'
<1> USE DEF IInv
<1>1. ASSUME NEW bid \in Bids, insert_bid(bid)
      PROVE  IInv'
  <2>1. bid \in BidType
    BY RoundAssumption
  <2>2. bids' \in Seq(BidType) /\ winners' = winners
    BY <1>1, <2>1 DEF insert_bid, BidsOK
  <2> QED BY <2>2 DEF BidsOK, Sale
<1>2. CASE decode_winners
  <2>1. winners' = run_auction(bids) /\ bids' = <<>>
    BY <1>2 DEF decode_winners
  <2> QED BY <2>1 DEF BidsOK, Sale
<1>3. CASE \E n \in PayloadLengths : write_slot(n)
  BY <1>3 DEF write_slot, BidsOK, Sale
<1>4. CASE \E n \in Threads : read_slots(n)
  BY <1>4 DEF read_slots, BidsOK, Sale
<1>5. CASE UNCHANGED vars
  BY <1>5 DEF vars, BidsOK, Sale
<1> QED BY <1>1, <1>2, <1>3, <1>4, <1>5 DEF Next

\* The winners are worth as much as any selection of the valid bids that fits
\* the bandwidth.  With no chunk to sell the code returns before it has looked
\* at the bids, among which may be one of no bytes if min_message_size is 0.
THEOREM AuctionIsOptimal ==
  ASSUME TotalChunks # 0 \/ min_message_size # 0
  PROVE  Spec => []Optimal
<1>1. BidsOK => Optimal
  BY RunAuctionOptimal DEF BidsOK, Optimal
<1>2. IInv => Optimal
  BY <1>1 DEF IInv
<1> QED BY <1>2, InvInit, InvStep, PTL DEF Spec

\* The slots sold follow each other from byte 0, fit the bandwidth and hold the
\* whole bids.
THEOREM SlotsArePartitioned == Spec => []SlotsPartitionVector
<1>1. ASSUME NEW bs \in Seq(BidType), winners = run_auction(bs)
      PROVE  SlotsPartitionVector
  <2>1. RunsWell(bs, winners)
    BY <1>1, RunAuctionFacts
  <2> QED BY <2>1 DEF RunsWell, SlotsPartitionVector
<1>2. IInv => SlotsPartitionVector
  BY <1>1 DEF IInv, Sale, SlotsPartitionVector
<1> QED BY <1>2, InvInit, InvStep, PTL DEF Spec

\* One bid more makes the auction worth more or changes no slot.
THEOREM EarlierBidsStay == Spec => EarlierBidsPreferred
<1> DEFINE Prefers ==
      Len(bids') > Len(bids) =>
        \/ TotalWeight(run_auction(bids')) > TotalWeight(run_auction(bids))
        \/ run_auction(bids') = run_auction(bids)
<1>1. ASSUME IInv, [Next]_vars PROVE Prefers
  <2>1. bids \in Seq(BidType)
    BY <1>1 DEF IInv, BidsOK
  <2>2. ASSUME NEW bid \in Bids, insert_bid(bid) PROVE Prefers
    <3>1. bid \in BidType /\ bids' = Append(bids, bid)
      BY <2>2, RoundAssumption DEF insert_bid
    <3>2. \/ TotalWeight(run_auction(Append(bids, bid))) > TotalWeight(run_auction(bids))
          \/ run_auction(Append(bids, bid)) = run_auction(bids)
      BY <2>1, <3>1, RunAuctionMore
    <3> QED BY <3>1, <3>2, Zenon
  <2>3. CASE decode_winners
    <3>1. bids' = <<>> /\ Len(bids) \in Nat
      BY <2>1, <2>3 DEF decode_winners
    <3> QED BY <3>1
  <2>4. CASE UNCHANGED bids
    <3>1. Len(bids') = Len(bids) /\ Len(bids) \in Nat
      BY <2>1, <2>4
    <3> QED BY <3>1
  <2>5. CASE \E n \in PayloadLengths : write_slot(n)
    BY <2>4, <2>5 DEF write_slot
  <2>6. CASE \E n \in Threads : read_slots(n)
    BY <2>4, <2>6 DEF read_slots
  <2>7. CASE UNCHANGED vars
    BY <2>4, <2>7 DEF vars
  <2> HIDE DEF Prefers
  <2> QED BY <1>1, <2>2, <2>3, <2>5, <2>6, <2>7 DEF Next
<1>2. IInv /\ [Next]_vars => [Prefers]_vars
  BY <1>1
<1>3. [][Prefers]_vars => EarlierBidsPreferred
  BY DEF EarlierBidsPreferred
<1> HIDE DEF Prefers
<1>4. Spec => [][Prefers]_vars
  BY <1>2, InvInit, InvStep, PTL DEF Spec
<1> QED BY <1>3, <1>4, PTL

-----------------------------------------------------------------------------
(***************************************************************************)
(* Sums of vectors of bytes.                                               *)
(***************************************************************************)
\* An unknown: whose payload or pad, which pad, which byte.
Unknown == Nat \X Nat \X Nat

Vecs(n) == [1 .. n -> SUBSET Unknown]

LEMMA XorTyped ==
  ASSUME NEW n \in Nat, NEW l \in Vecs(n), NEW r \in Vecs(n)
  PROVE  /\ XorInplace(l, r) \in Vecs(n)
         /\ \A i \in 1 .. n : \A b :
              b \in XorInplace(l, r)[i] <=> ~(b \in l[i] <=> b \in r[i])
<1>1. \A i \in 1 .. n : XorBytes(l[i], r[i]) \in SUBSET Unknown
  BY DEF Vecs, XorBytes
<1>2. XorInplace(l, r) = [i \in 1 .. n |-> XorBytes(l[i], r[i])]
  BY DEF XorInplace, Vecs
<1>3. XorInplace(l, r) \in Vecs(n)
  BY <1>1, <1>2 DEF Vecs
<1>4. \A i \in 1 .. n : XorInplace(l, r)[i] = XorBytes(l[i], r[i])
  BY <1>2
<1> QED BY <1>3, <1>4 DEF XorBytes

LEMMA ZeroBytesTyped ==
  ASSUME NEW n \in Nat
  PROVE  ZeroBytes(n) \in Vecs(n) /\ \A i \in 1 .. n : \A b : b \notin ZeroBytes(n)[i]
BY DEF ZeroBytes, Vecs

XorSteps(vs, n) == [k \in 1 .. Len(vs) |-> [v \in Vecs(n) |-> XorInplace(v, vs[k])]]

LEMMA XorIsFold ==
  ASSUME NEW n \in Nat, NEW dst \in Vecs(n), NEW vs \in Seq(Vecs(n))
  PROVE  FoldsTo(FoldLeft(XorInplace, dst, vs), Len(vs), Vecs(n), dst, XorSteps(vs, n))
<1> DEFINE m == Len(vs)
           T == Vecs(n)
           g == XorSteps(vs, n)
           body(it) == [x \in SUBSET (1 .. m) |->
                          IF x = {} THEN dst ELSE XorInplace(it[x \ {Max(x)}], vs[Max(x)])]
           j == CHOOSE it : it = body(it)
<1>0. m \in Nat /\ DOMAIN vs = 1 .. m /\ dst \in T /\ \A i \in 1 .. m : vs[i] \in T
  OBVIOUS
<1>1. \A i \in 1 .. m, a \in T : XorInplace(a, vs[i]) \in T
  BY <1>0, XorTyped
<1> HIDE DEF T
<1>2. g \in [1 .. m -> [T -> T]] /\ \A i \in 1 .. m, a \in T : g[i][a] = XorInplace(a, vs[i])
  BY <1>1 DEF XorSteps, T
<1>3. \A x \in SUBSET (1 .. m) : x # {} => Max(x) \in 1 .. m
  BY <1>0, MaxOfPositions
<1> HIDE DEF g
<1>4. PICK it : IsFoldOfSets(it, m, T, dst, g)
  <2> HIDE DEF m
  <2> QED BY <1>0, <1>2, FoldLeftExists
<1>5. it = body(it)
  <2> USE <1>4 DEF IsFoldOfSets
  <2>1. it = [x \in SUBSET (1 .. m) |-> it[x]]
    OBVIOUS
  <2>2. ASSUME NEW x \in SUBSET (1 .. m)
        PROVE  it[x] = IF x = {} THEN dst ELSE XorInplace(it[x \ {Max(x)}], vs[Max(x)])
    <3>1. it[x \ {Max(x)}] \in T
      OBVIOUS
    <3>2. it[x] = IF x = {} THEN dst ELSE g[Max(x)][it[x \ {Max(x)}]]
      OBVIOUS
    <3> QED BY <1>2, <1>3, <3>1, <3>2
  <2> QED BY <2>1, <2>2
<1>6. j = body(j)
  BY <1>5
<1>7. FoldLeft(XorInplace, dst, vs) = j[1 .. m]
  <2>1. j = CHOOSE e : e = [x \in SUBSET DOMAIN vs |->
                              IF x = {} THEN dst ELSE XorInplace(e[x \ {Max(x)}], vs[Max(x)])]
    BY <1>0
  <2> HIDE DEF j
  <2>2. FoldLeft(XorInplace, dst, vs) = j[DOMAIN vs]
    BY <2>1 DEF FoldLeft, MapThenFoldSet
  <2> QED BY <1>0, <2>2
<1> HIDE DEF j
<1>8. \A x \in SUBSET (1 .. m) :
        j[x] = IF x = {} THEN dst ELSE XorInplace(j[x \ {Max(x)}], vs[Max(x)])
  BY <1>6
<1> HIDE DEF body
<1>9. TakesGreatest(j, m, T, dst, g)
  BY <1>2, <1>3, <1>8 DEF TakesGreatest
<1> HIDE DEF m
<1>10. FoldsTo(j[1 .. m], m, T, dst, g)
  BY <1>0, <1>2, <1>9, FoldLeftRuns
<1> QED BY <1>7, <1>10 DEF m, T, g

\* Vectors no two of which have an unknown in the same byte.
Apart(vs, n) ==
  \A i \in 1 .. n : \A j, k \in 1 .. Len(vs) : \A b :
    b \in vs[j][i] /\ b \in vs[k][i] => j = k

\* One of the vectors has the unknown in byte i.
InSome(b, i, vs) == \E k \in 1 .. Len(vs) : b \in vs[k][i]

\* The sum of such vectors has what one of them has.
LEMMA XorOfApart ==
  ASSUME NEW n \in Nat, NEW dst \in Vecs(n), NEW vs \in Seq(Vecs(n)), Apart(vs, n)
  PROVE  /\ FoldLeft(XorInplace, dst, vs) \in Vecs(n)
         /\ \A i \in 1 .. n : \A b :
              b \in FoldLeft(XorInplace, dst, vs)[i] <=> ~(b \in dst[i] <=> InSome(b, i, vs))
<1> DEFINE m == Len(vs)
           T == Vecs(n)
           Some(b, i, k) == \E p \in 1 .. m : p <= k /\ b \in vs[p][i]
<1>1. m \in Nat /\ \A k \in 1 .. m : vs[k] \in T
  OBVIOUS
<1>2. PICK f : IsFold(f, m, T, dst, XorSteps(vs, n)) /\ FoldLeft(XorInplace, dst, vs) = f[m]
  BY XorIsFold DEF FoldsTo
<1>3. /\ f[0] = dst /\ \A k \in 0 .. m : f[k] \in T
      /\ \A k \in 0 .. m - 1 : f[k + 1] = XorInplace(f[k], vs[k + 1])
  <2>1. /\ f \in [0 .. m -> T] /\ f[0] = dst
        /\ \A k \in 0 .. m - 1 : f[k + 1] = XorSteps(vs, n)[k + 1][f[k]]
    BY <1>2 DEF IsFold
  <2>2. \A k \in 0 .. m - 1 : k \in 0 .. m /\ k + 1 \in 1 .. m /\ f[k] \in T
    BY <1>1, <2>1
  <2> QED BY <2>1, <2>2 DEF XorSteps
<1> DEFINE A == {k \in Nat : k <= m =>
                   \A i \in 1 .. n : \A b : b \in f[k][i] <=> ~(b \in dst[i] <=> Some(b, i, k))}
<1> HIDE DEF m, T
<1>4. 0 \in A
  <2>1. \A b, i : ~Some(b, i, 0)
    BY <1>1
  <2> HIDE DEF Some
  <2> QED BY <1>3, <2>1
<1>5. ASSUME NEW k \in Nat, k \in A PROVE k + 1 \in A
  <2> SUFFICES ASSUME k + 1 <= m, NEW i \in 1 .. n, NEW b
               PROVE  b \in f[k + 1][i] <=> ~(b \in dst[i] <=> Some(b, i, k + 1))
    <3> HIDE DEF Some
    <3> QED OBVIOUS
  <2>1. k \in 0 .. m - 1 /\ k \in 0 .. m /\ k + 1 \in 1 .. m /\ k <= m
    BY <1>1
  <2>2. b \in f[k][i] <=> ~(b \in dst[i] <=> Some(b, i, k))
    BY <1>5, <2>1
  <2>3. b \in f[k + 1][i] <=> ~(b \in f[k][i] <=> b \in vs[k + 1][i])
    BY <1>1, <1>3, <2>1, XorTyped DEF T
  <2>4. b \in vs[k + 1][i] => ~Some(b, i, k)
    <3>1. \A p \in 1 .. m : b \in vs[k + 1][i] /\ b \in vs[p][i] => p = k + 1
      BY <2>1 DEF Apart, m
    <3>2. \A p \in 1 .. m : p <= k => p # k + 1
      BY <1>1
    <3> QED BY <3>1, <3>2
  <2>5. Some(b, i, k + 1) <=> Some(b, i, k) \/ b \in vs[k + 1][i]
    <3>1. \A p \in 1 .. m : p <= k + 1 <=> p <= k \/ p = k + 1
      BY <1>1
    <3> QED BY <2>1, <3>1
  <2> HIDE DEF Some
  <2> QED BY <2>2, <2>3, <2>4, <2>5
<1>6. Nat \subseteq A
  <2> HIDE DEF A
  <2> QED BY <1>4, <1>5, NatSetInduction
<1>7. \A i \in 1 .. n : \A b : b \in f[m][i] <=> ~(b \in dst[i] <=> Some(b, i, m))
  BY <1>1, <1>6
<1>8. \A b, i : Some(b, i, m) <=> InSome(b, i, vs)
  <2>1. \A p \in 1 .. m : p <= m
    BY <1>1
  <2> QED BY <2>1 DEF InSome, m
<1>9. f[m] \in T
  BY <1>1, <1>3
<1> HIDE DEF Some
<1> QED BY <1>2, <1>7, <1>8, <1>9 DEF T

-----------------------------------------------------------------------------
(***************************************************************************)
(* Sums in chunks.                                                         *)
(***************************************************************************)
\* Position p of a list is position t of chunk k, and of no other.
LEMMA PlaceInChunk ==
  ASSUME NEW size \in Nat \ {0}, NEW p \in Nat \ {0}
  PROVE  \E k \in Nat \ {0}, t \in 1 .. size : p = ((k - 1) * size) + t
<1>1. /\ (p - 1) \div size \in Nat /\ (p - 1) % size \in 0 .. size - 1
      /\ p - 1 = (size * ((p - 1) \div size)) + ((p - 1) % size)
  OBVIOUS
<1> DEFINE q == (p - 1) \div size
           r == (p - 1) % size
<1>2. q \in Nat /\ r \in 0 .. size - 1 /\ p - 1 = (size * q) + r
  BY <1>1
<1> HIDE DEF q, r
<1>3. size * q = q * size /\ (q + 1) - 1 = q /\ q * size \in Nat
  BY <1>2
<1>4. q + 1 \in Nat \ {0} /\ r + 1 \in 1 .. size /\ p = (((q + 1) - 1) * size) + (r + 1)
  BY <1>2, <1>3
<1> QED BY <1>4

LEMMA ChunkIsUnique ==
  ASSUME NEW size \in Nat \ {0}, NEW j \in Nat, NEW k \in Nat,
         NEW s \in 1 .. size, NEW t \in 1 .. size,
         ((j - 1) * size) + s = ((k - 1) * size) + t
  PROVE  j = k
<1>1. ASSUME NEW a \in Nat, NEW b \in Nat, a < b, NEW u \in 1 .. size, NEW v \in 1 .. size,
             ((a - 1) * size) + u = ((b - 1) * size) + v
      PROVE  FALSE
  <2> DEFINE d == b - a
  <2>1. d \in Nat /\ d >= 1 /\ b - 1 = (a - 1) + d /\ a - 1 \in Int
    BY <1>1
  <2> DEFINE c == a - 1
  <2>2. c \in Int /\ b - 1 = c + d
    BY <2>1
  <2> HIDE DEF d, c
  <2>3. (c + d) * size = (c * size) + (d * size)
    BY <2>1, <2>2
  <2>4. d * size >= size
    <3>1. d = 1 + (d - 1) /\ d - 1 \in Nat
      BY <2>1
    <3> DEFINE e == d - 1
    <3>2. d = 1 + e /\ e \in Nat
      BY <3>1
    <3> HIDE DEF e
    <3>3. (1 + e) * size = size + (e * size) /\ e * size \in Nat
      BY <3>2
    <3> QED BY <3>2, <3>3
  <2>5. c * size \in Int /\ d * size \in Int
    BY <2>1, <2>2
  <2>6. (c * size) + u = ((c * size) + (d * size)) + v
    BY <1>1, <2>2, <2>3 DEF c
  <2> QED BY <2>4, <2>5, <2>6
<1>2. ~(j < k)
  BY <1>1
<1>3. ~(k < j)
  BY <1>1
<1> QED BY <1>2, <1>3

\* The chunks have the elements of the list in order, each up to size of them.
Divides(chunks, vs, size) ==
  /\ \A k \in 1 .. Len(chunks) :
       /\ Len(chunks[k]) <= size
       /\ \A t \in 1 .. Len(chunks[k]) : /\ ((k - 1) * size) + t \in 1 .. Len(vs)
                                         /\ chunks[k][t] = vs[((k - 1) * size) + t]
  /\ \A p \in 1 .. Len(vs) : \E k \in 1 .. Len(chunks) : \E t \in 1 .. Len(chunks[k]) :
       p = ((k - 1) * size) + t

LEMMA ChunksHold ==
  ASSUME NEW T, NEW vs \in Seq(T), NEW size \in Nat \ {0}
  PROVE  /\ ParChunks(vs, size) \in Seq(Seq(T))
         /\ Divides(ParChunks(vs, size), vs, size)
<1> DEFINE len == Len(vs)
           q == DivCeil(len, size)
           end(k) == IF k * size < len THEN k * size ELSE len
           chunk(k) == SubSeq(vs, (k - 1) * size + 1, end(k))
<1>1. len \in Nat /\ DOMAIN vs = 1 .. len /\ \A i \in 1 .. len : vs[i] \in T
  OBVIOUS
<1>2. q \in Nat /\ q * size >= len
  BY <1>1, Quotients DEF DivCeil
<1>3. ParChunks(vs, size) = [k \in 1 .. q |-> chunk(k)]
  BY DEF ParChunks
<1>4. ASSUME NEW k \in Nat \ {0}
      PROVE  /\ chunk(k) \in Seq(T) /\ Len(chunk(k)) <= size
             /\ \A t \in 1 .. Len(chunk(k)) :
                  /\ ((k - 1) * size) + t \in 1 .. len
                  /\ chunk(k)[t] = vs[((k - 1) * size) + t]
             /\ \A t \in 1 .. size : ((k - 1) * size) + t <= len => t \in 1 .. Len(chunk(k))
  <2> DEFINE a == (k - 1) * size
             e == end(k)
  <2>1. k * size = a + size /\ a \in Nat
    <3>1. k - 1 \in Nat /\ k = (k - 1) + 1
      OBVIOUS
    <3> DEFINE c == k - 1
    <3>2. c \in Nat /\ k = c + 1
      BY <3>1
    <3> HIDE DEF c
    <3>3. (c + 1) * size = (c * size) + size /\ c * size \in Nat
      BY <3>2
    <3> QED BY <3>2, <3>3 DEF c
  <2>2. /\ e \in Nat /\ e <= len /\ e <= a + size
        /\ \A t \in 1 .. size : a + t <= len => a + t <= e
    BY <1>1, <2>1
  <2>3. chunk(k) = SubSeq(vs, a + 1, e)
    OBVIOUS
  <2> HIDE DEF a, e, chunk
  <2>4. SubSeq(vs, a + 1, e) \in Seq(T)
    BY <1>1, <2>1, <2>2
  <2>5. Len(SubSeq(vs, a + 1, e)) = IF a < e THEN e - a ELSE 0
    BY <1>1, <2>1, <2>2
  <2>6. \A t \in 1 .. Len(SubSeq(vs, a + 1, e)) : SubSeq(vs, a + 1, e)[t] = vs[a + t]
    BY <1>1, <2>1, <2>2, <2>5
  <2>7. \A t \in 1 .. Len(SubSeq(vs, a + 1, e)) : a + t \in 1 .. len
    BY <1>1, <2>1, <2>2, <2>5
  <2>8. Len(SubSeq(vs, a + 1, e)) <= size
    BY <2>1, <2>2, <2>5
  <2>9. \A t \in 1 .. size : a + t <= len => t \in 1 .. Len(SubSeq(vs, a + 1, e))
    BY <1>1, <2>1, <2>2, <2>5
  <2> QED BY <2>3, <2>4, <2>6, <2>7, <2>8, <2>9 DEF a
<1> HIDE DEF chunk, q, len
<1>5. \A k \in 1 .. q : k \in Nat \ {0}
  BY <1>2
<1>6. /\ Len(ParChunks(vs, size)) = q /\ ParChunks(vs, size) \in Seq(Seq(T))
      /\ \A k \in 1 .. q : ParChunks(vs, size)[k] = chunk(k)
  BY <1>2, <1>3, <1>4, <1>5
<1>7. ASSUME NEW p \in 1 .. len
      PROVE  \E k \in 1 .. q : \E t \in 1 .. Len(chunk(k)) : p = ((k - 1) * size) + t
  <2>1. p \in Nat \ {0} /\ p <= len
    BY <1>1
  <2>2. PICK k \in Nat \ {0}, t \in 1 .. size : p = ((k - 1) * size) + t
    BY <2>1, PlaceInChunk
  <2>3. t \in 1 .. Len(chunk(k))
    BY <1>4, <2>1, <2>2
  <2>4. k <= q
    <3> SUFFICES ASSUME k > q PROVE FALSE
      BY <1>2
    <3> DEFINE c == k - 1
               d == c - q
    <3>1. c \in Nat /\ d \in Nat /\ c = q + d
      BY <1>2
    <3>2. p = (c * size) + t
      BY <2>2
    <3> HIDE DEF c, d
    <3>3. (q + d) * size = (q * size) + (d * size) /\ d * size \in Nat /\ q * size \in Nat
      BY <1>2, <3>1
    <3> QED BY <1>1, <1>2, <2>1, <3>1, <3>2, <3>3
  <2> QED BY <1>2, <2>2, <2>3, <2>4
<1>8. Divides(ParChunks(vs, size), vs, size)
  <2> DEFINE P == ParChunks(vs, size)
  <2>1. \A k \in 1 .. Len(P) : k \in 1 .. q /\ k \in Nat \ {0} /\ P[k] = chunk(k)
    BY <1>5, <1>6
  <2>2. ASSUME NEW k \in 1 .. Len(P)
        PROVE  /\ Len(P[k]) <= size
               /\ \A t \in 1 .. Len(P[k]) : /\ ((k - 1) * size) + t \in 1 .. len
                                            /\ P[k][t] = vs[((k - 1) * size) + t]
    BY <1>4, <2>1
  <2>3. \A p \in 1 .. len : \E k \in 1 .. Len(P) : \E t \in 1 .. Len(P[k]) :
           p = ((k - 1) * size) + t
    BY <1>6, <1>7
  <2> HIDE DEF P
  <2>4. Divides(P, vs, size)
    BY <2>2, <2>3 DEF Divides, len
  <2> QED BY <2>4 DEF P
<1> QED BY <1>6, <1>8

\* In one thread or in several, the sum is the sum.
LEMMA AggregateOfApart ==
  ASSUME NEW n \in Nat, NEW vs \in Seq(Vecs(n)), Apart(vs, n), NEW n_threads \in Nat \ {0}
  PROVE  /\ AggregateInto(ZeroBytes(n), vs, n_threads) \in Vecs(n)
         /\ \A i \in 1 .. n : \A b :
              b \in AggregateInto(ZeroBytes(n), vs, n_threads)[i] <=> InSome(b, i, vs)
<1> DEFINE zero == ZeroBytes(n)
           size == DivCeil(Len(vs), n_threads)
           chunks == ParChunks(vs, size)
           q == Len(chunks)
           sums == [k \in DOMAIN chunks |-> FoldLeft(XorInplace, zero, chunks[k])]
<1>1. zero \in Vecs(n) /\ Len(zero) = n /\ \A i \in 1 .. n : \A b : b \notin zero[i]
  BY ZeroBytesTyped DEF ZeroBytes
<1>2. AggregateInto(zero, vs, n_threads) =
        IF InParallel(vs, n_threads) THEN FoldLeft(XorInplace, zero, sums)
                                     ELSE FoldLeft(XorInplace, zero, vs)
  BY <1>1 DEF AggregateInto, Chunked
<1>3. CASE ~InParallel(vs, n_threads)
  <2>1. AggregateInto(zero, vs, n_threads) = FoldLeft(XorInplace, zero, vs)
    BY <1>2, <1>3
  <2> HIDE DEF zero
  <2>2. /\ FoldLeft(XorInplace, zero, vs) \in Vecs(n)
        /\ \A i \in 1 .. n : \A b : b \in FoldLeft(XorInplace, zero, vs)[i] <=>
                                      ~(b \in zero[i] <=> InSome(b, i, vs))
    BY <1>1, XorOfApart
  <2>3. \A i \in 1 .. n : \A b : b \in FoldLeft(XorInplace, zero, vs)[i] <=> InSome(b, i, vs)
    BY <1>1, <2>2
  <2> QED BY <2>1, <2>2, <2>3 DEF zero
<1>4. CASE InParallel(vs, n_threads)
  <2>1. AggregateInto(zero, vs, n_threads) = FoldLeft(XorInplace, zero, sums)
    BY <1>2, <1>4
  <2>2. size \in Nat \ {0}
    <3> DEFINE len == Len(vs)
    <3>1. len \in Nat /\ len >= 2 * n_threads
      BY <1>4 DEF InParallel
    <3> HIDE DEF len
    <3>2. (len + n_threads - 1) \div n_threads \in Nat
          /\ ((len + n_threads - 1) \div n_threads) * n_threads >= len
      BY <3>1, Quotients
    <3> DEFINE s == (len + n_threads - 1) \div n_threads
    <3>3. s \in Nat /\ s * n_threads >= len
      BY <3>2
    <3>4. size = s
      BY DEF DivCeil, len
    <3> HIDE DEF s
    <3>5. s # 0
      BY <3>1, <3>3
    <3> HIDE DEF size
    <3> QED BY <3>3, <3>4, <3>5
  <2> HIDE DEF size
  <2>3. /\ chunks \in Seq(Seq(Vecs(n))) /\ q \in Nat /\ DOMAIN chunks = 1 .. q
        /\ \A k \in 1 .. q : chunks[k] \in Seq(Vecs(n))
    BY <2>2, ChunksHold
  <2>d. Divides(chunks, vs, size) /\ q = Len(chunks)
    BY <2>2, ChunksHold
  <2> HIDE DEF chunks, q
  <2>4. \A k \in 1 .. q :
          /\ Len(chunks[k]) <= size
          /\ \A t \in 1 .. Len(chunks[k]) : /\ ((k - 1) * size) + t \in 1 .. Len(vs)
                                            /\ chunks[k][t] = vs[((k - 1) * size) + t]
    BY <2>d DEF Divides
  <2>5. \A p \in 1 .. Len(vs) : \E k \in 1 .. q : \E t \in 1 .. Len(chunks[k]) :
          p = ((k - 1) * size) + t
    BY <2>d DEF Divides
  <2> HIDE DEF zero
  <2>t. \A k \in 1 .. q : \A t \in 1 .. Len(chunks[k]) : t \in 1 .. size /\ k \in Nat
    <3> SUFFICES ASSUME NEW k \in 1 .. q, NEW t \in 1 .. Len(chunks[k])
                 PROVE  t \in 1 .. size /\ k \in Nat
      OBVIOUS
    <3>1. Len(chunks[k]) \in Nat /\ Len(chunks[k]) <= size /\ k \in Nat
      BY <2>3, <2>4
    <3> QED BY <2>2, <3>1
  <2>6. ASSUME NEW j \in 1 .. q, NEW k \in 1 .. q, NEW i \in 1 .. n, NEW b,
               NEW s \in 1 .. Len(chunks[j]), NEW t \in 1 .. Len(chunks[k]),
               b \in chunks[j][s][i], b \in chunks[k][t][i]
        PROVE  j = k /\ s = t
    <3>1. /\ ((j - 1) * size) + s \in 1 .. Len(vs) /\ ((k - 1) * size) + t \in 1 .. Len(vs)
          /\ b \in vs[((j - 1) * size) + s][i] /\ b \in vs[((k - 1) * size) + t][i]
      BY <2>4, <2>6
    <3>2. ((j - 1) * size) + s = ((k - 1) * size) + t
      BY <3>1 DEF Apart
    <3>3. s \in 1 .. size /\ t \in 1 .. size /\ j \in Nat /\ k \in Nat
      BY <2>t
    <3>4. j = k
      BY <2>2, <3>2, <3>3, ChunkIsUnique
    <3>5. (j - 1) * size \in Int
      BY <2>2, <3>3
    <3>6. s = t
      BY <3>2, <3>3, <3>4, <3>5
    <3> QED BY <3>4, <3>6
  <2>7. ASSUME NEW k \in 1 .. q
        PROVE  /\ FoldLeft(XorInplace, zero, chunks[k]) \in Vecs(n)
               /\ \A i \in 1 .. n : \A b :
                    b \in FoldLeft(XorInplace, zero, chunks[k])[i] <=> InSome(b, i, chunks[k])
    <3>1. chunks[k] \in Seq(Vecs(n)) /\ Apart(chunks[k], n)
      BY <2>3, <2>6 DEF Apart
    <3>2. /\ FoldLeft(XorInplace, zero, chunks[k]) \in Vecs(n)
          /\ \A i \in 1 .. n : \A b : b \in FoldLeft(XorInplace, zero, chunks[k])[i] <=>
                                        ~(b \in zero[i] <=> InSome(b, i, chunks[k]))
      BY <1>1, <3>1, XorOfApart
    <3> QED BY <1>1, <3>2
  <2>8. /\ sums \in Seq(Vecs(n)) /\ Len(sums) = q
        /\ \A k \in 1 .. q : sums[k] = FoldLeft(XorInplace, zero, chunks[k])
    BY <2>3, <2>7
  <2> HIDE DEF sums
  <2>9. \A k \in 1 .. q : \A i \in 1 .. n : \A b :
          b \in sums[k][i] <=> \E t \in 1 .. Len(chunks[k]) : b \in chunks[k][t][i]
    BY <2>7, <2>8 DEF InSome
  <2>10. Apart(sums, n)
    <3> SUFFICES ASSUME NEW i \in 1 .. n, NEW j \in 1 .. q, NEW k \in 1 .. q, NEW b,
                        b \in sums[j][i], b \in sums[k][i]
                 PROVE  j = k
      BY <2>8 DEF Apart
    <3>1. PICK s \in 1 .. Len(chunks[j]) : b \in chunks[j][s][i]
      BY <2>9
    <3>2. PICK t \in 1 .. Len(chunks[k]) : b \in chunks[k][t][i]
      BY <2>9
    <3> QED BY <2>6, <3>1, <3>2
  <2>11. \A i \in 1 .. n : \A b : InSome(b, i, sums) <=> InSome(b, i, vs)
    <3> SUFFICES ASSUME NEW i \in 1 .. n, NEW b
                 PROVE  InSome(b, i, sums) <=> InSome(b, i, vs)
      OBVIOUS
    <3>1. ASSUME InSome(b, i, sums) PROVE InSome(b, i, vs)
      <4>1. PICK k \in 1 .. q : b \in sums[k][i]
        BY <2>8, <3>1 DEF InSome
      <4>2. PICK t \in 1 .. Len(chunks[k]) : b \in chunks[k][t][i]
        BY <2>9, <4>1
      <4>3. ((k - 1) * size) + t \in 1 .. Len(vs) /\ b \in vs[((k - 1) * size) + t][i]
        BY <2>4, <4>2
      <4> QED BY <4>3 DEF InSome
    <3>2. ASSUME InSome(b, i, vs) PROVE InSome(b, i, sums)
      <4>1. PICK p \in 1 .. Len(vs) : b \in vs[p][i]
        BY <3>2 DEF InSome
      <4>2. PICK k \in 1 .. q : \E t \in 1 .. Len(chunks[k]) : p = ((k - 1) * size) + t
        BY <2>5
      <4>3. PICK t \in 1 .. Len(chunks[k]) : p = ((k - 1) * size) + t
        BY <4>2
      <4>4. chunks[k][t] = vs[p]
        BY <2>4, <4>3
      <4>5. b \in sums[k][i]
        BY <2>9, <4>1, <4>4
      <4> QED BY <2>8, <4>5 DEF InSome
    <3> QED BY <3>1, <3>2
  <2>12. /\ FoldLeft(XorInplace, zero, sums) \in Vecs(n)
         /\ \A i \in 1 .. n : \A b : b \in FoldLeft(XorInplace, zero, sums)[i] <=>
                                       ~(b \in zero[i] <=> InSome(b, i, sums))
    BY <1>1, <2>8, <2>10, XorOfApart
  <2>13. \A i \in 1 .. n : \A b : b \in FoldLeft(XorInplace, zero, sums)[i] <=> InSome(b, i, vs)
    BY <1>1, <2>11, <2>12
  <2> QED BY <2>1, <2>12, <2>13 DEF zero
<1> QED BY <1>3, <1>4 DEF zero

-----------------------------------------------------------------------------
(***************************************************************************)
(* Pads.                                                                   *)
(***************************************************************************)
\* The pad of several secrets has the pads of all.
LEMMA PadAt ==
  ASSUME NEW n \in Nat, NEW secrets \in Seq(Nat \X Nat),
         \A j, k \in 1 .. Len(secrets) : secrets[j] = secrets[k] => j = k
  PROVE  /\ DeriveXorBlindingVector(secrets, n) \in Vecs(n)
         /\ \A i \in 1 .. n : \A b :
              b \in DeriveXorBlindingVector(secrets, n)[i] <=>
                \E j \in 1 .. Len(secrets) : b = <<secrets[j][1], secrets[j][2], i>>
<1> DEFINE m == Len(secrets)
           pads == [j \in DOMAIN secrets |-> XorPad(secrets[j][1], secrets[j][2], n)]
<1>1. /\ m \in Nat /\ DOMAIN secrets = 1 .. m
      /\ \A j \in 1 .. m : /\ secrets[j] = <<secrets[j][1], secrets[j][2]>>
                           /\ secrets[j][1] \in Nat /\ secrets[j][2] \in Nat
  OBVIOUS
<1>2. \A j \in 1 .. m :
        /\ XorPad(secrets[j][1], secrets[j][2], n) \in Vecs(n)
        /\ \A i \in 1 .. n :
             XorPad(secrets[j][1], secrets[j][2], n)[i] = {<<secrets[j][1], secrets[j][2], i>>}
  BY <1>1 DEF XorPad, Vecs, Unknown
<1>3. /\ pads \in Seq(Vecs(n)) /\ Len(pads) = m
      /\ \A j \in 1 .. m : \A i \in 1 .. n :
           pads[j][i] = {<<secrets[j][1], secrets[j][2], i>>}
  <2>1. pads \in [1 .. m -> Vecs(n)]
    BY <1>1, <1>2
  <2>2. pads \in Seq(Vecs(n)) /\ Len(pads) = m
    <3> HIDE DEF m, pads
    <3> QED BY <1>1, <2>1
  <2> QED BY <1>1, <1>2, <2>2
<1>4. DeriveXorBlindingVector(secrets, n) = FoldLeft(XorInplace, ZeroBytes(n), pads)
  BY DEF DeriveXorBlindingVector
<1> HIDE DEF pads, m
<1>5. Apart(pads, n)
  <2>1. ASSUME NEW j \in 1 .. m, NEW k \in 1 .. m, NEW i \in 1 .. n, NEW b,
               b \in pads[j][i], b \in pads[k][i]
        PROVE  j = k
    <3>1. b = <<secrets[j][1], secrets[j][2], i>> /\ b = <<secrets[k][1], secrets[k][2], i>>
      BY <1>3, <2>1
    <3>2. secrets[j][1] = secrets[k][1] /\ secrets[j][2] = secrets[k][2]
      BY <3>1
    <3>3. secrets[j] = secrets[k]
      BY <1>1, <3>2
    <3> QED BY <3>3 DEF m
  <2> QED BY <1>3, <2>1 DEF Apart
<1>6. /\ FoldLeft(XorInplace, ZeroBytes(n), pads) \in Vecs(n)
      /\ \A i \in 1 .. n : \A b : b \in FoldLeft(XorInplace, ZeroBytes(n), pads)[i] <=>
                                    ~(b \in ZeroBytes(n)[i] <=> InSome(b, i, pads))
  BY <1>3, <1>5, ZeroBytesTyped, XorOfApart
<1>7. \A i \in 1 .. n : \A b : InSome(b, i, pads) <=>
        \E j \in 1 .. m : b = <<secrets[j][1], secrets[j][2], i>>
  BY <1>3 DEF InSome
<1>8. \A i \in 1 .. n : \A b : b \notin ZeroBytes(n)[i]
  BY ZeroBytesTyped
<1> QED BY <1>4, <1>6, <1>7, <1>8 DEF m

\* A blinded vector has its contents and a pad for each server.
LEMMA ClientBlindAt ==
  ASSUME NEW n \in Nat, NEW k \in Nat, NEW contents \in Vecs(n),
         \A i \in 1 .. n : \A b \in contents[i] : b[2] = 0
  PROVE  /\ ClientBlind(k, contents) \in Vecs(n)
         /\ \A i \in 1 .. n : \A b : b \in ClientBlind(k, contents)[i] <=>
              b \in contents[i] \/ \E s \in 1 .. Servers : b = <<k, s, i>>
<1> DEFINE secrets == [s \in 1 .. Servers |-> <<k, s>>]
           pad == DeriveXorBlindingVector(secrets, n)
<1>1. Servers \in Nat
  BY RoundAssumption
<1>2. /\ secrets \in Seq(Nat \X Nat) /\ Len(secrets) = Servers
      /\ \A s \in 1 .. Servers : secrets[s][1] = k /\ secrets[s][2] = s
  <2>1. secrets \in [1 .. Servers -> Nat \X Nat]
    BY <1>1
  <2> QED BY <1>1, <2>1
<1>3. Len(contents) = n /\ ClientBlind(k, contents) = XorInplace(contents, pad)
  BY DEF ClientBlind, Vecs
<1> HIDE DEF secrets
<1>4. \A j, s \in 1 .. Len(secrets) : secrets[j] = secrets[s] => j = s
  BY <1>2
<1>5. /\ pad \in Vecs(n)
      /\ \A i \in 1 .. n : \A b :
           b \in pad[i] <=> \E j \in 1 .. Len(secrets) : b = <<secrets[j][1], secrets[j][2], i>>
  BY <1>2, <1>4, PadAt
<1>6. \A i \in 1 .. n : \A b : b \in pad[i] <=> \E s \in 1 .. Servers : b = <<k, s, i>>
  <2> SUFFICES ASSUME NEW i \in 1 .. n, NEW b
               PROVE  b \in pad[i] <=> \E s \in 1 .. Servers : b = <<k, s, i>>
    OBVIOUS
  <2> HIDE DEF pad
  <2>1. b \in pad[i] <=> \E s \in 1 .. Servers : b = <<secrets[s][1], secrets[s][2], i>>
    BY <1>2, <1>5
  <2>2. \A s \in 1 .. Servers : <<secrets[s][1], secrets[s][2], i>> = <<k, s, i>>
    BY <1>2
  <2> QED BY <2>1, <2>2
<1> HIDE DEF pad
<1>7. \A i \in 1 .. n : \A b : b \in pad[i] => b \notin contents[i]
  <2> SUFFICES ASSUME NEW i \in 1 .. n, NEW b, b \in pad[i] PROVE b[2] # 0
    OBVIOUS
  <2>1. PICK s \in 1 .. Servers : b = <<k, s, i>>
    BY <1>6
  <2> QED BY <1>1, <2>1
<1>8. /\ XorInplace(contents, pad) \in Vecs(n)
      /\ \A i \in 1 .. n : \A b :
           b \in XorInplace(contents, pad)[i] <=> ~(b \in contents[i] <=> b \in pad[i])
  BY <1>5, XorTyped
<1> QED BY <1>3, <1>6, <1>7, <1>8

\* A server's share has its pads of all clients.
LEMMA ServerShareAt ==
  ASSUME NEW n \in Nat, NEW m \in Nat, NEW s \in Nat
  PROVE  /\ ServerShare(s, m, n) \in Vecs(n)
         /\ \A i \in 1 .. n : \A b :
              b \in ServerShare(s, m, n)[i] <=> \E k \in 1 .. m : b = <<k, s, i>>
<1> DEFINE secrets == [k \in 1 .. m |-> <<k, s>>]
<1>1. /\ secrets \in Seq(Nat \X Nat) /\ Len(secrets) = m
      /\ \A k \in 1 .. m : secrets[k][1] = k /\ secrets[k][2] = s
  <2>1. secrets \in [1 .. m -> Nat \X Nat]
    OBVIOUS
  <2> QED BY <2>1
<1>2. ServerShare(s, m, n) = DeriveXorBlindingVector(secrets, n)
  BY DEF ServerShare
<1> HIDE DEF secrets
<1>3. \A j, k \in 1 .. Len(secrets) : secrets[j] = secrets[k] => j = k
  BY <1>1
<1>4. /\ DeriveXorBlindingVector(secrets, n) \in Vecs(n)
      /\ \A i \in 1 .. n : \A b : b \in DeriveXorBlindingVector(secrets, n)[i] <=>
           \E j \in 1 .. Len(secrets) : b = <<secrets[j][1], secrets[j][2], i>>
  BY <1>1, <1>3, PadAt
<1>5. \A i \in 1 .. n : \A b :
        (\E j \in 1 .. Len(secrets) : b = <<secrets[j][1], secrets[j][2], i>>)
          <=> \E k \in 1 .. m : b = <<k, s, i>>
  BY <1>1
<1> QED BY <1>2, <1>4, <1>5

\* C[k] has unknowns of client k only, none of them of a pad.
OwnContents(C, m, n) ==
  /\ C \in [1 .. m -> Vecs(n)]
  /\ \A k \in 1 .. m : \A i \in 1 .. n : \A b \in C[k][i] : b[1] = k /\ b[2] = 0

\* The servers' shares take off what the clients have put on.
Opened(C, m, n, n_threads) ==
  CombinePartials(
    AggregateInto(ZeroBytes(n), [k \in 1 .. m |-> ClientBlind(k, C[k])], n_threads),
    [s \in 1 .. Servers |-> ServerShare(s, m, n)])

LEMMA SharesOpenSum ==
  ASSUME NEW n \in Nat, NEW m \in Nat, NEW C, OwnContents(C, m, n),
         NEW n_threads \in Nat \ {0}
  PROVE  /\ Opened(C, m, n, n_threads) \in Vecs(n)
         /\ \A i \in 1 .. n : \A b :
              b \in Opened(C, m, n, n_threads)[i] <=> \E k \in 1 .. m : b \in C[k][i]
<1> DEFINE vs == [k \in 1 .. m |-> ClientBlind(k, C[k])]
           shares == [s \in 1 .. Servers |-> ServerShare(s, m, n)]
           agg == AggregateInto(ZeroBytes(n), vs, n_threads)
<1>1. Servers \in Nat
  BY RoundAssumption
<1>2. /\ C \in [1 .. m -> Vecs(n)]
      /\ \A k \in 1 .. m : \A i \in 1 .. n : \A b \in C[k][i] : b[1] = k /\ b[2] = 0
  BY DEF OwnContents
<1>3. ASSUME NEW k \in 1 .. m
      PROVE  /\ ClientBlind(k, C[k]) \in Vecs(n)
             /\ \A i \in 1 .. n : \A b : b \in ClientBlind(k, C[k])[i] <=>
                  b \in C[k][i] \/ \E s \in 1 .. Servers : b = <<k, s, i>>
  <2>1. k \in Nat /\ C[k] \in Vecs(n) /\ \A i \in 1 .. n : \A b \in C[k][i] : b[2] = 0
    BY <1>2
  <2> QED BY <2>1, ClientBlindAt
<1>4. /\ vs \in Seq(Vecs(n)) /\ Len(vs) = m
      /\ \A k \in 1 .. m : vs[k] = ClientBlind(k, C[k])
  <2>1. vs \in [1 .. m -> Vecs(n)]
    BY <1>3
  <2> QED BY <2>1
<1>5. ASSUME NEW s \in 1 .. Servers
      PROVE  /\ ServerShare(s, m, n) \in Vecs(n)
             /\ \A i \in 1 .. n : \A b :
                  b \in ServerShare(s, m, n)[i] <=> \E k \in 1 .. m : b = <<k, s, i>>
  <2>1. s \in Nat
    BY <1>1
  <2> QED BY <2>1, ServerShareAt
<1>6. /\ shares \in Seq(Vecs(n)) /\ Len(shares) = Servers
      /\ \A s \in 1 .. Servers : shares[s] = ServerShare(s, m, n)
  <2>1. shares \in [1 .. Servers -> Vecs(n)]
    BY <1>5
  <2> QED BY <1>1, <2>1
<1>7. Opened(C, m, n, n_threads) = FoldLeft(XorInplace, agg, shares)
  BY DEF Opened, CombinePartials
<1> HIDE DEF vs, shares
<1>8. \A k \in 1 .. m : \A i \in 1 .. n : \A b : b \in vs[k][i] <=>
        b \in C[k][i] \/ \E s \in 1 .. Servers : b = <<k, s, i>>
  BY <1>3, <1>4
<1>9. \A s \in 1 .. Servers : \A i \in 1 .. n : \A b :
        b \in shares[s][i] <=> \E k \in 1 .. m : b = <<k, s, i>>
  BY <1>5, <1>6
<1>10. Apart(vs, n)
  <2>1. ASSUME NEW j \in 1 .. m, NEW i \in 1 .. n, NEW b, b \in vs[j][i]
        PROVE  b[1] = j
    <3>1. CASE b \in C[j][i]
      BY <1>2, <3>1
    <3>2. CASE \E s \in 1 .. Servers : b = <<j, s, i>>
      BY <3>2
    <3> QED BY <1>8, <2>1, <3>1, <3>2
  <2> QED BY <1>4, <2>1 DEF Apart
<1>11. Apart(shares, n)
  <2>1. ASSUME NEW s \in 1 .. Servers, NEW i \in 1 .. n, NEW b, b \in shares[s][i]
        PROVE  b[2] = s
    <3>1. PICK k \in 1 .. m : b = <<k, s, i>>
      BY <1>9, <2>1
    <3> QED BY <3>1
  <2> QED BY <1>6, <2>1 DEF Apart
<1>12. agg \in Vecs(n) /\ \A i \in 1 .. n : \A b : b \in agg[i] <=> InSome(b, i, vs)
  BY <1>4, <1>10, AggregateOfApart
<1> HIDE DEF agg
<1>13. /\ FoldLeft(XorInplace, agg, shares) \in Vecs(n)
       /\ \A i \in 1 .. n : \A b : b \in FoldLeft(XorInplace, agg, shares)[i] <=>
            ~(b \in agg[i] <=> InSome(b, i, shares))
  BY <1>6, <1>11, <1>12, XorOfApart
<1>14. ASSUME NEW i \in 1 .. n, NEW b
       PROVE  ~(b \in agg[i] <=> InSome(b, i, shares)) <=> \E k \in 1 .. m : b \in C[k][i]
  <2> DEFINE Padded == \E k \in 1 .. m, s \in 1 .. Servers : b = <<k, s, i>>
             Contained == \E k \in 1 .. m : b \in C[k][i]
  <2>1. b \in agg[i] <=> Contained \/ Padded
    <3>1. b \in agg[i] <=> \E k \in 1 .. m : b \in vs[k][i]
      BY <1>4, <1>12 DEF InSome
    <3> QED BY <1>8, <3>1
  <2>2. InSome(b, i, shares) <=> Padded
    BY <1>6, <1>9 DEF InSome
  <2>3. ~(Contained /\ Padded)
    <3> SUFFICES ASSUME Contained, Padded PROVE FALSE
      OBVIOUS
    <3>1. b[2] = 0
      BY <1>2
    <3>2. PICK k \in 1 .. m, s \in 1 .. Servers : b = <<k, s, i>>
      OBVIOUS
    <3> QED BY <1>1, <3>1, <3>2
  <2> HIDE DEF Padded, Contained
  <2>4. ~(b \in agg[i] <=> InSome(b, i, shares)) <=> Contained
    BY <2>1, <2>2, <2>3
  <2> QED BY <2>4 DEF Contained
<1> QED BY <1>7, <1>13, <1>14

-----------------------------------------------------------------------------
(***************************************************************************)
(* Slots.                                                                  *)
(***************************************************************************)
\* What a client blinds that wrote p, or nothing, at byte `at`.
Contents(at, p, n) == IF p = None THEN ZeroBytes(n) ELSE Written(at, p, n)

\* The vector c has winner k's bytes, as many as size, from byte `at` on.
OwnBytesOnly(c, k, at, size, n) ==
  \A i \in 1 .. n : \A b : b \in c[i] <=> i - at \in 1 .. size /\ b = <<k, 0, i - at>>

LEMMA ContentsFacts ==
  ASSUME NEW n \in Nat, NEW k \in Nat, NEW at \in Nat, NEW size \in Nat
  PROVE  /\ Payload(k, size) # None /\ Payload(k, size) \in Seq(SUBSET Unknown)
         /\ Len(Payload(k, size)) = size /\ DOMAIN Payload(k, size) = 1 .. size
         /\ \A i \in 1 .. size : Payload(k, size)[i] = {<<k, 0, i>>}
         /\ Contents(at, None, n) \in Vecs(n)
         /\ \A i \in 1 .. n : \A b : b \notin Contents(at, None, n)[i]
         /\ Contents(at, Payload(k, size), n) \in Vecs(n)
         /\ OwnBytesOnly(Contents(at, Payload(k, size), n), k, at, size, n)
<1> DEFINE p == Payload(k, size)
<1>1. p = [i \in 1 .. size |-> {<<k, 0, i>>}]
  BY DEF Payload
<1>2. \A i \in 1 .. size : {<<k, 0, i>>} \in SUBSET Unknown
  BY DEF Unknown
<1> HIDE DEF p
<1>3. /\ p \in Seq(SUBSET Unknown) /\ Len(p) = size /\ DOMAIN p = 1 .. size
      /\ \A i \in 1 .. size : p[i] = {<<k, 0, i>>}
  BY <1>1, <1>2
<1>4. p # None
  BY <1>3, RoundAssumption DEF Unknown
<1>5. /\ Contents(at, None, n) \in Vecs(n)
      /\ \A i \in 1 .. n : \A b : b \notin Contents(at, None, n)[i]
  BY ZeroBytesTyped DEF Contents
<1>6. Contents(at, p, n) = [i \in 1 .. n |-> IF i - at \in 1 .. size THEN p[i - at] ELSE {}]
  BY <1>3, <1>4 DEF Contents, Written
<1>7. \A i \in 1 .. n : (IF i - at \in 1 .. size THEN p[i - at] ELSE {}) \in SUBSET Unknown
  BY <1>2, <1>3
<1>8. Contents(at, p, n) \in Vecs(n)
  BY <1>6, <1>7 DEF Vecs
<1>9. \A i \in 1 .. n : \A b : b \in Contents(at, p, n)[i] <=>
        i - at \in 1 .. size /\ b = <<k, 0, i - at>>
  BY <1>3, <1>6
<1>10. OwnBytesOnly(Contents(at, p, n), k, at, size, n)
  BY <1>9 DEF OwnBytesOnly
<1> QED BY <1>3, <1>4, <1>5, <1>8, <1>10 DEF p

\* Winner k's client wrote a payload if there was room for it, and blinded it.
Carried(k) ==
  \E size \in 0 .. winners[k].bid.size :
    /\ written[k] = IF winners[k].slot_idx + size <= vec_len THEN Payload(k, size) ELSE None
    /\ vectors[k] = ClientBlind(k, Contents(winners[k].slot_idx, written[k], vec_len))

Carrying ==
  /\ vec_len \in Nat
  /\ written \in Seq({None} \cup Seq(SUBSET Unknown)) /\ vectors \in Seq(Vecs(vec_len))
  /\ Len(written) = Len(vectors)
  /\ winners = None => vectors = <<>>
  /\ winners # None => \A k \in 1 .. Len(vectors) : k \in DOMAIN winners /\ Carried(k)
  /\ payloads # None => winners # None

\* The winners are those of an auction that went well.
LEMMA WinnersRan ==
  ASSUME Sale, winners # None
  PROVE  /\ winners \in Seq(WinnerType) /\ DOMAIN winners = 1 .. Len(winners)
         /\ Len(winners) \in Nat /\ Allocated(winners) \in Nat
         /\ \A k \in DOMAIN winners :
              /\ winners[k].slot_idx \in Nat /\ winners[k].slot_size \in Nat
              /\ winners[k].bid.size \in Nat
              /\ winners[k].bid.size <= winners[k].slot_size
              /\ winners[k].slot_idx + winners[k].slot_size <= Allocated(winners)
         /\ \A j, k \in DOMAIN winners :
              j < k => winners[j].slot_idx + winners[j].slot_size <= winners[k].slot_idx
<1>1. PICK bs \in Seq(BidType) : winners = run_auction(bs)
  BY DEF Sale
<1>2. RunsWell(bs, winners)
  BY <1>1, RunAuctionFacts
<1>3. /\ winners \in Seq(WinnerType) /\ Allocated(winners) \in Nat
      /\ \A k \in DOMAIN winners :
           /\ winners[k].bid.size <= winners[k].slot_size
           /\ winners[k].slot_idx + winners[k].slot_size <= Allocated(winners)
      /\ \A j, k \in DOMAIN winners :
           j < k => winners[j].slot_idx + winners[j].slot_size <= winners[k].slot_idx
  BY <1>2 DEF RunsWell
<1>4. ASSUME NEW k \in DOMAIN winners
      PROVE  /\ winners[k].slot_idx \in Nat /\ winners[k].slot_size \in Nat
             /\ winners[k].bid.size \in Nat
  <2>1. winners[k] \in WinnerType
    BY <1>3
  <2>2. winners[k].bid \in BidType /\ winners[k].slot_idx \in Nat /\ winners[k].slot_size \in Nat
    BY <2>1 DEF WinnerType
  <2> QED BY <2>2 DEF BidType
<1>5. DOMAIN winners = 1 .. Len(winners) /\ Len(winners) \in Nat
  BY <1>3
<1> QED BY <1>3, <1>4, <1>5

\* Winner Next_k writes.
LEMMA WriteCarries ==
  ASSUME Sale, Carrying, NEW n \in PayloadLengths, write_slot(n)
  PROVE  Carrying'
<1> DEFINE k == Len(vectors) + 1
           at == winners[k].slot_idx
           p == IF at + n <= vec_len THEN Payload(k, n) ELSE None
           v == ClientBlind(k, Contents(at, p, vec_len))
<1>1. /\ winners # None /\ k \in DOMAIN winners /\ n \in 0 .. winners[k].bid.size
  BY DEF write_slot, PayloadLengths, Next_k
<1>2. /\ vec_len \in Nat /\ Len(vectors) \in Nat /\ k \in Nat
      /\ vectors \in Seq(Vecs(vec_len)) /\ Len(written) = Len(vectors)
      /\ written \in Seq({None} \cup Seq(SUBSET Unknown))
  BY DEF Carrying
<1>3. /\ winners[k].slot_idx \in Nat /\ winners[k].bid.size \in Nat
  BY <1>1, WinnersRan
<1>4. n \in Nat /\ at \in Nat
  BY <1>1, <1>3
<1> HIDE DEF k
<1>5. /\ Payload(k, n) # None /\ Payload(k, n) \in Seq(SUBSET Unknown)
      /\ Len(Payload(k, n)) = n
      /\ Contents(at, None, vec_len) \in Vecs(vec_len)
      /\ Contents(at, Payload(k, n), vec_len) \in Vecs(vec_len)
      /\ \A i \in 1 .. vec_len : \A b : b \notin Contents(at, None, vec_len)[i]
      /\ \A i \in 1 .. vec_len : \A b : b \in Contents(at, Payload(k, n), vec_len)[i] <=>
              i - at \in 1 .. n /\ b = <<k, 0, i - at>>
  <2>1. vec_len \in Nat /\ k \in Nat /\ at \in Nat /\ n \in Nat
    BY <1>2, <1>4
  <2> HIDE DEF at
  <2>2. /\ Payload(k, n) # None /\ Payload(k, n) \in Seq(SUBSET Unknown)
        /\ Len(Payload(k, n)) = n
    BY <2>1, ContentsFacts
  <2>3. /\ Contents(at, None, vec_len) \in Vecs(vec_len)
        /\ \A i \in 1 .. vec_len : \A b : b \notin Contents(at, None, vec_len)[i]
    BY <2>1, ContentsFacts
  <2>4. Contents(at, Payload(k, n), vec_len) \in Vecs(vec_len)
    BY <2>1, ContentsFacts
  <2>5. OwnBytesOnly(Contents(at, Payload(k, n), vec_len), k, at, n, vec_len)
    BY <2>1, ContentsFacts
  <2> QED BY <2>2, <2>3, <2>4, <2>5 DEF OwnBytesOnly
<1>6. p \in {None} \cup Seq(SUBSET Unknown)
  BY <1>5
<1>7. v \in Vecs(vec_len)
  <2>1. /\ Contents(at, p, vec_len) \in Vecs(vec_len)
        /\ \A i \in 1 .. vec_len : \A b \in Contents(at, p, vec_len)[i] : b[2] = 0
    BY <1>5
  <2> HIDE DEF at, p
  <2> QED BY <1>2, <2>1, ClientBlindAt
<1>8. written' = Append(written, p) /\ vectors' = Append(vectors, v)
  <2>1. Fits(at, Payload(k, n), vec_len) <=> at + n <= vec_len
    BY <1>5 DEF Fits
  <2>2. CASE at + n <= vec_len
    <3>1. /\ written' = Append(written, Payload(k, n))
          /\ vectors' = Append(vectors, ClientBlind(k, Written(at, Payload(k, n), vec_len)))
      BY <2>1, <2>2 DEF write_slot, Next_k, k
    <3>2. p = Payload(k, n) /\ Contents(at, p, vec_len) = Written(at, Payload(k, n), vec_len)
      BY <1>5, <2>2 DEF Contents
    <3> QED BY <3>1, <3>2
  <2>3. CASE ~(at + n <= vec_len)
    <3>1. /\ written' = Append(written, None)
          /\ vectors' = Append(vectors, ClientBlind(k, ZeroBytes(vec_len)))
      BY <2>1, <2>3 DEF write_slot, Next_k, k
    <3>2. p = None /\ Contents(at, p, vec_len) = ZeroBytes(vec_len)
      BY <2>3 DEF Contents
    <3> QED BY <3>1, <3>2
  <2> QED BY <2>2, <2>3
<1>9. UNCHANGED <<winners, vec_len, payloads>>
  BY DEF write_slot
<1>10. at = winners[k].slot_idx /\ p = (IF at + n <= vec_len THEN Payload(k, n) ELSE None)
       /\ v = ClientBlind(k, Contents(at, p, vec_len))
  OBVIOUS
<1> HIDE DEF at, p, v
<1>11. /\ written' \in Seq({None} \cup Seq(SUBSET Unknown)) /\ vectors' \in Seq(Vecs(vec_len))
       /\ Len(written') = k /\ Len(vectors') = k
       /\ written'[k] = p /\ vectors'[k] = v
       /\ \A j \in 1 .. Len(vectors) : written'[j] = written[j] /\ vectors'[j] = vectors[j]
  BY <1>2, <1>6, <1>7, <1>8 DEF k
<1>12. ASSUME NEW j \in 1 .. k
       PROVE  j \in DOMAIN winners /\ Carried(j)'
  <2>1. CASE j = k
    <3>1. /\ written'[k] = IF winners'[k].slot_idx + n <= vec_len'
                           THEN Payload(k, n) ELSE None
          /\ vectors'[k] = ClientBlind(k, Contents(winners'[k].slot_idx, written'[k], vec_len'))
      BY <1>9, <1>10, <1>11
    <3>2. n \in 0 .. winners'[k].bid.size
      BY <1>1, <1>9
    <3> QED BY <1>1, <2>1, <3>1, <3>2 DEF Carried
  <2>2. CASE j # k
    <3>1. j \in 1 .. Len(vectors)
      BY <1>2, <2>2 DEF k
    <3>2. j \in DOMAIN winners /\ Carried(j)
      BY <1>1, <3>1 DEF Carrying
    <3> QED BY <1>9, <1>11, <3>1, <3>2 DEF Carried
  <2> QED BY <2>1, <2>2
<1> QED BY <1>1, <1>2, <1>9, <1>11, <1>12 DEF Carrying

LEMMA CarryingStep ==
  ASSUME Sale, Carrying, [Next]_vars
  PROVE  Carrying'
<1>1. ASSUME NEW bid \in Bids, insert_bid(bid) PROVE Carrying'
  BY <1>1 DEF insert_bid, Carrying, Carried
<1>2. CASE decode_winners
  <2>1. /\ vec_len' \in Nat /\ winners = None /\ UNCHANGED <<written, vectors, payloads>>
    BY <1>2 DEF decode_winners
  <2>2. vectors = <<>> /\ payloads = None
    BY <2>1 DEF Carrying
  <2>3. vectors' \in Seq(Vecs(vec_len)') /\ Len(vectors') = 0
    BY <2>1, <2>2
  <2> QED BY <2>1, <2>2, <2>3 DEF Carrying
<1>3. CASE \E n \in PayloadLengths : write_slot(n)
  BY <1>3, WriteCarries
<1>4. CASE \E n \in Threads : read_slots(n)
  BY <1>4 DEF read_slots, Carrying, Carried
<1>5. CASE UNCHANGED vars
  BY <1>5 DEF vars, Carrying, Carried
<1> QED BY <1>1, <1>2, <1>3, <1>4, <1>5 DEF Next

\* What winner k wrote, and the vector that its client blinded.
Text(k) == IF written[k] = None THEN <<>> ELSE written[k]

Plain(k) == Contents(winners[k].slot_idx, written[k], vec_len)

\* Of winner k: its text fits its slot and the vector, which has nothing else.
TextFits(k) ==
  /\ Text(k) \in Seq(SUBSET Unknown) /\ Len(Text(k)) <= winners[k].slot_size
  /\ Len(Text(k)) = 0 \/ winners[k].slot_idx + Len(Text(k)) <= vec_len
  /\ written[k] = None => winners[k].slot_idx + winners[k].slot_size > vec_len
  /\ Plain(k) \in Vecs(vec_len)
  /\ \A i \in 1 .. vec_len :
       Plain(k)[i] = IF i - winners[k].slot_idx \in 1 .. Len(Text(k))
                     THEN Text(k)[i - winners[k].slot_idx] ELSE {}
  /\ \A i \in 1 .. vec_len : \A b \in Plain(k)[i] : b[1] = k /\ b[2] = 0
  /\ vectors[k] = ClientBlind(k, Plain(k))

LEMMA TextsFit ==
  ASSUME Sale, Carrying, winners # None, NEW k \in 1 .. Len(vectors)
  PROVE  TextFits(k)
<1> DEFINE at == winners[k].slot_idx
<1>1. /\ k \in DOMAIN winners /\ Carried(k) /\ vec_len \in Nat /\ k \in Nat
  BY DEF Carrying
<1>2. /\ at \in Nat /\ winners[k].slot_size \in Nat /\ winners[k].bid.size \in Nat
      /\ winners[k].bid.size <= winners[k].slot_size
  BY <1>1, WinnersRan
<1>3. PICK size \in 0 .. winners[k].bid.size :
        /\ written[k] = IF at + size <= vec_len THEN Payload(k, size) ELSE None
        /\ vectors[k] = ClientBlind(k, Contents(at, written[k], vec_len))
  BY <1>1 DEF Carried
<1>4. size \in Nat /\ size <= winners[k].slot_size
  BY <1>2, <1>3
<1>5. Plain(k) = Contents(at, written[k], vec_len)
  BY DEF Plain
<1>6. Text(k) = IF written[k] = None THEN <<>> ELSE written[k]
  BY DEF Text
<1>a. TextFits(k) <=>
        /\ Text(k) \in Seq(SUBSET Unknown) /\ Len(Text(k)) <= winners[k].slot_size
        /\ Len(Text(k)) = 0 \/ at + Len(Text(k)) <= vec_len
        /\ written[k] = None => at + winners[k].slot_size > vec_len
        /\ Plain(k) \in Vecs(vec_len)
        /\ \A i \in 1 .. vec_len :
             Plain(k)[i] = IF i - at \in 1 .. Len(Text(k)) THEN Text(k)[i - at] ELSE {}
        /\ \A i \in 1 .. vec_len : \A b \in Plain(k)[i] : b[1] = k /\ b[2] = 0
        /\ vectors[k] = ClientBlind(k, Plain(k))
  BY DEF TextFits
<1> HIDE DEF at
<1>7. /\ Payload(k, size) # None /\ Payload(k, size) \in Seq(SUBSET Unknown)
      /\ Len(Payload(k, size)) = size /\ DOMAIN Payload(k, size) = 1 .. size
  BY <1>1, <1>2, <1>4, ContentsFacts
<1>8. OwnBytesOnly(Contents(at, Payload(k, size), vec_len), k, at, size, vec_len)
  BY <1>1, <1>2, <1>4, ContentsFacts
<1>9. /\ Contents(at, None, vec_len) \in Vecs(vec_len)
      /\ \A i \in 1 .. vec_len : \A b : b \notin Contents(at, None, vec_len)[i]
  BY <1>1, <1>2, <1>4, ContentsFacts
<1>10. Contents(at, Payload(k, size), vec_len) \in Vecs(vec_len)
  BY <1>1, <1>2, <1>4, ContentsFacts
<1>11. CASE at + size <= vec_len
  <2>1. /\ written[k] = Payload(k, size) /\ Text(k) = Payload(k, size)
        /\ Len(Text(k)) = size
    BY <1>3, <1>6, <1>7, <1>11
  <2>2. Plain(k) = [i \in 1 .. vec_len |->
                      IF i - at \in 1 .. size THEN Payload(k, size)[i - at] ELSE {}]
    BY <1>5, <1>7, <2>1 DEF Contents, Written
  <2>3. \A i \in 1 .. vec_len :
          Plain(k)[i] = IF i - at \in 1 .. Len(Text(k)) THEN Text(k)[i - at] ELSE {}
    BY <2>1, <2>2
  <2>4. \A i \in 1 .. vec_len : \A b \in Plain(k)[i] : b[1] = k /\ b[2] = 0
    BY <1>5, <1>8, <2>1 DEF OwnBytesOnly
  <2>5. Text(k) \in Seq(SUBSET Unknown) /\ Plain(k) \in Vecs(vec_len) /\ written[k] # None
    BY <1>5, <1>7, <1>10, <2>1
  <2> QED BY <1>3, <1>4, <1>5, <1>11, <1>a, <2>1, <2>3, <2>4, <2>5
<1>12. CASE ~(at + size <= vec_len)
  <2>1. written[k] = None /\ Text(k) = <<>>
    BY <1>3, <1>6, <1>12
  <2>2. Text(k) \in Seq(SUBSET Unknown) /\ Len(Text(k)) = 0
    BY <2>1
  <2>3. Plain(k) \in Vecs(vec_len) /\ \A i \in 1 .. vec_len : \A b : b \notin Plain(k)[i]
    BY <1>5, <1>9, <2>1
  <2>4. \A i \in 1 .. vec_len : Plain(k)[i] = {}
    BY <2>3
  <2>5. \A i \in 1 .. vec_len : i - at \notin 1 .. Len(Text(k))
    BY <2>2
  <2>6. at + winners[k].slot_size > vec_len
    BY <1>1, <1>2, <1>4, <1>12
  <2> QED BY <1>2, <1>3, <1>5, <1>a, <2>2, <2>3, <2>4, <2>5, <2>6
<1> QED BY <1>11, <1>12

\* Winner k's slot of a vector.
LEMMA SlotIsPart ==
  ASSUME NEW n \in Nat, NEW vec \in Vecs(n), NEW k \in DOMAIN winners,
         winners[k].slot_idx \in Nat, winners[k].slot_size \in Nat
  PROVE  /\ ReadSlot(vec, winners[k]) \in Seq(SUBSET Unknown)
         /\ Len(ReadSlot(vec, winners[k])) <= winners[k].slot_size
         /\ \A l \in 0 .. winners[k].slot_size :
              winners[k].slot_idx + l <= n => l <= Len(ReadSlot(vec, winners[k]))
         /\ \A i \in 1 .. Len(ReadSlot(vec, winners[k])) :
              /\ winners[k].slot_idx + i \in 1 .. n
              /\ ReadSlot(vec, winners[k])[i] = vec[winners[k].slot_idx + i]
<1> DEFINE at == winners[k].slot_idx
           size == winners[k].slot_size
           end == IF at + size < n THEN at + size ELSE n
           part == SubSeq(vec, at + 1, end)
<1>1. vec \in Seq(SUBSET Unknown) /\ Len(vec) = n
  BY DEF Vecs
<1>2. ReadSlot(vec, winners[k]) = part
  BY <1>1 DEF ReadSlot
<1>3. at \in Nat /\ size \in Nat
  OBVIOUS
<1> HIDE DEF at, size
<1>4. end \in 0 .. n /\ end <= at + size
  BY <1>3
<1>5. \A l \in 0 .. size : at + l <= n => at + l <= end
  BY <1>3
<1> HIDE DEF end
<1>6. at + 1 \in Nat /\ at + 1 >= 1 /\ end \in Nat
  BY <1>3, <1>4
<1>7. part \in Seq(SUBSET Unknown)
  BY <1>1, <1>3, <1>4, <1>6
<1>8. Len(part) = IF at < end THEN end - at ELSE 0
  BY <1>1, <1>3, <1>4, <1>6
<1>9. \A i \in 1 .. Len(part) : part[i] = vec[at + i]
  BY <1>1, <1>3, <1>4, <1>6
<1> HIDE DEF part
<1>10. \A i \in 1 .. Len(part) : at + i \in 1 .. n
  BY <1>3, <1>4, <1>8
<1>11. Len(part) <= size
  BY <1>3, <1>4, <1>8
<1>12. \A l \in 0 .. size : at + l <= n => l <= Len(part)
  <2> SUFFICES ASSUME NEW l \in 0 .. size, at + l <= n PROVE l <= Len(part)
    OBVIOUS
  <2>1. at + l <= end /\ l \in Nat
    BY <1>3, <1>5
  <2> QED BY <1>3, <1>4, <1>8, <2>1
<1> QED BY <1>2, <1>7, <1>9, <1>10, <1>11, <1>12 DEF at, size

\* The slots that are read hold what their winners have written.
LEMMA ReadCarries ==
  ASSUME Sale, Carrying, NEW n_threads \in Threads, read_slots(n_threads)
  PROVE  SlotsCarryPayloads'
<1> DEFINE m == Len(vectors)
           C == [k \in 1 .. m |-> Plain(k)]
           vec == Opened(C, m, vec_len, n_threads)
<1>1. /\ winners # None /\ Len(vectors) = Len(winners)
      /\ payloads' = [k \in DOMAIN winners |->
           ReadSlot(CombinePartials(AggregateInto(ZeroBytes(vec_len), vectors, n_threads),
                      [s \in 1 .. Servers |-> ServerShare(s, Len(vectors), vec_len)]),
                    winners[k])]
      /\ UNCHANGED <<winners, vec_len, written, vectors>>
  BY DEF read_slots
<1>2. /\ vec_len \in Nat /\ vectors \in Seq(Vecs(vec_len)) /\ m \in Nat
      /\ DOMAIN vectors = 1 .. m
  BY DEF Carrying
<1>3. /\ DOMAIN winners = 1 .. m
      /\ \A k \in 1 .. m : winners[k].slot_idx \in Nat /\ winners[k].slot_size \in Nat
      /\ \A j, k \in 1 .. m :
           j < k => winners[j].slot_idx + winners[j].slot_size <= winners[k].slot_idx
  BY <1>1, WinnersRan
<1>3a. \A k \in 1 .. m : winners[k].slot_idx + winners[k].slot_size <= Allocated(winners)
  BY <1>1, <1>3, WinnersRan
<1>3b. Allocated(winners) \in Nat
  BY <1>1, WinnersRan
<1>4. \A k \in 1 .. m : TextFits(k)
  BY <1>1, TextsFit
<1>5. OwnContents(C, m, vec_len)
  <2>1. \A k \in 1 .. m : Plain(k) \in Vecs(vec_len)
    BY <1>4 DEF TextFits
  <2>2. \A k \in 1 .. m : \A i \in 1 .. vec_len : \A b \in Plain(k)[i] : b[1] = k /\ b[2] = 0
    BY <1>4 DEF TextFits
  <2> QED BY <2>1, <2>2 DEF OwnContents
<1>6. vectors = [k \in 1 .. m |-> ClientBlind(k, C[k])]
  <2>1. \A k \in 1 .. m : vectors[k] = ClientBlind(k, C[k])
    BY <1>4 DEF TextFits
  <2>2. vectors = [k \in 1 .. m |-> vectors[k]]
    BY <1>2
  <2> QED BY <2>1, <2>2
<1>7. n_threads \in Nat \ {0}
  BY RoundAssumption
<1>8. payloads' = [k \in DOMAIN winners |-> ReadSlot(vec, winners[k])]
  BY <1>1, <1>6 DEF Opened
<1>9. C \in [1 .. m -> Vecs(vec_len)] /\ \A k \in 1 .. m : C[k] = Plain(k)
  BY <1>5 DEF OwnContents
<1> HIDE DEF C, m
<1>10. vec \in Vecs(vec_len)
  BY <1>2, <1>5, <1>7, SharesOpenSum
<1>11. \A i \in 1 .. vec_len : \A b : b \in vec[i] <=> \E k \in 1 .. m : b \in Plain(k)[i]
  <2>1. \A i \in 1 .. vec_len : \A b : b \in vec[i] <=> \E k \in 1 .. m : b \in C[k][i]
    BY <1>2, <1>5, <1>7, SharesOpenSum
  <2> QED BY <1>9, <2>1
<1> HIDE DEF vec
<1>12. ASSUME NEW k \in 1 .. m, NEW i \in 1 .. winners[k].slot_size,
              winners[k].slot_idx + i \in 1 .. vec_len
       PROVE  vec[winners[k].slot_idx + i] = IF i \in 1 .. Len(Text(k)) THEN Text(k)[i] ELSE {}
  <2> DEFINE at == winners[k].slot_idx
             x == at + i
  <2>1. ASSUME NEW j \in 1 .. m, j # k PROVE Plain(j)[x] = {}
    <3> DEFINE aj == winners[j].slot_idx
               sj == winners[j].slot_size
               len == Len(Text(j))
    <3>1. /\ aj \in Nat /\ sj \in Nat /\ at \in Nat /\ winners[k].slot_size \in Nat
          /\ aj + sj <= at \/ at + winners[k].slot_size <= aj
      BY <1>2, <1>3, <2>1
    <3>2. len \in Nat /\ len <= sj
          /\ Plain(j)[x] = IF x - aj \in 1 .. len THEN Text(j)[x - aj] ELSE {}
      BY <1>4, <1>12 DEF TextFits
    <3>3. x - aj \notin 1 .. len
      <4> HIDE DEF aj, sj, len, at
      <4> QED BY <3>1, <3>2
    <3> QED BY <3>2, <3>3
  <2>2. Plain(k)[x] = IF i \in 1 .. Len(Text(k)) THEN Text(k)[i] ELSE {}
    <3>1. at \in Nat /\ i \in Int
      BY <1>3
    <3>2. x - at = i
      BY <3>1
    <3>3. Plain(k)[x] = IF x - at \in 1 .. Len(Text(k)) THEN Text(k)[x - at] ELSE {}
      BY <1>4, <1>12 DEF TextFits
    <3> QED BY <3>2, <3>3
  <2>3. \A b : b \in vec[x] <=> b \in Plain(k)[x]
    <3>1. x \in 1 .. vec_len
      BY <1>12
    <3> HIDE DEF x
    <3>2. \A b : b \in vec[x] <=> \E j \in 1 .. m : b \in Plain(j)[x]
      BY <1>11, <3>1
    <3> QED BY <2>1, <3>2
  <2>4. vec[x] \in SUBSET Unknown /\ Plain(k)[x] \in SUBSET Unknown
    BY <1>4, <1>10, <1>12 DEF TextFits, Vecs
  <2> HIDE DEF x
  <2>5. vec[x] = Plain(k)[x]
    BY <2>3, <2>4
  <2> QED BY <2>2, <2>5 DEF x
<1>13. ASSUME NEW k \in 1 .. m
       PROVE  /\ \A i \in DOMAIN payloads'[k] :
                   payloads'[k][i] = IF i \in DOMAIN Text(k) THEN Text(k)[i] ELSE {}
              /\ Len(Text(k)) <= Len(payloads'[k])
              /\ vec_len >= Allocated(winners) =>
                   written[k] # None /\ Len(payloads'[k]) = winners[k].slot_size
  <2> DEFINE at == winners[k].slot_idx
             size == winners[k].slot_size
             part == ReadSlot(vec, winners[k])
             text == Text(k)
  <2>1. payloads'[k] = part
    BY <1>3, <1>8
  <2>2. at \in Nat /\ size \in Nat /\ k \in DOMAIN winners
    BY <1>3
  <2>3. /\ part \in Seq(SUBSET Unknown) /\ Len(part) <= size
        /\ \A l \in 0 .. size : at + l <= vec_len => l <= Len(part)
        /\ \A i \in 1 .. Len(part) : at + i \in 1 .. vec_len /\ part[i] = vec[at + i]
    BY <1>2, <1>10, <2>2, SlotIsPart
  <2>4. /\ text \in Seq(SUBSET Unknown) /\ Len(text) <= size
        /\ Len(text) = 0 \/ at + Len(text) <= vec_len
        /\ written[k] = None => at + size > vec_len
    BY <1>4 DEF TextFits
  <2>5. at + size <= Allocated(winners)
    BY <1>3a
  <2>6. \A i \in 1 .. size : at + i \in 1 .. vec_len =>
          vec[at + i] = IF i \in 1 .. Len(text) THEN text[i] ELSE {}
    BY <1>12
  <2> HIDE DEF at, size, part, text
  <2>7. \A i \in 1 .. Len(part) : part[i] = IF i \in 1 .. Len(text) THEN text[i] ELSE {}
    <3>1. \A i \in 1 .. Len(part) : i \in 1 .. size
      BY <2>2, <2>3
    <3> QED BY <2>3, <2>6, <3>1
  <2>8. Len(text) <= Len(part)
    <3>1. Len(text) \in 0 .. size /\ Len(part) \in Nat
      BY <2>2, <2>3, <2>4
    <3> QED BY <2>3, <2>4, <3>1
  <2>9. ASSUME vec_len >= Allocated(winners)
        PROVE  written[k] # None /\ Len(part) = size
    <3>1. at + size <= vec_len
      BY <1>2, <1>3b, <2>2, <2>5, <2>9
    <3>2. size <= Len(part)
      BY <2>2, <2>3, <3>1
    <3> QED BY <1>2, <2>2, <2>3, <2>4, <3>1, <3>2
  <2>10. DOMAIN part = 1 .. Len(part) /\ DOMAIN text = 1 .. Len(text)
    BY <2>3, <2>4
  <2> QED BY <2>1, <2>7, <2>8, <2>9, <2>10 DEF size, text
<1>14. \A k \in DOMAIN winners :
         LET p == IF written[k] = None THEN <<>> ELSE written[k]
         IN  /\ \A i \in DOMAIN payloads'[k] :
                  payloads'[k][i] = IF i \in DOMAIN p THEN p[i] ELSE {}
             /\ Len(p) <= Len(payloads'[k])
             /\ vec_len >= Allocated(winners) =>
                  written[k] # None /\ Len(payloads'[k]) = winners[k].slot_size
  BY <1>3, <1>13 DEF Text
<1>15. Allocated(winners)' = Allocated(winners)
  BY <1>1 DEF Allocated
<1> QED BY <1>1, <1>14, <1>15 DEF SlotsCarryPayloads

\* What is read in a slot is what its winner wrote, then zeros, whatever the
\* winners, the threads that sum up and the length of the vectors: the pads of
\* the clients are those that the servers take off, and no slot reaches into
\* another's.
THEOREM PayloadsAreRead == Spec => []SlotsCarryPayloads
<1> DEFINE J == IInv /\ Carrying /\ SlotsCarryPayloads
<1>1. Init => J
  <2> SUFFICES ASSUME Init PROVE Carrying /\ SlotsCarryPayloads
    BY InvInit
  <2>1. /\ vec_len = 0 /\ written = <<>> /\ vectors = <<>> /\ payloads = None
    BY DEF Init
  <2>2. vectors \in Seq(Vecs(vec_len)) /\ Len(vectors) = 0
    BY <2>1
  <2> QED BY <2>1, <2>2 DEF Carrying, SlotsCarryPayloads
<1>2. ASSUME J, [Next]_vars PROVE J'
  <2>1. IInv' /\ Sale
    BY <1>2, InvStep DEF IInv
  <2>2. Carrying'
    BY <1>2, <2>1, CarryingStep
  <2>3. SlotsCarryPayloads'
    <3>1. CASE \E n \in Threads : read_slots(n)
      BY <1>2, <2>1, <3>1, ReadCarries
    <3>2. CASE UNCHANGED vars
      <4>1. Allocated(winners)' = Allocated(winners)
        BY <3>2 DEF vars, Allocated
      <4> QED BY <1>2, <3>2, <4>1 DEF vars, SlotsCarryPayloads
    <3>3. CASE \/ \E bid \in Bids : insert_bid(bid)
               \/ decode_winners
               \/ \E n \in PayloadLengths : write_slot(n)
      <4>1. payloads = None /\ payloads' = payloads
        BY <1>2, <3>3 DEF Carrying, insert_bid, decode_winners, write_slot
      <4> QED BY <4>1 DEF SlotsCarryPayloads
    <3> QED BY <1>2, <3>1, <3>2, <3>3 DEF Next
  <2> QED BY <2>1, <2>2, <2>3
<1>3. J => SlotsCarryPayloads
  OBVIOUS
<1> QED BY <1>1, <1>2, <1>3, PTL DEF Spec
=============================================================================
