----------------------------- MODULE IbltProofs -----------------------------
(***************************************************************************)
(* Proofs about FieldVectors, Iblt and IbltRound, for any field, any       *)
(* number of rows and columns, any hash, any number of entries, clients    *)
(* and servers, and any keystreams they share.                             *)
(*                                                                         *)
(* Whatever the table, it is at every turn of recover the sum of what is   *)
(* left of it and of the entries recovered.  If it came through unaltered, *)
(* what is left is the table of the entries not yet recovered, in any      *)
(* order: so a cell that counts one holds one of them, and as every such   *)
(* cell is in the queue, what is left at its end has none.                 *)
(*                                                                         *)
(* A table comes through unaltered because the blinded vectors always add  *)
(* up to the encoding of all entries and the pads of those who have sent   *)
(* one, and because the sum of the pads client by client is their sum      *)
(* server by server, in whatever order, chunks and lanes they are added.   *)
(***************************************************************************)
EXTENDS IbltRound, AuctionProofs

-----------------------------------------------------------------------------
(***************************************************************************)
(* The field.                                                              *)
(***************************************************************************)
LEMMA ModOnce ==
  ASSUME NEW x \in 0 .. 2 * P - 1
  PROVE  x % P = IF x < P THEN x ELSE x - P
  BY FieldAssumption

LEMMA ModBelow ==
  ASSUME NEW x \in Int, -P < x, x < P
  PROVE  x % P = IF x < 0 THEN x + P ELSE x
  BY FieldAssumption

LEMMA AddModInField ==
  ASSUME NEW a \in Field, NEW b \in Field
  PROVE  AddMod(a, b) \in Field /\ SubMod(a, b) \in Field
  BY ModOnce, ModBelow, FieldAssumption DEF AddMod, SubMod, Field

\* Addition in the field, as far as tables need it.
LEMMA AddModLaws ==
  ASSUME NEW a \in Field, NEW b \in Field, NEW c \in Field
  PROVE  /\ AddMod(0, a) = a /\ AddMod(a, 0) = a
         /\ AddMod(AddMod(a, b), c) = AddMod(AddMod(a, c), b)
         /\ AddMod(SubMod(a, b), AddMod(c, b)) = AddMod(a, c)
         /\ SubMod(AddMod(a, b), b) = a
<1>3. \A x, y \in Field : AddMod(x, y) = IF x + y < P THEN x + y ELSE x + y - P
  BY ModOnce, FieldAssumption DEF AddMod, Field
<1>4. \A x, y \in Field : SubMod(x, y) = IF x - y < 0 THEN x - y + P ELSE x - y
  BY ModBelow, FieldAssumption DEF SubMod, Field
<1>1. /\ AddMod(a, b) = IF a + b < P THEN a + b ELSE a + b - P
      /\ AddMod(a, c) = IF a + c < P THEN a + c ELSE a + c - P
      /\ AddMod(c, b) = IF c + b < P THEN c + b ELSE c + b - P
      /\ SubMod(a, b) = IF a - b < 0 THEN a - b + P ELSE a - b
      /\ AddMod(0, a) = a /\ AddMod(a, 0) = a
  <2>1. 0 \in Field /\ 0 + a < P /\ a + 0 < P /\ 0 + a = a /\ a + 0 = a
    BY FieldAssumption DEF Field
  <2> QED BY <1>3, <1>4, <2>1
<1>2. /\ AddMod(a, b) \in Field /\ AddMod(a, c) \in Field /\ AddMod(c, b) \in Field
      /\ SubMod(a, b) \in Field
  BY AddModInField
<1>5. AddMod(AddMod(a, b), c) = AddMod(AddMod(a, c), b)
  <2>1. AddMod(AddMod(a, b), c) = IF AddMod(a, b) + c < P THEN AddMod(a, b) + c ELSE AddMod(a, b) + c - P
    BY <1>2, <1>3
  <2>2. AddMod(AddMod(a, c), b) = IF AddMod(a, c) + b < P THEN AddMod(a, c) + b ELSE AddMod(a, c) + b - P
    BY <1>2, <1>3
  <2> QED BY <1>1, <2>1, <2>2, FieldAssumption DEF Field
<1>6. AddMod(SubMod(a, b), AddMod(c, b)) = AddMod(a, c)
  <2>1. AddMod(SubMod(a, b), AddMod(c, b))
          = IF SubMod(a, b) + AddMod(c, b) < P THEN SubMod(a, b) + AddMod(c, b)
            ELSE SubMod(a, b) + AddMod(c, b) - P
    BY <1>2, <1>3
  <2> QED BY <1>1, <2>1, FieldAssumption DEF Field
<1>7. SubMod(AddMod(a, b), b) = a
  <2>1. SubMod(AddMod(a, b), b)
          = IF AddMod(a, b) - b < 0 THEN AddMod(a, b) - b + P ELSE AddMod(a, b) - b
    BY <1>2, <1>4
  <2> QED BY <1>1, <2>1, FieldAssumption DEF Field
<1> QED BY <1>1, <1>5, <1>6, <1>7

-----------------------------------------------------------------------------
(***************************************************************************)
(* The slices: a machine with AVX2 computes what one without it computes,  *)
(* for every field and word size with two elements to a word.              *)
(***************************************************************************)
\* The biased comparison is that of the unsigned words.
LEMMA FlippedOrder ==
  ASSUME NEW x \in Words, NEW y \in Words
  PROVE  CmpGt(SignFlip(x), SignFlip(y)) <=> x > y
  BY FieldAssumption DEF CmpGt, SignFlip, Signed, Words, Word

\* One lane of add_mod_slice_avx2 is add_mod.
THEOREM LaneAddIsAddMod ==
  ASSUME NEW a \in Field, NEW b \in Field
  PROVE  LaneAdd(a, b) = AddMod(a, b)
<1> DEFINE s == WrapAdd(a, b)
<1>1. s = a + b /\ s \in Words /\ P - 1 \in Words
  BY FieldAssumption DEF WrapAdd, Field, Words, Word
<1>2. CmpGt(SignFlip(s), SignFlip(P - 1)) <=> s >= P
  BY <1>1, FlippedOrder, FieldAssumption DEF Words, Word
<1>3. LaneAdd(a, b) = IF s >= P THEN WrapSub(s, P) ELSE s
  BY <1>2 DEF LaneAdd
<1>4. s >= P => WrapSub(s, P) = s - P
  BY <1>1, FieldAssumption DEF WrapSub, Words, Word
<1>5. (a + b) % P = IF a + b < P THEN a + b ELSE a + b - P
  BY ModOnce, FieldAssumption DEF Field
<1> QED
  BY <1>1, <1>3, <1>4, <1>5, FieldAssumption DEF AddMod, Field

\* One lane of sub_mod_slice_avx2 is sub_mod.
THEOREM LaneSubIsSubMod ==
  ASSUME NEW a \in Field, NEW b \in Field
  PROVE  LaneSub(a, b) = SubMod(a, b)
<1> DEFINE d == WrapSub(a, b)
<1>1. a \in Words /\ b \in Words
  BY FieldAssumption DEF Field, Words, Word
<1>2. CmpGt(SignFlip(b), SignFlip(a)) <=> b > a
  BY <1>1, FlippedOrder
<1>3. LaneSub(a, b) = IF b > a THEN WrapAdd(d, P) ELSE d
  BY <1>2 DEF LaneSub
<1>4. b > a => WrapAdd(d, P) = a - b + P
  BY FieldAssumption DEF WrapAdd, WrapSub, Field, Word
<1>5. ~(b > a) => d = a - b
  BY DEF WrapSub, Field
<1>6. (a - b) % P = IF a - b < 0 THEN a - b + P ELSE a - b
  BY ModBelow, FieldAssumption DEF Field
<1> QED
  BY <1>3, <1>4, <1>5, <1>6, FieldAssumption DEF SubMod, Field

\* add_mod_slice and sub_mod_slice take the same values with lanes and without,
\* whatever the lengths of the slices.
THEOREM LanesAgree ==
  ASSUME NEW dst \in Seq(Field), NEW src \in Seq(Field)
  PROVE  /\ AddModSlice(dst, src, TRUE) = AddModSlice(dst, src, FALSE)
         /\ SubModSlice(dst, src, TRUE) = SubModSlice(dst, src, FALSE)
<1> DEFINE n == Shorter(dst, src)
<1>1. ASSUME NEW i \in DOMAIN dst, ~(i > n)
      PROVE  dst[i] \in Field /\ src[i] \in Field
  BY <1>1 DEF Shorter
<1>2. ASSUME NEW i \in DOMAIN dst, ~(i > n)
      PROVE  /\ LaneAdd(dst[i], src[i]) = AddMod(dst[i], src[i])
             /\ LaneSub(dst[i], src[i]) = SubMod(dst[i], src[i])
  BY <1>1, <1>2, LaneAddIsAddMod, LaneSubIsSubMod
<1> QED
  BY <1>2 DEF AddModSlice, SubModSlice

LEMMA ScalarSlices ==
  ASSUME NEW dst \in Seq(Field), NEW src \in Seq(Field), Len(dst) = Len(src)
  PROVE  /\ AddModSlice(dst, src, FALSE) = [i \in DOMAIN dst |-> AddMod(dst[i], src[i])]
         /\ SubModSlice(dst, src, FALSE) = [i \in DOMAIN dst |-> SubMod(dst[i], src[i])]
         /\ AddModSlice(dst, src, FALSE) \in Seq(Field)
         /\ Len(AddModSlice(dst, src, FALSE)) = Len(dst)
<1>1. \A i \in DOMAIN dst : ~(i > Shorter(dst, src)) /\ dst[i] \in Field /\ src[i] \in Field
  BY DEF Shorter
<1>2. /\ AddModSlice(dst, src, FALSE) = [i \in DOMAIN dst |-> AddMod(dst[i], src[i])]
      /\ SubModSlice(dst, src, FALSE) = [i \in DOMAIN dst |-> SubMod(dst[i], src[i])]
  BY <1>1 DEF AddModSlice, SubModSlice, InLanes
<1>3. \A i \in DOMAIN dst : AddMod(dst[i], src[i]) \in Field
  BY <1>1, AddModInField
<1>4. [i \in 1 .. Len(dst) |-> AddMod(dst[i], src[i])] \in Seq(Field)
  BY <1>3
<1>5. DOMAIN dst = 1 .. Len(dst) /\ Len(dst) \in Nat
  OBVIOUS
<1>6. AddModSlice(dst, src, FALSE) = [i \in 1 .. Len(dst) |-> AddMod(dst[i], src[i])]
  BY <1>2, <1>5
<1>7. Len(AddModSlice(dst, src, FALSE)) = Len(dst)
  <2> DEFINE sum == [i \in 1 .. Len(dst) |-> AddMod(dst[i], src[i])]
  <2>1. sum \in Seq(Field) /\ DOMAIN sum = 1 .. Len(dst)
    BY <1>4
  <2> HIDE DEF sum
  <2>2. Len(sum) \in Nat /\ DOMAIN sum = 1 .. Len(sum)
    BY <2>1
  <2>3. Len(sum) = Len(dst)
    BY <1>5, <2>1, <2>2
  <2> QED
    BY <1>6, <2>3 DEF sum
<1> QED
  BY <1>2, <1>4, <1>6, <1>7

\* What a share takes off is what the pads have added: sub_mod_slice undoes
\* add_mod_slice, on one machine or on two.
THEOREM SubUndoesAdd ==
  ASSUME NEW dst \in Seq(Field), NEW pad \in Seq(Field), Len(dst) = Len(pad),
         NEW avx2 \in BOOLEAN, NEW host \in BOOLEAN
  PROVE  SubModSlice(AddModSlice(dst, pad, host), pad, avx2) = dst
<1> DEFINE sum == AddModSlice(dst, pad, FALSE)
<1>1. /\ sum = [i \in DOMAIN dst |-> AddMod(dst[i], pad[i])]
      /\ sum \in Seq(Field) /\ Len(sum) = Len(pad)
  BY ScalarSlices
<1>2. AddModSlice(dst, pad, host) = sum
  BY LanesAgree
<1>3. SubModSlice(sum, pad, avx2) = SubModSlice(sum, pad, FALSE)
  BY <1>1, LanesAgree
<1>4. SubModSlice(sum, pad, FALSE) = [i \in DOMAIN sum |-> SubMod(sum[i], pad[i])]
  BY <1>1, ScalarSlices
<1>5. ASSUME NEW i \in DOMAIN dst
      PROVE  SubMod(sum[i], pad[i]) = dst[i]
  <2>1. dst[i] \in Field /\ pad[i] \in Field
    OBVIOUS
  <2>2. SubMod(AddMod(dst[i], pad[i]), pad[i]) = dst[i]
    BY <2>1, AddModLaws
  <2> QED
    BY <1>1, <2>2
<1>6. DOMAIN sum = DOMAIN dst
  BY <1>1
<1>7. SubModSlice(sum, pad, FALSE) = [i \in DOMAIN dst |-> dst[i]]
  BY <1>4, <1>5, <1>6
<1>8. dst = [i \in DOMAIN dst |-> dst[i]]
  OBVIOUS
<1> HIDE DEF sum
<1> QED
  BY <1>2, <1>3, <1>7, <1>8

-----------------------------------------------------------------------------
(***************************************************************************)
(* Tables of entries.                                                      *)
(***************************************************************************)
\* Tables whose counters are any numbers.
CellValues == [counter : Nat, key : Field, value : Field]
AnyTables  == [Cells -> CellValues]
Empty      == [c \in Cells |-> Zero]

LEMMA EmptyTable == Empty \in AnyTables
  BY FieldAssumption DEF Empty, AnyTables, CellValues, Zero, Field

LEMMA EntriesInField ==
  ASSUME NEW e \in Entries
  PROVE  e.key \in Field /\ e.value \in Field /\ e.key \in Keys /\ e.value \in Keys
         /\ e.key < Packed /\ e.value < Packed /\ e = [key |-> e.key, value |-> e.value]
  BY TableAssumption, FieldAssumption DEF Entries, Keys, Field

LEMMA PlusTyped ==
  ASSUME NEW cell \in CellValues, NEW e \in Entries
  PROVE  Plus(cell, e) \in CellValues
  BY EntriesInField, AddModInField DEF CellValues, Plus

LEMMA WithEntryTyped ==
  ASSUME NEW t \in AnyTables, NEW e \in Entries
  PROVE  WithEntry(t, e) \in AnyTables
  BY PlusTyped DEF AnyTables, WithEntry

\* The running table of a sequence of entries.
Steps(s) == [i \in 1 .. Len(s) |-> [t \in AnyTables |-> WithEntry(t, s[i])]]

LEMMA EncodedIsFold ==
  ASSUME NEW s \in Seq(Entries)
  PROVE  \E f : IsFold(f, Len(s), AnyTables, Empty, Steps(s)) /\ Encoded(s) = f[Len(s)]
<1> DEFINE n == Len(s)
           body(it) == [x \in SUBSET (1 .. n) |->
                          IF x = {} THEN Empty ELSE WithEntry(it[x \ {Max(x)}], s[Max(x)])]
           iter == CHOOSE it : it = body(it)
           greatest == [x \in SUBSET (1 .. n) |-> Max(x)]
<1>0. n \in Nat /\ DOMAIN s = 1 .. n /\ \A i \in 1 .. n : s[i] \in Entries
  OBVIOUS
<1>1. \A x \in SUBSET (1 .. n) : x # {} => Max(x) \in x /\ \A y \in x : Max(x) >= y
  <2> TAKE x \in SUBSET (1 .. n)
  <2> HAVE x # {}
  <2>1. \E m \in x : \A y \in x : m >= y
    BY <1>0, GreatestExists
  <2> QED BY <2>1 DEF Max
<1>2. Steps(s) \in [1 .. n -> [AnyTables -> AnyTables]]
  BY <1>0, WithEntryTyped DEF Steps
<1>3. \A i \in 1 .. n : \A t \in AnyTables : Steps(s)[i][t] = WithEntry(t, s[i])
  BY <1>0 DEF Steps
<1>4. \E it : it = body(it)
  <2>1. IsFiniteSet(1 .. n)
    BY <1>0, FS_Interval
  <2>2. \A x \in SUBSET (1 .. n) : x # {} => greatest[x] \in x
    BY <1>1
  <2> HIDE DEF n
  <2>3. PICK it : IsSubsetRecursion(it, 1 .. n, AnyTables, Empty, Steps(s), greatest)
    <3> HIDE DEF greatest
    <3> QED BY <2>1, <2>2, <1>2, EmptyTable, SubsetRecursion
  <2>4. it = [x \in SUBSET (1 .. n) |-> it[x]]
    BY <2>3 DEF IsSubsetRecursion
  <2>5. \A x \in SUBSET (1 .. n) :
          it[x] = IF x = {} THEN Empty ELSE WithEntry(it[x \ {Max(x)}], s[Max(x)])
    <3> TAKE x \in SUBSET (1 .. n)
    <3>1. it[x] = IF x = {} THEN Empty ELSE Steps(s)[greatest[x]][it[x \ {greatest[x]}]]
      BY <2>3 DEF IsSubsetRecursion
    <3>2. CASE x = {}
      BY <3>1, <3>2
    <3>3. CASE x # {}
      <4>1. greatest[x] = Max(x) /\ Max(x) \in 1 .. n
        BY <1>1, <3>3
      <4>2. it[x \ {Max(x)}] \in AnyTables
        BY <2>3 DEF IsSubsetRecursion
      <4> QED BY <3>1, <3>3, <4>1, <4>2, <1>3
    <3> QED BY <3>2, <3>3
  <2> QED BY <2>4, <2>5
<1>5. iter = body(iter)
  BY <1>4
<1>6. Encoded(s) = iter[1 .. n]
  <2>1. iter = CHOOSE it : it = [x \in SUBSET DOMAIN s |-> IF x = {} THEN [c \in Cells |-> Zero]
                                   ELSE WithEntry(it[x \ {Max(x)}], s[Max(x)])]
    BY <1>0 DEF Empty
  <2> HIDE DEF iter
  <2>2. Encoded(s) = iter[DOMAIN s]
    BY <2>1 DEF Encoded, FoldLeft, MapThenFoldSet
  <2> QED BY <1>0, <2>2
<1>7. \A x \in SUBSET (1 .. n) :
        iter[x] = IF x = {} THEN Empty ELSE WithEntry(iter[x \ {Max(x)}], s[Max(x)])
  <2> HIDE DEF iter
  <2> QED BY <1>5
<1> HIDE DEF iter, body
<1>8. iter[{}] = Empty
  BY <1>7
<1>9. ASSUME NEW k \in 0 .. n - 1, iter[1 .. k] \in AnyTables
      PROVE  iter[1 .. k + 1] = Steps(s)[k + 1][iter[1 .. k]]
  <2> DEFINE x == 1 .. k + 1
  <2>0. k \in Nat /\ k + 1 \in 1 .. n /\ n \in Nat
    BY <1>0
  <2>1. x \in SUBSET (1 .. n) /\ x # {} /\ k + 1 \in 1 .. n /\ k + 1 \in x
    <3> HIDE DEF n
    <3>1. \A y \in x : y \in 1 .. n
      BY <2>0
    <3>2. k + 1 \in x
      BY <2>0
    <3> HIDE DEF x
    <3> QED BY <2>0, <3>1, <3>2
  <2>e. x = 1 .. k + 1
    OBVIOUS
  <2> HIDE DEF x
  <2>2. Max(x) = k + 1
    <3>1. Max(x) \in x /\ Max(x) >= k + 1
      BY <2>1, <1>1
    <3> QED BY <2>1, <2>e, <3>1
  <2>3. x \ {k + 1} = 1 .. k
    BY <2>e
  <2>4. iter[x] = WithEntry(iter[1 .. k], s[k + 1])
    BY <2>1, <2>2, <2>3, <1>7
  <2> QED BY <2>1, <2>4, <2>e, <1>9, <1>3
<1> HIDE DEF n
<1> QED
  BY <1>0, <1>2, <1>6, <1>8, <1>9, EmptyTable, FoldByGreatest, SMTT(30) DEF n

\* The table of no entries is empty, and an entry more is inserted last.
LEMMA EncodedAppend ==
  /\ Encoded(<<>>) = Empty
  /\ \A s \in Seq(Entries) :
       /\ Encoded(s) \in AnyTables
       /\ \A e \in Entries : Encoded(Append(s, e)) = WithEntry(Encoded(s), e)
<1>1. Encoded(<<>>) = Empty
  <2>1. <<>> \in Seq(Entries) /\ Len(<<>>) = 0
    OBVIOUS
  <2>2. PICK f : IsFold(f, Len(<<>>), AnyTables, Empty, Steps(<<>>)) /\ Encoded(<<>>) = f[Len(<<>>)]
    BY <2>1, EncodedIsFold
  <2> QED BY <2>1, <2>2 DEF IsFold
<1>2. ASSUME NEW s \in Seq(Entries)
      PROVE  Encoded(s) \in AnyTables
  <2>1. PICK f : IsFold(f, Len(s), AnyTables, Empty, Steps(s)) /\ Encoded(s) = f[Len(s)]
    BY EncodedIsFold
  <2> QED BY <2>1 DEF IsFold
<1>3. ASSUME NEW s \in Seq(Entries), NEW e \in Entries
      PROVE  Encoded(Append(s, e)) = WithEntry(Encoded(s), e)
  <2> DEFINE n == Len(s)
             t == Append(s, e)
  <2>1. t \in Seq(Entries) /\ Len(t) = n + 1 /\ n \in Nat /\ t[n + 1] = e
        /\ \A i \in 1 .. n : t[i] = s[i]
    OBVIOUS
  <2> HIDE DEF t
  <2>2. PICK f : IsFold(f, n, AnyTables, Empty, Steps(s)) /\ Encoded(s) = f[n]
    BY EncodedIsFold
  <2>3. PICK h : IsFold(h, n + 1, AnyTables, Empty, Steps(t)) /\ Encoded(t) = h[n + 1]
    BY <2>1, EncodedIsFold
  <2>4. \A i \in 1 .. n : Steps(s)[i] = Steps(t)[i]
    BY <2>1 DEF Steps
  <2>5. f[n] = h[n]
    <3>1. n <= n + 1 /\ n + 1 \in Nat /\ n \in 0 .. n
      BY <2>1
    <3> HIDE DEF n
    <3> QED BY <2>1, <2>2, <2>3, <2>4, <3>1, FoldPrefix
  <2>6. h[n] \in AnyTables /\ h[n + 1] = Steps(t)[n + 1][h[n]]
    BY <2>1, <2>3 DEF IsFold
  <2>7. h[n + 1] = WithEntry(h[n], e)
    BY <2>1, <2>6 DEF Steps
  <2> QED BY <2>2, <2>3, <2>5, <2>7 DEF t
<1> QED BY <1>1, <1>2, <1>3

\* The table does not change as long as the hash does not.
LEMMA EncodedFrame ==
  ASSUME chunk_index' = chunk_index, NEW s
  PROVE  Encoded(s)' = Encoded(s)
  BY DEF Encoded, WithEntry, CellsOf, FoldLeft, MapThenFoldSet

LEMMA WithEntryAt ==
  ASSUME NEW t \in AnyTables, NEW e \in Entries, NEW c \in Cells
  PROVE  /\ t[c] \in CellValues
         /\ WithEntry(t, e)[c] = IF c \in CellsOf(e.key) THEN Plus(t[c], e) ELSE t[c]
  BY DEF AnyTables, WithEntry

\* The order in which two entries are inserted does not matter.
LEMMA WithEntryCommutes ==
  ASSUME NEW t \in AnyTables, NEW a \in Entries, NEW b \in Entries
  PROVE  WithEntry(WithEntry(t, a), b) = WithEntry(WithEntry(t, b), a)
<1>1. ASSUME NEW cell \in CellValues
      PROVE  Plus(Plus(cell, a), b) = Plus(Plus(cell, b), a)
  <2>1. /\ cell.counter \in Nat /\ cell.key \in Field /\ cell.value \in Field
        /\ a.key \in Field /\ a.value \in Field /\ b.key \in Field /\ b.value \in Field
    BY EntriesInField DEF CellValues
  <2>2. /\ AddMod(AddMod(cell.key, a.key), b.key) = AddMod(AddMod(cell.key, b.key), a.key)
        /\ AddMod(AddMod(cell.value, a.value), b.value) = AddMod(AddMod(cell.value, b.value), a.value)
    BY <2>1, AddModLaws
  <2> QED BY <2>1, <2>2 DEF Plus
<1>2. WithEntry(t, a) \in AnyTables /\ WithEntry(t, b) \in AnyTables
  BY WithEntryTyped
<1>3. ASSUME NEW c \in Cells
      PROVE  WithEntry(WithEntry(t, a), b)[c] = WithEntry(WithEntry(t, b), a)[c]
  <2>1. t[c] \in CellValues
    BY DEF AnyTables
  <2>2. Plus(Plus(t[c], a), b) = Plus(Plus(t[c], b), a)
    BY <2>1, <1>1
  <2>3. /\ WithEntry(t, a)[c] = IF c \in CellsOf(a.key) THEN Plus(t[c], a) ELSE t[c]
        /\ WithEntry(t, b)[c] = IF c \in CellsOf(b.key) THEN Plus(t[c], b) ELSE t[c]
    BY WithEntryAt
  <2>4. WithEntry(WithEntry(t, a), b)[c]
          = IF c \in CellsOf(b.key) THEN Plus(WithEntry(t, a)[c], b) ELSE WithEntry(t, a)[c]
    BY <1>2, WithEntryAt
  <2>5. WithEntry(WithEntry(t, b), a)[c]
          = IF c \in CellsOf(a.key) THEN Plus(WithEntry(t, b)[c], a) ELSE WithEntry(t, b)[c]
    BY <1>2, WithEntryAt
  <2> QED BY <2>2, <2>3, <2>4, <2>5
<1>4. WithEntry(WithEntry(t, a), b) \in AnyTables /\ WithEntry(WithEntry(t, b), a) \in AnyTables
  BY <1>2, WithEntryTyped
<1>5. \A x, y \in AnyTables : (\A c \in Cells : x[c] = y[c]) => x = y
  BY DEF AnyTables
<1> QED BY <1>3, <1>4, <1>5

-----------------------------------------------------------------------------
(***************************************************************************)
(* Sequences of entries, counted.                                          *)
(***************************************************************************)
Times(s, e) == Cardinality({i \in DOMAIN s : s[i] = e})

\* A sequence that is not empty has a last element.
LEMMA LastOf ==
  ASSUME NEW n \in Nat, NEW s \in Seq(Entries), Len(s) = n + 1
  PROVE  \E r \in Seq(Entries), x \in Entries :
           s = Append(r, x) /\ Len(r) = n /\ x = s[n + 1]
           /\ \A k \in 1 .. n : r[k] = s[k]
<1> DEFINE r == [j \in 1 .. n |-> s[j]]
<1>1. s[n + 1] \in Entries /\ \A j \in 1 .. n : s[j] \in Entries
  OBVIOUS
<1>2. r \in Seq(Entries) /\ Len(r) = n /\ \A j \in 1 .. n : r[j] = s[j]
  BY <1>1
<1> HIDE DEF r
<1>3. s = Append(r, s[n + 1])
  BY <1>1, <1>2
<1> QED BY <1>1, <1>2, <1>3

LEMMA AppendFacts ==
  ASSUME NEW s \in Seq(Entries), NEW x \in Entries
  PROVE  /\ Append(s, x) \in Seq(Entries) /\ Len(s) \in Nat /\ Len(Append(s, x)) = Len(s) + 1
         /\ DOMAIN s = 1 .. Len(s) /\ DOMAIN Append(s, x) = 1 .. Len(s) + 1
         /\ Append(s, x)[Len(s) + 1] = x
         /\ \A j \in 1 .. Len(s) : Append(s, x)[j] = s[j] /\ s[j] \in Entries
  OBVIOUS

LEMMA TimesAppend ==
  /\ \A e : Times(<<>>, e) = 0
  /\ \A s \in Seq(Entries) : \A e :
       /\ Times(s, e) \in Nat
       /\ \A x \in Entries : Times(Append(s, x), e) = Times(s, e) + (IF x = e THEN 1 ELSE 0)
       /\ Times(s, e) > 0 => \E i \in 1 .. Len(s) : s[i] = e
       /\ \A i \in 1 .. Len(s) : s[i] = e => Times(s, e) > 0
       /\ \A i, j \in 1 .. Len(s) : i # j /\ s[i] = e /\ s[j] = e => Times(s, e) > 1
<1>1. \A e : Times(<<>>, e) = 0
  BY FS_EmptySet DEF Times
<1>2. ASSUME NEW s \in Seq(Entries), NEW e
      PROVE  /\ Times(s, e) \in Nat
             /\ \A x \in Entries : Times(Append(s, x), e) = Times(s, e) + (IF x = e THEN 1 ELSE 0)
             /\ Times(s, e) > 0 => \E i \in 1 .. Len(s) : s[i] = e
             /\ \A i \in 1 .. Len(s) : s[i] = e => Times(s, e) > 0
             /\ \A i, j \in 1 .. Len(s) : i # j /\ s[i] = e /\ s[j] = e => Times(s, e) > 1
  <2> DEFINE At1 == {i \in DOMAIN s : s[i] = e}
  <2>1. DOMAIN s = 1 .. Len(s) /\ Len(s) \in Nat /\ At1 \subseteq 1 .. Len(s)
    OBVIOUS
  <2>2. IsFiniteSet(1 .. Len(s))
    BY <2>1, FS_Interval
  <2>3. IsFiniteSet(At1) /\ Cardinality(At1) \in Nat
    <3> HIDE DEF At1
    <3> QED BY <2>1, <2>2, FS_Subset, FS_CardinalityType
  <2>4. \A i : i \in At1 <=> i \in 1 .. Len(s) /\ s[i] = e
    BY <2>1
  <2>5. Times(s, e) = Cardinality(At1)
    BY DEF Times
  <2> HIDE DEF At1
  <2>6. ASSUME NEW x \in Entries
        PROVE  Times(Append(s, x), e) = Times(s, e) + (IF x = e THEN 1 ELSE 0)
    <3> DEFINE t == Append(s, x)
               m == Len(s) + 1
    <3>1. /\ DOMAIN t = 1 .. m /\ t[m] = x /\ \A j \in 1 .. Len(s) : t[j] = s[j]
      BY AppendFacts
    <3>t. Times(t, e) = Cardinality({j \in DOMAIN t : t[j] = e})
      BY DEF Times
    <3> HIDE DEF t
    <3>2. \A i : i \in {j \in DOMAIN t : t[j] = e} <=> i \in At1 \/ (i = m /\ x = e)
      BY <2>1, <2>4, <3>1
    <3>3. m \notin At1
      BY <2>1
    <3>4. CASE x = e
      <4>1. {j \in DOMAIN t : t[j] = e} = At1 \cup {m}
        BY <3>2, <3>4
      <4>2. Cardinality(At1 \cup {m}) = Cardinality(At1) + 1
        BY <2>3, <3>3, FS_AddElement
      <4> QED BY <2>5, <3>4, <3>t, <4>1, <4>2 DEF t
    <3>5. CASE x # e
      <4>1. {j \in DOMAIN t : t[j] = e} = At1
        BY <3>2, <3>5
      <4>2. Times(t, e) = Cardinality(At1)
        BY <3>t, <4>1, Zenon
      <4>3. Times(t, e) = Times(s, e) + 0
        BY <2>3, <2>5, <4>2
      <4> QED BY <3>5, <4>3 DEF t
    <3> QED BY <3>4, <3>5
  <2>7. Times(s, e) > 0 => \E i \in 1 .. Len(s) : s[i] = e
    <3>1. At1 = {} => Cardinality(At1) = 0
      BY FS_EmptySet
    <3> QED BY <2>3, <2>4, <2>5, <3>1
  <2>8. \A i \in 1 .. Len(s) : s[i] = e => Times(s, e) > 0
    <3>1. Cardinality(At1) = 0 => At1 = {}
      BY <2>3, FS_EmptySet
    <3> QED BY <2>3, <2>4, <2>5, <3>1
  <2>9. ASSUME NEW i \in 1 .. Len(s), NEW j \in 1 .. Len(s), i # j, s[i] = e, s[j] = e
        PROVE  Times(s, e) > 1
    <3>1. {i, j} \subseteq At1
      BY <2>4, <2>9
    <3>2. Cardinality({i}) = 1 /\ IsFiniteSet({i})
      BY FS_Singleton
    <3>3. Cardinality({i} \cup {j}) = 2
      <4> DEFINE S == {i}
      <4>1. j \notin S /\ IsFiniteSet(S) /\ Cardinality(S) = 1
        BY <2>9, <3>2
      <4> HIDE DEF S
      <4>2. Cardinality(S \cup {j}) = Cardinality(S) + 1
        BY <4>1, FS_AddElement
      <4>3. Cardinality(S \cup {j}) = 2
        BY <4>1, <4>2
      <4> QED BY <4>3, Zenon DEF S
    <3>4. {i} \cup {j} \subseteq At1
      BY <3>1
    <3>5. Cardinality({i} \cup {j}) <= Cardinality(At1)
      BY <2>3, <3>4, FS_Subset
    <3>6. ASSUME NEW c \in Nat, NEW d, d = 2, d <= c PROVE c > 1
      BY <3>6
    <3>7. Cardinality(At1) > 1
      BY <2>3, <3>3, <3>5, <3>6, FS_CardinalityType
    <3> QED BY <2>5, <3>7, Zenon
  <2> QED BY <2>3, <2>5, <2>6, <2>7, <2>8, <2>9
<1> QED BY <1>1, <1>2

\* An entry anywhere in a sequence may be thought of as inserted last: the rest
\* of the sequence makes up the rest of the table.
LEMMA TakeOut ==
  ASSUME NEW s \in Seq(Entries), NEW i \in 1 .. Len(s)
  PROVE  \E r \in Seq(Entries) :
           /\ Encoded(s) = WithEntry(Encoded(r), s[i])
           /\ \A e \in Entries : Times(s, e) = Times(r, e) + (IF e = s[i] THEN 1 ELSE 0)
<1> DEFINE Rest(t, j, r) ==
             /\ Encoded(t) = WithEntry(Encoded(r), t[j])
             /\ \A e \in Entries : Times(t, e) = Times(r, e) + (IF e = t[j] THEN 1 ELSE 0)
           A == {n \in Nat : \A t \in Seq(Entries) : Len(t) = n =>
                               \A j \in 1 .. n : \E r \in Seq(Entries) : Rest(t, j, r)}
<1>1. 0 \in A
  OBVIOUS
<1>2. ASSUME NEW n \in Nat, n \in A PROVE n + 1 \in A
  <2> SUFFICES ASSUME NEW t \in Seq(Entries), Len(t) = n + 1, NEW j \in 1 .. n + 1
               PROVE  \E r \in Seq(Entries) : Rest(t, j, r)
    OBVIOUS
  <2>1. PICK r \in Seq(Entries), x \in Entries :
          t = Append(r, x) /\ Len(r) = n /\ x = t[n + 1] /\ \A k \in 1 .. n : r[k] = t[k]
    BY LastOf
  <2>2. Encoded(r) \in AnyTables /\ Encoded(t) = WithEntry(Encoded(r), x)
    BY <2>1, EncodedAppend
  <2>3. \A e \in Entries : Times(r, e) \in Nat /\ Times(t, e) = Times(r, e) + (IF x = e THEN 1 ELSE 0)
    BY <2>1, TimesAppend
  <2>4. CASE j = n + 1
    BY <2>1, <2>2, <2>3, <2>4
  <2>5. CASE j # n + 1
    <3>1. j \in 1 .. n /\ t[j] \in Entries
      BY <2>5
    <3>2. PICK q \in Seq(Entries) : Rest(r, j, q)
      <4>1. \A u \in Seq(Entries) : Len(u) = n =>
              \A k \in 1 .. n : \E q \in Seq(Entries) : Rest(u, k, q)
        BY <1>2, Zenon
      <4> HIDE DEF Rest, A
      <4> QED BY <2>1, <3>1, <4>1
    <3>3. r[j] = t[j]
      BY <2>1, <3>1
    <3>4. Encoded(q) \in AnyTables /\ Append(q, x) \in Seq(Entries)
          /\ Encoded(Append(q, x)) = WithEntry(Encoded(q), x)
      BY EncodedAppend, AppendFacts
    <3>5. Encoded(t) = WithEntry(WithEntry(Encoded(q), x), t[j])
      BY <2>2, <3>1, <3>2, <3>3, <3>4, WithEntryCommutes
    <3>6. ASSUME NEW e \in Entries
          PROVE  Times(t, e) = Times(Append(q, x), e) + (IF e = t[j] THEN 1 ELSE 0)
      <4>1. Times(q, e) \in Nat /\ Times(Append(q, x), e) = Times(q, e) + (IF x = e THEN 1 ELSE 0)
        BY TimesAppend
      <4>2. Times(r, e) = Times(q, e) + (IF e = t[j] THEN 1 ELSE 0)
        BY <3>2, <3>3
      <4>3. Times(t, e) = Times(r, e) + (IF x = e THEN 1 ELSE 0)
        BY <2>3
      <4> QED BY <4>1, <4>2, <4>3
    <3>7. Rest(t, j, Append(q, x))
      BY <3>4, <3>5, <3>6
    <3> QED BY <3>4, <3>7
  <2> QED BY <2>4, <2>5
<1> HIDE DEF A
<1>3. Nat \subseteq A
  BY <1>1, <1>2, NatSetInduction
<1>4. Len(s) \in A /\ Len(s) \in Nat
  BY <1>3
<1> QED BY <1>4 DEF A

\* What a cell tells of the entries in the table.
LEMMA CellCounts ==
  ASSUME NEW s \in Seq(Entries), NEW c \in Cells
  PROVE  LET cell == Encoded(s)[c]
         IN  /\ cell \in CellValues /\ cell.counter <= Len(s)
             /\ cell.counter = 0 =>
                  cell = Zero /\ \A i \in 1 .. Len(s) : c \notin CellsOf(s[i].key)
             /\ cell.counter = 1 =>
                  \E i \in 1 .. Len(s) :
                    c \in CellsOf(s[i].key)
                      /\ cell = [counter |-> 1, key |-> s[i].key, value |-> s[i].value]
             /\ cell.counter > 0 => \E i \in 1 .. Len(s) : c \in CellsOf(s[i].key)
             /\ cell.counter > 1 =>
                  \E i, j \in 1 .. Len(s) :
                    i # j /\ c \in CellsOf(s[i].key) /\ c \in CellsOf(s[j].key)
<1> DEFINE None0(t) == \A i \in 1 .. Len(t) : c \notin CellsOf(t[i].key)
           One(t, cell) == \E i \in 1 .. Len(t) :
             c \in CellsOf(t[i].key) /\ cell = [counter |-> 1, key |-> t[i].key, value |-> t[i].value]
           Some(t) == \E i \in 1 .. Len(t) : c \in CellsOf(t[i].key)
           Two(t) == \E i, j \in 1 .. Len(t) :
             i # j /\ c \in CellsOf(t[i].key) /\ c \in CellsOf(t[j].key)
           Counts(t) ==
             LET cell == Encoded(t)[c]
             IN  /\ cell \in CellValues /\ cell.counter <= Len(t)
                 /\ cell.counter = 0 => cell = Zero /\ None0(t)
                 /\ cell.counter = 1 => One(t, cell)
                 /\ cell.counter > 0 => Some(t)
                 /\ cell.counter > 1 => Two(t)
           A == {n \in Nat : \A t \in Seq(Entries) : Len(t) = n => Counts(t)}
<1>1. 0 \in A
  <2> SUFFICES ASSUME NEW t \in Seq(Entries), Len(t) = 0 PROVE Counts(t)
    OBVIOUS
  <2>1. t = <<>>
    OBVIOUS
  <2>2. Encoded(t)[c] = Zero
    BY <2>1, EncodedAppend DEF Empty
  <2>3. Zero \in CellValues /\ Zero.counter = 0
    BY FieldAssumption DEF Zero, CellValues, Field
  <2>4. None0(t)
    OBVIOUS
  <2> HIDE DEF None0, One, Some, Two
  <2> QED BY <2>2, <2>3, <2>4
<1>2. ASSUME NEW n \in Nat, n \in A PROVE n + 1 \in A
  <2> SUFFICES ASSUME NEW t \in Seq(Entries), Len(t) = n + 1 PROVE Counts(t)
    <3> HIDE DEF Counts
    <3> QED OBVIOUS
  <2>1. PICK r \in Seq(Entries), x \in Entries :
          t = Append(r, x) /\ Len(r) = n /\ x = t[n + 1] /\ \A k \in 1 .. n : r[k] = t[k]
    BY LastOf
  <2>2. Counts(r)
    <3> HIDE DEF Counts
    <3> QED BY <1>2, <2>1
  <2>3. PICK old \in CellValues : old = Encoded(r)[c]
    BY <2>1, EncodedAppend DEF AnyTables
  <2>4. Encoded(t)[c] = IF c \in CellsOf(x.key) THEN Plus(old, x) ELSE old
    BY <2>1, <2>3, EncodedAppend, WithEntryAt
  <2>5. /\ old.counter \in Nat /\ old.counter <= n
        /\ old.counter = 0 => old = Zero /\ None0(r)
        /\ old.counter = 1 => One(r, old)
        /\ old.counter > 0 => Some(r)
        /\ old.counter > 1 => Two(r)
    <3> HIDE DEF None0, One, Some, Two
    <3> QED BY <2>1, <2>2, <2>3 DEF CellValues
  <2>6. /\ None0(r) /\ c \notin CellsOf(x.key) => None0(t)
        /\ \A cell : One(r, cell) => One(t, cell)
        /\ Some(r) => Some(t)
        /\ Two(r) => Two(t)
        /\ Some(r) /\ c \in CellsOf(x.key) => Two(t)
        /\ c \in CellsOf(x.key) => Some(t)
    <3>1. \A k \in 1 .. n + 1 : k \in 1 .. n \/ (k = n + 1 /\ t[k] = x)
      BY <2>1
    <3>2. n + 1 \in 1 .. n + 1 /\ \A k \in 1 .. n : k \in 1 .. n + 1 /\ k # n + 1
      OBVIOUS
    <3>3. \A k \in 1 .. n : r[k] = t[k]
      BY <2>1
    <3>4. Len(r) = n /\ Len(t) = n + 1 /\ t[n + 1] = x
      BY <2>1
    <3> QED BY <3>1, <3>2, <3>3, <3>4
  <2>7. CASE c \notin CellsOf(x.key)
    <3>1. Encoded(t)[c] = old /\ old.counter <= n + 1
      BY <2>4, <2>5, <2>7
    <3> HIDE DEF None0, One, Some, Two
    <3> QED BY <2>5, <2>6, <2>7, <3>1
  <2>8. CASE c \in CellsOf(x.key)
    <3>1. Encoded(t)[c] = Plus(old, x)
      BY <2>4, <2>8
    <3>2. Plus(old, x) \in CellValues /\ Plus(old, x).counter = old.counter + 1
      BY PlusTyped DEF Plus
    <3>3. old.counter = 0 => One(t, Plus(old, x))
      <4> SUFFICES ASSUME old = Zero PROVE One(t, Plus(old, x))
        BY <2>5
      <4>1. Plus(old, x) = [counter |-> 1, key |-> x.key, value |-> x.value]
        BY EntriesInField, AddModLaws DEF Plus, Zero
      <4>2. n + 1 \in 1 .. Len(t) /\ t[n + 1] = x
        BY <2>1
      <4> QED BY <2>8, <4>1, <4>2
    <3> HIDE DEF None0, One, Some, Two
    <3> QED BY <2>5, <2>6, <2>8, <3>1, <3>2, <3>3
  <2> QED BY <2>7, <2>8
<1> HIDE DEF A
<1>3. Nat \subseteq A
  BY <1>1, <1>2, NatSetInduction
<1>4. Len(s) \in A /\ Len(s) \in Nat
  BY <1>3
<1> QED BY <1>4 DEF A

-----------------------------------------------------------------------------
(***************************************************************************)
(* Cells in order.                                                         *)
(***************************************************************************)
HashOK == chunk_index \in [Keys -> [Row -> Column]]

LEMMA RowMajorOrder ==
  \A a, b, c \in Cells :
    /\ RowMajor(a, b) /\ RowMajor(b, c) => RowMajor(a, c)
    /\ ~RowMajor(a, a)
    /\ a # b => RowMajor(a, b) \/ RowMajor(b, a)
<1>1. \A a \in Cells : a[1] \in Int /\ a[2] \in Int /\ a = <<a[1], a[2]>>
  BY TableAssumption DEF Cells, Row, Column
<1>2. \A a, b \in Cells : a[1] = b[1] /\ a[2] = b[2] => a = b
  BY <1>1
<1> QED BY <1>1, <1>2 DEF RowMajor

LEMMA CellsFinite ==
  /\ IsFiniteSet(Cells) /\ Cardinality(Cells) = Gamma * Delta
  /\ IsFiniteSet(Row) /\ Cardinality(Row) = Gamma
  /\ IsFiniteSet(Column) /\ Cardinality(Column) = Delta
<1>1. IsFiniteSet(Row) /\ Cardinality(Row) = Gamma
  BY TableAssumption, FS_Interval DEF Row
<1>2. IsFiniteSet(Column) /\ Cardinality(Column) = Delta
  BY TableAssumption, FS_Interval DEF Column
<1> QED BY <1>1, <1>2, FS_Product DEF Cells

LEMMA CellsOfKey ==
  ASSUME HashOK, NEW k \in Keys
  PROVE  /\ CellsOf(k) \subseteq Cells
         /\ IsFiniteSet(CellsOf(k)) /\ Cardinality(CellsOf(k)) <= Gamma
         /\ \A c \in Cells : c \in CellsOf(k) <=> chunk_index[k][c[1]] = c[2]
<1>1. chunk_index[k] \in [Row -> Column]
  BY DEF HashOK
<1>2. CellsOf(k) \subseteq Cells
  BY <1>1 DEF CellsOf, Cells
<1> DEFINE f == [row \in Row |-> <<row, chunk_index[k][row]>>]
<1>3. f \in Surjection(Row, CellsOf(k))
  BY DEF Surjection, CellsOf
<1>4. IsFiniteSet(CellsOf(k)) /\ Cardinality(CellsOf(k)) <= Gamma
  <2> HIDE DEF f
  <2> QED BY <1>3, CellsFinite, FS_Surjection
<1>5. ASSUME NEW c \in Cells
      PROVE  c \in CellsOf(k) <=> chunk_index[k][c[1]] = c[2]
  <2>1. c = <<c[1], c[2]>> /\ c[1] \in Row
    BY DEF Cells
  <2>2. c \in CellsOf(k) => chunk_index[k][c[1]] = c[2]
    BY DEF CellsOf
  <2>3. chunk_index[k][c[1]] = c[2] => c \in CellsOf(k)
    BY <2>1 DEF CellsOf
  <2> QED BY <2>2, <2>3
<1> QED BY <1>2, <1>4, <1>5

\* Of finitely many cells, one is the last.
LEMMA LastCell ==
  ASSUME NEW n \in Nat
  PROVE  \A S \in SUBSET Cells : IsFiniteSet(S) /\ Cardinality(S) = n + 1 =>
           \E m \in S : \A c \in S : c # m => RowMajor(c, m)
<1> DEFINE HasLast(S) == \E m \in S : \A c \in S : c # m => RowMajor(c, m)
           A == {k \in Nat : \A S \in SUBSET Cells :
                               IsFiniteSet(S) /\ Cardinality(S) = k + 1 => HasLast(S)}
<1>1. 0 \in A
  <2> SUFFICES ASSUME NEW S \in SUBSET Cells, IsFiniteSet(S), Cardinality(S) = 0 + 1
               PROVE  HasLast(S)
    OBVIOUS
  <2>0. Cardinality(S) = 1
    OBVIOUS
  <2>1. \E x : S = {x}
    BY <2>0, FS_Singleton
  <2> QED BY <2>1
<1>2. ASSUME NEW k \in Nat, k \in A PROVE k + 1 \in A
  <2> SUFFICES ASSUME NEW S \in SUBSET Cells, IsFiniteSet(S), Cardinality(S) = (k + 1) + 1
               PROVE  HasLast(S)
    <3> HIDE DEF HasLast
    <3> QED OBVIOUS
  <2>1. PICK x \in S : TRUE
    BY FS_EmptySet
  <2> DEFINE Q == S \ {x}
  <2>2. Q \in SUBSET Cells /\ IsFiniteSet(Q) /\ Cardinality(Q) = k + 1
    BY FS_RemoveElement
  <2>3. PICK m \in Q : \A c \in Q : c # m => RowMajor(c, m)
    <3> HIDE DEF Q
    <3> QED BY <1>2, <2>2
  <2>4. m \in Cells /\ x \in Cells /\ m # x /\ m \in S
    OBVIOUS
  <2>5. CASE RowMajor(m, x)
    <3>1. \A c \in S : c # x => RowMajor(c, x)
      BY <2>3, <2>4, <2>5, RowMajorOrder
    <3> QED BY <3>1
  <2>6. CASE RowMajor(x, m)
    <3>1. \A c \in S : c # m => RowMajor(c, m)
      BY <2>3, <2>6
    <3> QED BY <2>4, <3>1
  <2> QED BY <2>4, <2>5, <2>6, RowMajorOrder
<1> HIDE DEF A
<1>3. Nat \subseteq A
  BY <1>1, <1>2, NatSetInduction
<1>4. n \in A
  BY <1>3
<1> QED BY <1>4 DEF A

Increasing(s) == \A i, j \in DOMAIN s : i < j => RowMajor(s[i], s[j])

LEMMA SortedExists ==
  ASSUME NEW S \in SUBSET Cells, IsFiniteSet(S)
  PROVE  \E s \in [1 .. Cardinality(S) -> S] : Increasing(s)
<1> DEFINE Sorts(n, Q) == \E s \in [1 .. n -> Q] : Increasing(s)
           A == {n \in Nat : \A Q \in SUBSET Cells :
                               IsFiniteSet(Q) /\ Cardinality(Q) = n => Sorts(n, Q)}
<1>1. 0 \in A
  <2> SUFFICES ASSUME NEW Q PROVE Sorts(0, Q)
    OBVIOUS
  <2>1. [i \in 1 .. 0 |-> i] \in [1 .. 0 -> Q] /\ Increasing([i \in 1 .. 0 |-> i])
    BY DEF Increasing
  <2> QED BY <2>1
<1>2. ASSUME NEW n \in Nat, n \in A PROVE n + 1 \in A
  <2> SUFFICES ASSUME NEW Q \in SUBSET Cells, IsFiniteSet(Q), Cardinality(Q) = n + 1
               PROVE  Sorts(n + 1, Q)
    <3> HIDE DEF Sorts
    <3> QED OBVIOUS
  <2>1. PICK m \in Q : \A c \in Q : c # m => RowMajor(c, m)
    BY LastCell
  <2> DEFINE R == Q \ {m}
  <2>2. R \in SUBSET Cells /\ IsFiniteSet(R) /\ Cardinality(R) = n
    <3>1. IsFiniteSet(R) /\ Cardinality(R) = Cardinality(Q) - 1
      BY FS_RemoveElement
    <3> QED BY <3>1
  <2>3. PICK s \in [1 .. n -> R] : Increasing(s)
    <3> HIDE DEF R
    <3> QED BY <1>2, <2>2
  <2> DEFINE t == [i \in 1 .. n + 1 |-> IF i = n + 1 THEN m ELSE s[i]]
  <2>4. \A i \in 1 .. n : s[i] \in Q /\ s[i] # m /\ RowMajor(s[i], m)
    BY <2>1, <2>3
  <2>5. t \in [1 .. n + 1 -> Q]
    BY <2>4
  <2>6. Increasing(t)
    BY <2>3, <2>4 DEF Increasing
  <2> QED BY <2>5, <2>6
<1> HIDE DEF A
<1>3. Nat \subseteq A
  BY <1>1, <1>2, NatSetInduction
<1>4. Cardinality(S) \in A
  BY <1>3, FS_CardinalityType
<1> QED BY <1>4 DEF A

\* The cells in order are a sequence in which each is found once.
LEMMA InOrderFacts ==
  ASSUME NEW S \in SUBSET Cells
  PROVE  /\ InOrder(S) \in Seq(S) /\ InOrder(S) \in Seq(Cells)
         /\ Len(InOrder(S)) = Cardinality(S) /\ Cardinality(S) \in Nat
         /\ \A c \in S : \E i \in 1 .. Len(InOrder(S)) : InOrder(S)[i] = c
<1> DEFINE n == Cardinality(S)
           s == InOrder(S)
<1>1. IsFiniteSet(S) /\ n \in Nat
  BY CellsFinite, FS_Subset, FS_CardinalityType
<1>2. s \in [1 .. n -> S] /\ \A i, j \in 1 .. n : i < j => RowMajor(s[i], s[j])
  BY <1>1, SortedExists DEF InOrder, Increasing
<1> HIDE DEF s, n
<1>3. s \in Seq(S) /\ s \in Seq(Cells) /\ Len(s) = n
  <2>1. s \in Seq(S)
    BY <1>1, <1>2
  <2>2. DOMAIN s = 1 .. n /\ DOMAIN s = 1 .. Len(s) /\ Len(s) \in Nat
    BY <1>2, <2>1
  <2>3. Len(s) = n
    BY <1>1, <2>2
  <2>4. s \in Seq(Cells)
    BY <1>1, <1>2
  <2> QED BY <2>1, <2>3, <2>4
<1>4. s \in Injection(1 .. n, S)
  <2>1. ASSUME NEW i \in 1 .. n, NEW j \in 1 .. n, s[i] = s[j] PROVE i = j
    <3>1. s[i] \in Cells /\ s[j] \in Cells
      BY <1>2
    <3>2. ~RowMajor(s[i], s[j]) /\ ~RowMajor(s[j], s[i])
      BY <2>1, <3>1, RowMajorOrder
    <3> QED BY <1>1, <1>2, <3>2
  <2> QED BY <1>2, <2>1 DEF Injection, IsInjective
<1>5. Cardinality(1 .. n) = n
  BY <1>1, FS_Interval
<1>6. s \in Surjection(1 .. n, S)
  BY <1>1, <1>4, <1>5, FS_Injection DEF n
<1>7. \A c \in S : \E i \in 1 .. n : s[i] = c
  BY <1>6 DEF Surjection
<1> QED BY <1>1, <1>3, <1>7 DEF s, n

-----------------------------------------------------------------------------
(***************************************************************************)
(* The counters of a row.                                                  *)
(***************************************************************************)
RowSum(t, row) == MapThenSumSet(LAMBDA col : t[<<row, col>>].counter, Column)

AnyColumn      == [x \in SUBSET Column |-> CHOOSE y \in x : TRUE]
Adds(t, row) == [col \in Column |-> [n \in Nat |-> t[<<row, col>>].counter + n]]

LEMMA RowSumRecursion ==
  ASSUME NEW t \in AnyTables, NEW row \in Row
  PROVE  \E iter : /\ IsSubsetRecursion(iter, Column, Nat, 0, Adds(t, row), AnyColumn)
                   /\ RowSum(t, row) = iter[Column]
<1> DEFINE body(it) == [x \in SUBSET Column |->
                          IF x = {} THEN 0
                          ELSE t[<<row, CHOOSE y \in x : TRUE>>].counter
                                 + it[x \ {CHOOSE y \in x : TRUE}]]
           j == CHOOSE it : it = body(it)
<1>1. \A col \in Column : t[<<row, col>>].counter \in Nat
  BY DEF AnyTables, CellValues, Cells
<1>2. Adds(t, row) \in [Column -> [Nat -> Nat]]
  BY <1>1 DEF Adds
<1>3. \A x \in SUBSET Column : x # {} => AnyColumn[x] \in x
  BY DEF AnyColumn
<1>4. \A col \in Column : \A n \in Nat : Adds(t, row)[col][n] = t[<<row, col>>].counter + n
  BY DEF Adds
<1>5. \A x \in SUBSET Column : AnyColumn[x] = CHOOSE y \in x : TRUE
  BY DEF AnyColumn
<1>6. PICK iter : IsSubsetRecursion(iter, Column, Nat, 0, Adds(t, row), AnyColumn)
  BY <1>2, <1>3, CellsFinite, SubsetRecursion
<1>7. iter = body(iter)
  <2>1. iter = [x \in SUBSET Column |-> iter[x]]
    BY <1>6 DEF IsSubsetRecursion
  <2>2. ASSUME NEW x \in SUBSET Column
        PROVE  iter[x] = IF x = {} THEN 0
                         ELSE t[<<row, CHOOSE y \in x : TRUE>>].counter
                                + iter[x \ {CHOOSE y \in x : TRUE}]
    <3>1. /\ iter[x] = IF x = {} THEN 0 ELSE Adds(t, row)[AnyColumn[x]][iter[x \ {AnyColumn[x]}]]
          /\ iter[x \ {AnyColumn[x]}] \in Nat
      BY <1>6 DEF IsSubsetRecursion
    <3>2. x # {} => AnyColumn[x] \in Column
      BY <1>3
    <3>3. iter[x] = IF x = {} THEN 0 ELSE t[<<row, AnyColumn[x]>>].counter + iter[x \ {AnyColumn[x]}]
      BY <1>4, <3>1, <3>2
    <3> QED BY <1>5, <3>3
  <2> QED BY <2>1, <2>2
<1>8. j = body(j)
  BY <1>7
<1>9. RowSum(t, row) = j[Column]
  BY DEF RowSum, MapThenSumSet, MapThenFoldSet
<1> HIDE DEF j
<1>10. \A x \in SUBSET Column :
         j[x] = IF x = {} THEN 0
                ELSE t[<<row, CHOOSE y \in x : TRUE>>].counter + j[x \ {CHOOSE y \in x : TRUE}]
  BY <1>8
<1> HIDE DEF body
<1>11. j[{}] = 0
  BY <1>10
<1>12. \A x \in SUBSET Column : x # {} /\ j[x \ {AnyColumn[x]}] \in Nat =>
         j[x] = Adds(t, row)[AnyColumn[x]][j[x \ {AnyColumn[x]}]]
  <2> SUFFICES ASSUME NEW x \in SUBSET Column, x # {}, j[x \ {AnyColumn[x]}] \in Nat
               PROVE  j[x] = Adds(t, row)[AnyColumn[x]][j[x \ {AnyColumn[x]}]]
    OBVIOUS
  <2>1. AnyColumn[x] \in Column
    BY <1>3
  <2>2. j[x] = t[<<row, AnyColumn[x]>>].counter + j[x \ {AnyColumn[x]}]
    BY <1>5, <1>10
  <2> QED BY <1>4, <2>1, <2>2
<1>13. j[Column] = iter[Column]
  <2>1. IsFiniteSet(Column)
    BY CellsFinite
  <2>2. Chooses(AnyColumn, Column)
    BY <1>3 DEF Chooses
  <2>3. Follows(j, Column, Nat, 0, Adds(t, row), AnyColumn)
    BY <1>11, <1>12 DEF Follows
  <2> QED BY <1>6, <2>1, <2>2, <2>3, SubsetRecursionUnique
<1> QED BY <1>6, <1>9, <1>13

LEMMA RowSumTyped ==
  ASSUME NEW t \in AnyTables, NEW row \in Row
  PROVE  RowSum(t, row) \in Nat
<1>1. PICK iter : /\ IsSubsetRecursion(iter, Column, Nat, 0, Adds(t, row), AnyColumn)
                  /\ RowSum(t, row) = iter[Column]
  BY RowSumRecursion
<1> QED BY <1>1 DEF IsSubsetRecursion

\* One less in a cell of the row is one less in the sum.
LEMMA RowSumLess ==
  ASSUME NEW t \in AnyTables, NEW u \in AnyTables, NEW row \in Row, NEW a \in Column,
         \A col \in Column :
           u[<<row, col>>].counter + (IF col = a THEN 1 ELSE 0) = t[<<row, col>>].counter
  PROVE  RowSum(u, row) + 1 = RowSum(t, row)
<1>1. PICK f : /\ IsSubsetRecursion(f, Column, Nat, 0, Adds(t, row), AnyColumn)
               /\ RowSum(t, row) = f[Column]
  BY RowSumRecursion
<1>2. PICK h : /\ IsSubsetRecursion(h, Column, Nat, 0, Adds(u, row), AnyColumn)
               /\ RowSum(u, row) = h[Column]
  BY RowSumRecursion
<1> DEFINE One(x) == IF a \in x THEN 1 ELSE 0
           A == {n \in Nat : \A x \in SUBSET Column :
                               Cardinality(x) = n => h[x] + One(x) = f[x]}
<1>3. \A x \in SUBSET Column :
        /\ f[x] \in Nat /\ h[x] \in Nat /\ IsFiniteSet(x) /\ Cardinality(x) \in Nat
        /\ x = {} => f[x] = 0 /\ h[x] = 0
        /\ x # {} => /\ AnyColumn[x] \in x
                     /\ f[x] = Adds(t, row)[AnyColumn[x]][f[x \ {AnyColumn[x]}]]
                     /\ h[x] = Adds(u, row)[AnyColumn[x]][h[x \ {AnyColumn[x]}]]
  <2> TAKE x \in SUBSET Column
  <2>1. IsFiniteSet(x) /\ Cardinality(x) \in Nat
    BY CellsFinite, FS_Subset, FS_CardinalityType
  <2>2. x # {} => AnyColumn[x] \in x
    BY DEF AnyColumn
  <2> QED BY <1>1, <1>2, <2>1, <2>2 DEF IsSubsetRecursion
<1>4. \A col \in Column : \A n \in Nat :
        /\ Adds(t, row)[col][n] = t[<<row, col>>].counter + n
        /\ Adds(u, row)[col][n] = u[<<row, col>>].counter + n
  BY DEF Adds
<1>5. \A col \in Column : t[<<row, col>>].counter \in Nat /\ u[<<row, col>>].counter \in Nat
  BY DEF AnyTables, CellValues, Cells
<1>6. 0 \in A
  <2> SUFFICES ASSUME NEW x \in SUBSET Column, Cardinality(x) = 0 PROVE h[x] + One(x) = f[x]
    OBVIOUS
  <2>1. x = {}
    BY <1>3, FS_EmptySet
  <2>2. One(x) = 0
    BY <2>1
  <2>3. f[x] = 0 /\ h[x] = 0
    BY <1>3, <2>1
  <2> HIDE DEF One
  <2> QED BY <2>2, <2>3
<1>7. ASSUME NEW n \in Nat, n \in A PROVE n + 1 \in A
  <2> SUFFICES ASSUME NEW x \in SUBSET Column, Cardinality(x) = n + 1
               PROVE  h[x] + One(x) = f[x]
    OBVIOUS
  <2> DEFINE y == AnyColumn[x]
             r == x \ {y}
  <2>1. x # {}
    BY FS_EmptySet
  <2>2. y \in x /\ y \in Column /\ r \in SUBSET Column
    BY <1>3, <2>1
  <2>3. Cardinality(r) = n
    <3>1. IsFiniteSet(x)
      BY <1>3
    <3>2. Cardinality(r) = Cardinality(x) - 1
      <4> HIDE DEF y
      <4> QED BY <2>2, <3>1, FS_RemoveElement
    <3>3. (n + 1) - 1 = n
      BY <1>7
    <3> HIDE DEF r
    <3> QED BY <3>2, <3>3
  <2>4. h[r] + One(r) = f[r]
    BY <1>7, <2>2, <2>3
  <2>5. f[x] = t[<<row, y>>].counter + f[r] /\ h[x] = u[<<row, y>>].counter + h[r]
    <3>1. f[r] \in Nat /\ h[r] \in Nat
      BY <1>3, <2>2
    <3>2. f[x] = Adds(t, row)[y][f[r]] /\ h[x] = Adds(u, row)[y][h[r]]
      BY <1>3, <2>1
    <3> HIDE DEF y, r
    <3> QED BY <1>4, <2>2, <3>1, <3>2
  <2>6. One(x) = One(r) + (IF y = a THEN 1 ELSE 0)
    BY <2>2
  <2>7. u[<<row, y>>].counter + (IF y = a THEN 1 ELSE 0) = t[<<row, y>>].counter
    BY <2>2
  <2>8. /\ f[r] \in Nat /\ h[r] \in Nat /\ f[x] \in Nat /\ h[x] \in Nat
        /\ t[<<row, y>>].counter \in Nat /\ u[<<row, y>>].counter \in Nat
        /\ One(r) \in Nat /\ One(x) \in Nat
    BY <1>3, <1>5, <2>2
  <2> HIDE DEF y, r, One
  <2> QED BY <2>4, <2>5, <2>6, <2>7, <2>8
<1> HIDE DEF A
<1>8. Nat \subseteq A
  BY <1>6, <1>7, NatSetInduction
<1>9. Cardinality(Column) \in A
  BY <1>8, CellsFinite, FS_CardinalityType
<1>10. h[Column] + One(Column) = f[Column]
  BY <1>9 DEF A
<1> QED BY <1>1, <1>2, <1>10

-----------------------------------------------------------------------------
(***************************************************************************)
(* The inductive invariant.                                                *)
(***************************************************************************)
\* recover has not begun.
Idle ==
  working = None => queue = <<>> /\ head = 1 /\ recovered = <<>> /\ result = None

\* A table that nobody has altered is that of the entries inserted.
Whole == ~poisoned => table = Encoded(inserted)

\* What is left of the table and what has been recovered make up the table.
Sum(w, r) ==
  [counter |-> w.counter + r.counter,
   key     |-> AddMod(w.key, r.key),
   value   |-> AddMod(w.value, r.value)]

Explains ==
  working # None => \A c \in Cells : table[c] = Sum(working[c], Encoded(recovered)[c])

\* Each entry recovered has taken one count from every row.
RowsCounted ==
  working # None => \A row \in Row : RowSum(table, row) = RowSum(working, row) + Len(recovered)

QueueBound == Len(queue) <= Gamma * (Delta + Len(recovered))

\* What is left of a table nobody has altered is the table of the entries that
\* have not been recovered.
IsRest(rest) ==
  /\ working = Encoded(rest)
  /\ \A e \in Entries : Times(inserted, e) = Times(recovered, e) + Times(rest, e)

Remaining ==
  working # None /\ ~poisoned => \E rest \in Seq(Entries) : IsRest(rest)

\* Every cell that can be peeled waits in the queue.
Queued ==
  working # None /\ ~poisoned =>
    \A c \in Cells : IsPure(working[c]) => \E i \in head .. Len(queue) : queue[i] = c

Outcome ==
  /\ result # None => working # None
  /\ ~poisoned => result \in {None, "Ok", "PeelStalled"}
  /\ result = "Ok" => AllZero
  /\ result = "PeelStalled" => ~AllZero /\ head > Len(queue)

Inserts == Len(inserted) <= MaxInserts

\* What holds of recover whatever it is given.
PeelInv ==
  /\ TypeOK /\ Inserts /\ Idle /\ Explains /\ RowsCounted /\ QueueBound
  /\ Remaining /\ Queued /\ Outcome

IInv == PeelInv /\ Whole

LEMMA TablesAreAny ==
  /\ Tables \subseteq AnyTables
  /\ \A t \in AnyTables : (\A c \in Cells : t[c].counter < P) => t \in Tables
  /\ \A t \in AnyTables : None # t \/ ~(\A c \in Cells : t[c].counter < P)
<1>1. Field \subseteq Nat
  BY FieldAssumption DEF Field
<1>2. Tables \subseteq AnyTables
  BY <1>1 DEF Tables, AnyTables, CellValues
<1>3. ASSUME NEW t \in AnyTables, \A c \in Cells : t[c].counter < P
      PROVE  t \in Tables
  <2>1. \A c \in Cells : t[c] \in CellValues
    BY DEF AnyTables
  <2>2. \A c \in Cells : t[c] \in [counter : Field, key : Field, value : Field]
    BY <1>3, <2>1, FieldAssumption DEF CellValues, Field
  <2> QED BY <2>2 DEF AnyTables, Tables
<1>4. \A t \in AnyTables : (\A c \in Cells : t[c].counter < P) => None # t
  BY <1>3, TableAssumption
<1> QED BY <1>2, <1>3, <1>4

\* Tables of no more entries than the counters can take.
LEMMA EncodedInTables ==
  ASSUME NEW s \in Seq(Entries), Len(s) <= MaxInserts
  PROVE  Encoded(s) \in Tables
<1>1. Encoded(s) \in AnyTables
  BY EncodedAppend
<1>2. \A c \in Cells : Encoded(s)[c].counter < P
  <2> TAKE c \in Cells
  <2>1. Encoded(s)[c] \in CellValues /\ Encoded(s)[c].counter <= Len(s)
    BY CellCounts
  <2>2. Encoded(s)[c].counter \in Nat /\ Len(s) \in Nat
    BY <2>1 DEF CellValues
  <2> QED BY <2>1, <2>2, TableAssumption, FieldAssumption
<1> QED BY <1>1, <1>2, TablesAreAny

\* Initially nothing has happened.
LEMMA InitIInv == Init => IInv
<1> SUFFICES ASSUME Init PROVE IInv
  OBVIOUS
<1> USE DEF Init
<1>1. Empty \in Tables /\ table = Empty /\ Encoded(<<>>) = Empty
  BY FieldAssumption, EncodedAppend DEF Empty, Tables, Zero, Field
<1>2. TypeOK
  <2>1. chunk_index \in [Keys -> [Row -> Column]]
    BY TableAssumption
  <2>2. <<>> \in Seq(Entries) /\ <<>> \in Seq(Cells) /\ 1 \in 1 .. Len(<<>>) + 1
    OBVIOUS
  <2> QED BY <1>1, <2>1, <2>2 DEF TypeOK
<1>3. Inserts
  BY TableAssumption DEF Inserts
<1>4. QueueBound
  <2>1. Gamma \in Nat /\ Delta \in Nat
    BY TableAssumption
  <2>2. Gamma * Delta \in Nat /\ Gamma * (Delta + 0) = Gamma * Delta
    BY <2>1
  <2>3. Len(queue) = 0 /\ Len(recovered) = 0
    OBVIOUS
  <2> QED BY <2>2, <2>3 DEF QueueBound
<1>5. Whole
  BY <1>1 DEF Whole
<1>6. Idle /\ Explains /\ RowsCounted /\ Remaining /\ Queued
  BY DEF Idle, Explains, RowsCounted, Remaining, Queued
<1>7. Outcome
  BY TableAssumption DEF Outcome, Errors
<1> QED BY <1>2, <1>3, <1>4, <1>5, <1>6, <1>7 DEF IInv, PeelInv

LEMMA InsertIInv ==
  ASSUME IInv, NEW k \in Keys, NEW v \in Values, insert([key |-> k, value |-> v])
  PROVE  IInv'
<1> DEFINE e == [key |-> k, value |-> v]
<1>1. e \in Entries
  BY TableAssumption DEF Entries
<1>2. PICK s \in Seq(Entries) : s = inserted /\ Len(s) < MaxInserts /\ Encoded(s) = table
  BY DEF IInv, PeelInv, TypeOK, Whole, insert
<1>3. /\ working = None /\ ~poisoned /\ inserted' = Append(s, e) /\ table' = WithEntry(Encoded(s), e)
      /\ UNCHANGED <<chunk_index, poisoned, working, queue, head, recovered, result>>
  BY <1>2 DEF insert
<1> HIDE DEF e
<1>4. PICK t \in Seq(Entries) : t = Append(s, e) /\ Len(t) = Len(s) + 1 /\ Len(s) \in Nat
  BY <1>1, AppendFacts
<1>5. Encoded(t) = WithEntry(Encoded(s), e)
  BY <1>1, <1>4, EncodedAppend
<1>6. Encoded(t)' = Encoded(t)
  BY <1>3, EncodedFrame
<1>7. inserted' = t /\ table' = Encoded(t) /\ Encoded(inserted)' = Encoded(t)
  BY <1>3, <1>4, <1>5, <1>6
<1>8. Len(t) <= MaxInserts
  BY <1>2, <1>4, TableAssumption
<1>9. TypeOK'
  <2>1. Encoded(t) \in Tables
    BY <1>8, EncodedInTables
  <2>2. TypeOK
    BY DEF IInv, PeelInv
  <2> QED BY <1>3, <1>7, <2>1, <2>2 DEF TypeOK
<1>10. Inserts'
  BY <1>7, <1>8 DEF Inserts
<1>11. Whole'
  BY <1>7 DEF Whole
<1>12. Idle' /\ QueueBound' /\ Outcome'
  BY <1>3 DEF IInv, PeelInv, Idle, QueueBound, Outcome, AllZero
<1>13. Explains' /\ RowsCounted' /\ Remaining' /\ Queued'
  BY <1>3 DEF Explains, RowsCounted, Remaining, Queued
<1> QED BY <1>9, <1>10, <1>11, <1>12, <1>13 DEF IInv, PeelInv

LEMMA DecodeIInv ==
  ASSUME IInv, NEW c \in Cells, NEW n \in Field, NEW k \in Field, NEW v \in Field,
         decode_from_elements(c, [counter |-> n, key |-> k, value |-> v])
  PROVE  IInv'
<1>1. /\ working = None /\ poisoned'
      /\ table' = [table EXCEPT ![c] = [counter |-> n, key |-> k, value |-> v]]
      /\ UNCHANGED <<chunk_index, inserted, working, queue, head, recovered, result>>
  BY DEF decode_from_elements
<1>2. TypeOK'
  <2>1. TypeOK /\ poisoned' = TRUE
    BY DEF IInv, PeelInv, decode_from_elements
  <2>2. table' \in Tables
    BY <1>1, <2>1 DEF TypeOK, Tables
  <2> QED BY <1>1, <2>1, <2>2 DEF TypeOK
<1>3. Inserts' /\ Idle' /\ QueueBound' /\ Outcome'
  BY <1>1 DEF IInv, PeelInv, Inserts, Idle, QueueBound, Outcome, AllZero
<1>4. Whole' /\ Explains' /\ RowsCounted' /\ Remaining' /\ Queued'
  BY <1>1 DEF Whole, Explains, RowsCounted, Remaining, Queued
<1> QED BY <1>2, <1>3, <1>4 DEF IInv, PeelInv

LEMMA RecoverIInv ==
  ASSUME IInv, recover
  PROVE  IInv'
<1> DEFINE S == {c \in Cells : IsPure(table[c])}
<1>1. /\ working = None /\ working' = table /\ queue' = InOrder(S)
      /\ UNCHANGED <<chunk_index, inserted, poisoned, table, head, recovered, result>>
  BY DEF recover, input
<1>2. head = 1 /\ recovered = <<>> /\ result = None
  BY <1>1 DEF IInv, PeelInv, Idle
<1>3. PICK t \in Tables, s \in Seq(Entries) :
        t = table /\ s = inserted /\ t # None /\ (~poisoned => t = Encoded(s))
  BY TableAssumption DEF IInv, PeelInv, TypeOK, Whole
<1>4. t \in AnyTables
  BY TablesAreAny
<1>5. PICK q \in Seq(Cells) :
        /\ q = InOrder(S) /\ Len(q) = Cardinality(S) /\ Cardinality(S) \in Nat
        /\ \A c \in S : \E i \in 1 .. Len(q) : q[i] = c
  BY InOrderFacts
<1>6. S \in SUBSET Cells /\ \A c \in Cells : c \in S <=> IsPure(t[c])
  BY <1>3
<1> HIDE DEF S
<1>7. /\ working' = t /\ queue' = q /\ head' = 1 /\ recovered' = <<>> /\ result' = None
      /\ table' = t /\ inserted' = s /\ poisoned' = poisoned /\ chunk_index' = chunk_index
  BY <1>1, <1>2, <1>3, <1>5
<1>8. TypeOK'
  <2>1. TypeOK
    BY DEF IInv, PeelInv
  <2>2. 1 \in 1 .. Len(q) + 1
    BY <1>5
  <2> QED BY <1>7, <2>1, <2>2 DEF TypeOK
<1>9. Inserts' /\ Idle' /\ Outcome'
  BY <1>3, <1>7, TableAssumption DEF IInv, PeelInv, Inserts, Idle, Outcome, Errors
<1>10. Encoded(s)' = Encoded(s) /\ Encoded(<<>>)' = Encoded(<<>>)
  BY <1>7, EncodedFrame
<1>11. Whole'
  BY <1>3, <1>7, <1>10 DEF Whole
<1>12. Explains'
  <2>1. Encoded(recovered)' = Empty
    BY <1>7, <1>10, EncodedAppend
  <2>2. ASSUME NEW c \in Cells PROVE t[c] = Sum(t[c], Empty[c])
    <3>1. Empty[c] = Zero /\ t[c] \in CellValues
      BY <1>4 DEF Empty, AnyTables
    <3>2. t[c].counter + 0 = t[c].counter /\ AddMod(t[c].key, 0) = t[c].key
          /\ AddMod(t[c].value, 0) = t[c].value
      BY <3>1, AddModLaws DEF CellValues
    <3>3. t[c] = [counter |-> t[c].counter, key |-> t[c].key, value |-> t[c].value]
      BY <3>1 DEF CellValues
    <3> QED BY <3>1, <3>2, <3>3 DEF Sum, Zero
  <2> QED BY <1>7, <2>1, <2>2 DEF Explains
<1>13. RowsCounted'
  <2>1. \A row \in Row : RowSum(t, row) = RowSum(t, row) + Len(<<>>)
    BY <1>4, RowSumTyped
  <2> QED BY <1>7, <2>1 DEF RowsCounted
<1>14. QueueBound'
  <2>1. Cardinality(S) <= Gamma * Delta
    BY <1>6, CellsFinite, FS_Subset
  <2>2. Gamma * (Delta + Len(<<>>)) = Gamma * Delta
    BY TableAssumption
  <2> QED BY <1>5, <1>7, <2>1, <2>2 DEF QueueBound
<1>15. Remaining'
  <2> SUFFICES ASSUME ~poisoned PROVE \E rest \in Seq(Entries) : IsRest(rest)'
    BY <1>7 DEF Remaining
  <2>1. \A e \in Entries : Times(s, e) = Times(<<>>, e) + Times(s, e)
    BY TimesAppend
  <2>2. working' = Encoded(s)'
    BY <1>3, <1>7, <1>10
  <2>3. IsRest(s)'
    BY <1>7, <2>1, <2>2 DEF IsRest
  <2> QED BY <2>3
<1>16. Queued'
  <2>1. \A c \in Cells : IsPure(t[c]) => \E i \in 1 .. Len(q) : q[i] = c
    BY <1>5, <1>6
  <2> QED BY <1>7, <2>1 DEF Queued
<1> QED BY <1>8, <1>9, <1>11, <1>12, <1>13, <1>14, <1>15, <1>16 DEF IInv, PeelInv

-----------------------------------------------------------------------------
\* The cell at the head of the queue, and the types of what recover works on.
LEMMA TurnTypes ==
  ASSUME IInv, Turn
  PROVE  /\ working \in Tables /\ working \in AnyTables /\ working # None /\ result = None
         /\ table \in Tables /\ HashOK
         /\ At \in Cells /\ Cell \in CellValues /\ Cell.counter \in Field
         /\ head \in 1 .. Len(queue) /\ queue \in Seq(Cells)
         /\ recovered \in Seq(Entries) /\ inserted \in Seq(Entries)
<1>1. TypeOK /\ working # None /\ result = None /\ head <= Len(queue)
  BY DEF IInv, PeelInv, Turn, Running
<1>2. working \in Tables /\ working \in AnyTables
  BY <1>1, TablesAreAny DEF TypeOK
<1>3. head \in 1 .. Len(queue) /\ queue \in Seq(Cells)
  BY <1>1 DEF TypeOK
<1>4. At \in Cells
  BY <1>3 DEF At
<1>5. Cell \in CellValues /\ Cell.counter \in Field
  BY <1>2, <1>4 DEF Cell, AnyTables, Tables
<1> QED BY <1>1, <1>2, <1>3, <1>4, <1>5 DEF TypeOK, HashOK

\* A pure cell of a table nobody has altered holds an entry that is left, and it
\* is one of the cells of that entry.
LEMMA PureIsEntry ==
  ASSUME IInv, Turn, ~poisoned, IsPure(Cell)
  PROVE  \E rest \in Seq(Entries) : \E i \in 1 .. Len(rest) :
           /\ IsRest(rest)
           /\ Cell.key = rest[i].key /\ Cell.value = rest[i].value
           /\ Cell.key < Packed /\ Cell.value < Packed /\ AtHome
           /\ \A c \in CellsOf(Cell.key) : working[c].counter # 0
<1>1. PICK rest \in Seq(Entries) : IsRest(rest)
  BY TurnTypes DEF IInv, PeelInv, Remaining
<1>2. At \in Cells /\ Cell = Encoded(rest)[At] /\ Cell.counter = 1
  BY <1>1, TurnTypes DEF IsRest, Cell, IsPure
<1>3. PICK i \in 1 .. Len(rest) :
        At \in CellsOf(rest[i].key)
          /\ Cell = [counter |-> 1, key |-> rest[i].key, value |-> rest[i].value]
  BY <1>2, CellCounts
<1>4. rest[i] \in Entries
  OBVIOUS
<1>5. Cell.key = rest[i].key /\ Cell.value = rest[i].value
  BY <1>3
<1>6. Cell.key < Packed /\ Cell.value < Packed /\ Cell.key \in Keys
  BY <1>4, <1>5, EntriesInField
<1>7. AtHome
  BY <1>2, <1>3, <1>5, <1>6, CellsOfKey, TurnTypes DEF AtHome
<1>8. ASSUME NEW c \in CellsOf(Cell.key) PROVE working[c].counter # 0
  <2>1. c \in Cells
    BY <1>6, CellsOfKey, TurnTypes
  <2>2. Encoded(rest)[c].counter # 0
    BY <1>5, <1>8, <2>1, CellCounts
  <2> QED BY <1>1, <2>2 DEF IsRest
<1> QED BY <1>1, <1>5, <1>6, <1>7, <1>8

\* What is as it was if recover's working state is.
LEMMA RecoverFrame ==
  ASSUME IInv, UNCHANGED <<input, working, recovered>>
  PROVE  /\ Inserts' /\ Whole' /\ Explains' /\ RowsCounted' /\ Remaining'
<1>1. /\ UNCHANGED <<chunk_index, inserted, poisoned, table, working, recovered>>
      /\ Inserts /\ Whole /\ Explains /\ RowsCounted /\ Remaining
  BY DEF IInv, PeelInv, input
<1>2. \A s : Encoded(s)' = Encoded(s)
  BY <1>1, EncodedFrame
<1>3. PICK s : s = inserted
  OBVIOUS
<1>4. PICK r : r = recovered
  OBVIOUS
<1>5. /\ inserted' = s /\ Encoded(inserted)' = Encoded(s)
      /\ recovered' = r /\ Encoded(recovered)' = Encoded(r)
  BY <1>1, <1>2, <1>3, <1>4
<1>6. Inserts' /\ Whole'
  BY <1>1, <1>3, <1>5 DEF Inserts, Whole
<1>7. Explains'
  BY <1>1, <1>4, <1>5 DEF Explains
<1>8. RowsCounted'
  BY <1>1 DEF RowsCounted
<1>9. Remaining'
  <2> SUFFICES ASSUME working # None, ~poisoned PROVE \E rest \in Seq(Entries) : IsRest(rest)'
    BY <1>1 DEF Remaining
  <2>1. PICK rest \in Seq(Entries) : IsRest(rest)
    BY <1>1 DEF Remaining
  <2>2. IsRest(rest)'
    BY <1>1, <1>2, <2>1 DEF IsRest
  <2> QED BY <2>2
<1> QED BY <1>6, <1>7, <1>8, <1>9

LEMMA SkipIInv ==
  ASSUME IInv, skip
  PROVE  IInv'
<1>1. /\ Turn /\ (~IsPure(Cell) \/ (Cell.key < Packed /\ ~AtHome)) /\ head' = head + 1
      /\ UNCHANGED <<input, working, queue, recovered, result>>
  BY DEF skip
<1>2. UNCHANGED <<chunk_index, inserted, poisoned, table>>
  BY <1>1 DEF input
<1>3. head \in 1 .. Len(queue) /\ queue \in Seq(Cells) /\ result = None /\ working # None
  BY <1>1, TurnTypes
<1>4. TypeOK'
  <2>1. TypeOK
    BY DEF IInv, PeelInv
  <2>2. head' \in 1 .. Len(queue) + 1
    BY <1>1, <1>3
  <2> QED BY <1>1, <1>2, <2>1, <2>2 DEF TypeOK
<1>5. Idle' /\ QueueBound'
  BY <1>1, <1>3 DEF IInv, PeelInv, Idle, QueueBound
<1>6. Outcome'
  BY <1>1, <1>3, TableAssumption DEF Outcome, Errors
<1>7. Queued'
  <2> SUFFICES ASSUME ~poisoned, NEW c \in Cells, IsPure(working[c])
               PROVE  \E i \in head + 1 .. Len(queue) : queue[i] = c
    BY <1>1, <1>2 DEF Queued, IsPure
  <2>1. PICK i \in head .. Len(queue) : queue[i] = c
    BY <1>3 DEF IInv, PeelInv, Queued
  <2>2. ~IsPure(Cell)
    BY <1>1, PureIsEntry
  <2>3. i # head
    BY <2>1, <2>2 DEF Cell, At
  <2> QED BY <1>3, <2>1, <2>3
<1> QED BY <1>1, <1>4, <1>5, <1>6, <1>7, RecoverFrame DEF IInv, PeelInv

LEMMA ErrorIInv ==
  ASSUME IInv, invalid_packed_element \/ unexpected_zero_counter
  PROVE  IInv'
<1>1. /\ Turn /\ IsPure(Cell)
      /\ UNCHANGED <<input, working, queue, head, recovered>>
      /\ result' \in {"InvalidPackedElement", "UnexpectedZeroCounter"}
  BY DEF invalid_packed_element, unexpected_zero_counter, Peelable, Fail
<1>2. poisoned
  <2> SUFFICES ASSUME ~poisoned PROVE FALSE
    OBVIOUS
  <2>1. PICK rest \in Seq(Entries) : \E i \in 1 .. Len(rest) :
          /\ Cell.key < Packed /\ Cell.value < Packed /\ AtHome
          /\ \A c \in CellsOf(Cell.key) : working[c].counter # 0
    BY <1>1, PureIsEntry
  <2>2. Cell \in CellValues
    BY <1>1, TurnTypes
  <2>3. Cell.key \in Int /\ Cell.value \in Int /\ Packed \in Int
    BY <2>2, TableAssumption, FieldAssumption DEF CellValues, Field
  <2>4. ~invalid_packed_element
    BY <2>1, <2>3 DEF invalid_packed_element
  <2>5. ~unexpected_zero_counter
    BY <2>1 DEF unexpected_zero_counter
  <2> QED BY <2>4, <2>5
<1>3. UNCHANGED <<chunk_index, inserted, poisoned, table>>
  BY <1>1 DEF input
<1>4. TypeOK' /\ QueueBound'
  BY <1>1, <1>3 DEF IInv, PeelInv, TypeOK, QueueBound, Errors
<1>5. Idle' /\ Outcome' /\ Queued'
  <2>1. working # None
    BY <1>1, TurnTypes
  <2> QED BY <1>1, <1>2, <1>3, <2>1 DEF Idle, Outcome, Queued
<1> QED BY <1>1, <1>4, <1>5, RecoverFrame DEF IInv, PeelInv

LEMMA FinishIInv ==
  ASSUME IInv, finish
  PROVE  IInv'
<1>1. /\ working # None /\ result = None /\ head > Len(queue)
      /\ result' = IF AllZero THEN "Ok" ELSE "PeelStalled"
      /\ UNCHANGED <<input, working, queue, head, recovered>>
  BY DEF finish, Running
<1>2. UNCHANGED <<chunk_index, inserted, poisoned, table>>
  BY <1>1 DEF input
<1>3. TypeOK' /\ QueueBound'
  BY <1>1, <1>2 DEF IInv, PeelInv, TypeOK, QueueBound, Errors
<1>4. AllZero' <=> AllZero
  BY <1>1 DEF AllZero
<1>5. Idle' /\ Outcome'
  BY <1>1, <1>2, <1>4 DEF Idle, Outcome
<1>6. Queued'
  BY <1>1, <1>2 DEF IInv, PeelInv, Queued, IsPure
<1> QED BY <1>1, <1>3, <1>5, <1>6, RecoverFrame DEF IInv, PeelInv

-----------------------------------------------------------------------------
(***************************************************************************)
(* Peeling.                                                                *)
(***************************************************************************)
\* Taking an entry out of a table, cell by cell.
LEMMA WithoutEntryAt ==
  ASSUME NEW t \in Tables, NEW e \in Entries,
         \A c \in CellsOf(e.key) : t[c].counter # 0
  PROVE  /\ WithoutEntry(t, e) \in Tables
         /\ \A c \in Cells :
              WithoutEntry(t, e)[c] = IF c \in CellsOf(e.key) THEN Minus(t[c], e) ELSE t[c]
<1>1. ASSUME NEW c \in Cells, c \in CellsOf(e.key)
      PROVE  Minus(t[c], e) \in [counter : Field, key : Field, value : Field]
  <2>1. /\ t[c].counter \in Field /\ t[c].key \in Field /\ t[c].value \in Field
    BY DEF Tables
  <2>2. t[c].counter - 1 \in Field
    BY <1>1, <2>1, FieldAssumption DEF Field
  <2>3. SubMod(t[c].key, e.key) \in Field /\ SubMod(t[c].value, e.value) \in Field
    BY <2>1, EntriesInField, AddModInField
  <2> QED BY <2>2, <2>3 DEF Minus
<1>2. \A c \in Cells : t[c] \in [counter : Field, key : Field, value : Field]
  BY DEF Tables
<1> QED BY <1>1, <1>2 DEF WithoutEntry, Tables

\* What was inserted is taken out without a trace.
LEMMA WithoutUndoesWith ==
  ASSUME NEW t \in AnyTables, NEW e \in Entries
  PROVE  WithoutEntry(WithEntry(t, e), e) = t
<1>1. ASSUME NEW c \in Cells
      PROVE  WithoutEntry(WithEntry(t, e), e)[c] = t[c]
  <2>1. t[c] \in CellValues
    BY DEF AnyTables
  <2>2. WithoutEntry(WithEntry(t, e), e)[c]
          = IF c \in CellsOf(e.key) THEN Minus(WithEntry(t, e)[c], e) ELSE WithEntry(t, e)[c]
    BY DEF WithoutEntry
  <2>3. WithEntry(t, e)[c] = IF c \in CellsOf(e.key) THEN Plus(t[c], e) ELSE t[c]
    BY WithEntryAt
  <2>4. Minus(Plus(t[c], e), e) = t[c]
    <3>1. /\ t[c].counter \in Nat /\ t[c].key \in Field /\ t[c].value \in Field
          /\ t[c] = [counter |-> t[c].counter, key |-> t[c].key, value |-> t[c].value]
      BY <2>1 DEF CellValues
    <3>2. /\ SubMod(AddMod(t[c].key, e.key), e.key) = t[c].key
          /\ SubMod(AddMod(t[c].value, e.value), e.value) = t[c].value
      BY <3>1, EntriesInField, AddModLaws
    <3>3. (t[c].counter + 1) - 1 = t[c].counter
      BY <3>1
    <3> QED BY <3>1, <3>2, <3>3 DEF Minus, Plus
  <2> QED BY <2>2, <2>3, <2>4
<1>2. WithoutEntry(WithEntry(t, e), e) = [c \in Cells |-> WithoutEntry(WithEntry(t, e), e)[c]]
  BY DEF WithoutEntry
<1>3. t = [c \in Cells |-> t[c]]
  BY DEF AnyTables
<1> QED BY <1>1, <1>2, <1>3

\* What is taken out of a cell and put with what has been recovered.
LEMMA SumKept ==
  ASSUME NEW w \in CellValues, w.counter # 0, NEW r \in CellValues, NEW e \in Entries
  PROVE  Sum(Minus(w, e), Plus(r, e)) = Sum(w, r)
<1>1. /\ w.counter \in Nat /\ w.key \in Field /\ w.value \in Field
      /\ r.counter \in Nat /\ r.key \in Field /\ r.value \in Field
      /\ e.key \in Field /\ e.value \in Field
  BY EntriesInField DEF CellValues
<1>2. /\ AddMod(SubMod(w.key, e.key), AddMod(r.key, e.key)) = AddMod(w.key, r.key)
      /\ AddMod(SubMod(w.value, e.value), AddMod(r.value, e.value)) = AddMod(w.value, r.value)
  BY <1>1, AddModLaws
<1>3. (w.counter - 1) + (r.counter + 1) = w.counter + r.counter
  BY <1>1
<1> QED BY <1>2, <1>3 DEF Sum, Minus, Plus

\* The facts about a step that peels: w is the table before, t after; e is the
\* entry, a its cell, and p the cells of the entry that can be peeled next.
LEMMA PeelFacts ==
  ASSUME IInv, peel
  PROVE  \E w \in Tables, e \in Entries, a \in Cells, p \in SUBSET Cells :
           /\ w = working /\ w # None /\ a = queue[head] /\ head \in 1 .. Len(queue)
           /\ w[a].counter = 1 /\ w[a].key = e.key /\ w[a].value = e.value
           /\ a \in CellsOf(e.key) /\ \A c \in CellsOf(e.key) : w[c].counter # 0
           /\ p = {c \in CellsOf(e.key) : IsPure(WithoutEntry(w, e)[c])}
           /\ recovered' = Append(recovered, e) /\ working' = WithoutEntry(w, e)
           /\ queue' = queue \o InOrder(p) /\ head' = head + 1
           /\ UNCHANGED <<chunk_index, inserted, poisoned, table, result>>
<1> DEFINE e == [key |-> Cell.key, value |-> Cell.value]
           p == {c \in CellsOf(e.key) : IsPure(WithoutEntry(working, e)[c])}
<1>1. /\ Turn /\ IsPure(Cell) /\ Cell.key < Packed /\ AtHome /\ Cell.value < Packed
      /\ \A c \in CellsOf(e.key) : working[c].counter # 0
      /\ recovered' = Append(recovered, e) /\ working' = WithoutEntry(working, e)
      /\ queue' = queue \o InOrder(p) /\ head' = head + 1
      /\ UNCHANGED <<input, result>>
  BY DEF peel, Peelable, NewlyPure
<1>2. UNCHANGED <<chunk_index, inserted, poisoned, table>>
  BY <1>1 DEF input
<1>3. /\ working \in Tables /\ working # None /\ At \in Cells /\ HashOK /\ Cell \in CellValues
      /\ head \in 1 .. Len(queue)
  BY <1>1, TurnTypes
<1>4. Cell.key \in Keys /\ Cell.value \in Keys
  BY <1>1, <1>3, TableAssumption, FieldAssumption DEF CellValues, Keys, Field
<1>5. e \in Entries /\ e.key = Cell.key /\ e.value = Cell.value
  BY <1>4 DEF Entries
<1>6. At \in CellsOf(e.key)
  BY <1>1, <1>3, <1>4, <1>5, CellsOfKey DEF AtHome
<1>7. p \in SUBSET Cells
  BY <1>3, <1>4, <1>5, CellsOfKey
<1>8. At = queue[head] /\ Cell = working[At] /\ Cell.counter = 1
  BY <1>1 DEF At, Cell, IsPure
<1>9. p = {c \in CellsOf(e.key) : IsPure(WithoutEntry(working, e)[c])}
  OBVIOUS
<1> HIDE DEF e, p
<1> QED BY <1>1, <1>2, <1>3, <1>5, <1>6, <1>7, <1>8, <1>9

LEMMA ConcatFacts ==
  ASSUME NEW q \in Seq(Cells), NEW n \in Seq(Cells)
  PROVE  /\ q \o n \in Seq(Cells) /\ Len(q \o n) = Len(q) + Len(n)
         /\ \A i \in 1 .. Len(q) : (q \o n)[i] = q[i]
         /\ \A i \in 1 .. Len(n) : (q \o n)[Len(q) + i] = n[i]
  OBVIOUS

LEMMA PeelIInv ==
  ASSUME IInv, peel
  PROVE  IInv'
<1>1. PICK w \in Tables, e \in Entries, a \in Cells, p \in SUBSET Cells :
        /\ w = working /\ w # None /\ a = queue[head] /\ head \in 1 .. Len(queue)
        /\ w[a].counter = 1 /\ w[a].key = e.key /\ w[a].value = e.value
        /\ a \in CellsOf(e.key) /\ \A c \in CellsOf(e.key) : w[c].counter # 0
        /\ p = {c \in CellsOf(e.key) : IsPure(WithoutEntry(w, e)[c])}
        /\ recovered' = Append(recovered, e) /\ working' = WithoutEntry(w, e)
        /\ queue' = queue \o InOrder(p) /\ head' = head + 1
        /\ UNCHANGED <<chunk_index, inserted, poisoned, table, result>>
  BY PeelFacts
<1>2. TypeOK /\ HashOK /\ e.key \in Keys /\ result = None
  <2>1. Turn
    BY DEF peel, Peelable
  <2> QED BY <2>1, TurnTypes, EntriesInField DEF IInv, PeelInv
<1>3. PICK t \in Tables :
        /\ t = WithoutEntry(w, e)
        /\ \A c \in Cells : t[c] = IF c \in CellsOf(e.key) THEN Minus(w[c], e) ELSE w[c]
  BY <1>1, WithoutEntryAt
<1>4. t \in AnyTables /\ w \in AnyTables /\ t # None
  BY TablesAreAny, TableAssumption
<1>5. PICK r \in Seq(Entries), s \in Seq(Entries) : r = recovered /\ s = inserted
  BY <1>2 DEF TypeOK
<1>6. PICK r1 \in Seq(Entries) : r1 = Append(r, e) /\ Len(r1) = Len(r) + 1 /\ Len(r) \in Nat
  BY AppendFacts
<1>7. PICK q \in Seq(Cells), h \in Nat :
        q = queue /\ h = head /\ h \in 1 .. Len(q) /\ a = q[h] /\ Len(q) \in Nat
  BY <1>1, <1>2 DEF TypeOK
<1>8. PICK n \in Seq(Cells) :
        /\ n = InOrder(p) /\ Len(n) = Cardinality(p) /\ Cardinality(p) \in Nat /\ Len(n) \in Nat
        /\ \A c \in p : \E i \in 1 .. Len(n) : n[i] = c
  BY InOrderFacts
<1>9. PICK q1 \in Seq(Cells) :
        /\ q1 = q \o n /\ Len(q1) = Len(q) + Len(n)
        /\ \A i \in 1 .. Len(q) : q1[i] = q[i]
        /\ \A i \in 1 .. Len(n) : q1[Len(q) + i] = n[i]
  BY ConcatFacts
<1>10. /\ working' = t /\ recovered' = r1 /\ queue' = q1 /\ head' = h + 1 /\ result' = None
       /\ UNCHANGED <<chunk_index, inserted, poisoned, table>>
  BY <1>1, <1>2, <1>3, <1>5, <1>6, <1>7, <1>8, <1>9
<1>11. TypeOK'
  <2>1. h + 1 \in 1 .. Len(q1) + 1
    BY <1>7, <1>8, <1>9
  <2> QED BY <1>2, <1>10, <2>1 DEF TypeOK
<1>12. Inserts' /\ Idle' /\ Outcome'
  BY <1>4, <1>10, TableAssumption DEF IInv, PeelInv, Inserts, Idle, Outcome, Errors
<1>13. \A x : Encoded(x)' = Encoded(x)
  BY <1>10, EncodedFrame
<1>14. Encoded(inserted)' = Encoded(s) /\ Encoded(recovered)' = Encoded(r1)
  BY <1>5, <1>10, <1>13
<1>15. Whole'
  BY <1>5, <1>10, <1>14 DEF IInv, PeelInv, Whole
<1>16. Explains'
  <2>1. ASSUME NEW c \in Cells PROVE table[c] = Sum(t[c], Encoded(r1)[c])
    <3>1. table[c] = Sum(w[c], Encoded(r)[c])
      BY <1>1, <1>5 DEF IInv, PeelInv, Explains
    <3>2. Encoded(r) \in AnyTables /\ Encoded(r1) = WithEntry(Encoded(r), e)
      BY <1>6, EncodedAppend
    <3>3. /\ Encoded(r)[c] \in CellValues
          /\ Encoded(r1)[c] = IF c \in CellsOf(e.key) THEN Plus(Encoded(r)[c], e) ELSE Encoded(r)[c]
      BY <3>2, WithEntryAt
    <3>4. w[c] \in CellValues
      BY <1>4 DEF AnyTables
    <3>5. CASE c \in CellsOf(e.key)
      <4>1. Sum(Minus(w[c], e), Plus(Encoded(r)[c], e)) = Sum(w[c], Encoded(r)[c])
        BY <1>1, <3>3, <3>4, <3>5, SumKept
      <4> QED BY <1>3, <3>1, <3>3, <3>5, <4>1
    <3>6. CASE c \notin CellsOf(e.key)
      BY <1>3, <3>1, <3>3, <3>6
    <3> QED BY <3>5, <3>6
  <2> QED BY <1>10, <1>14, <2>1 DEF Explains
<1>17. RowsCounted'
  <2>1. ASSUME NEW row \in Row PROVE RowSum(table, row) = RowSum(t, row) + Len(r1)
    <3>1. RowSum(table, row) = RowSum(w, row) + Len(r)
      BY <1>1, <1>5 DEF IInv, PeelInv, RowsCounted
    <3> DEFINE b == chunk_index[e.key][row]
    <3>2. b \in Column
      BY <1>2 DEF HashOK
    <3>3. \A col \in Column : <<row, col>> \in Cells /\ (<<row, col>> \in CellsOf(e.key) <=> col = b)
      <4>1. \A col \in Column : <<row, col>> \in Cells /\ <<row, col>>[1] = row /\ <<row, col>>[2] = col
        BY DEF Cells
      <4> QED BY <1>2, <4>1, CellsOfKey
    <3> HIDE DEF b
    <3>4. \A col \in Column :
            t[<<row, col>>].counter + (IF col = b THEN 1 ELSE 0) = w[<<row, col>>].counter
      <4> TAKE col \in Column
      <4>1. w[<<row, col>>].counter \in Nat
        BY <1>4, <3>3 DEF AnyTables, CellValues
      <4>2. CASE col = b
        <5>1. t[<<row, col>>] = Minus(w[<<row, col>>], e)
          BY <1>3, <3>3, <4>2
        <5>2. t[<<row, col>>].counter = w[<<row, col>>].counter - 1
          BY <5>1 DEF Minus
        <5> QED BY <4>1, <4>2, <5>2
      <4>3. CASE col # b
        <5>1. t[<<row, col>>] = w[<<row, col>>]
          BY <1>3, <3>3, <4>3
        <5> QED BY <4>1, <4>3, <5>1
      <4> QED BY <4>2, <4>3
    <3>5. RowSum(t, row) + 1 = RowSum(w, row)
      BY <1>4, <3>2, <3>4, RowSumLess
    <3>6. RowSum(t, row) \in Nat /\ RowSum(w, row) \in Nat
      BY <1>4, RowSumTyped
    <3> QED BY <1>6, <3>1, <3>5, <3>6
  <2> QED BY <1>10, <2>1 DEF RowsCounted
<1>18. QueueBound'
  <2>1. Len(q) <= Gamma * (Delta + Len(r))
    BY <1>5, <1>7 DEF IInv, PeelInv, QueueBound
  <2>2. Cardinality(p) <= Gamma
    <3>1. p \in SUBSET CellsOf(e.key)
      BY <1>1
    <3>2. IsFiniteSet(CellsOf(e.key)) /\ Cardinality(CellsOf(e.key)) <= Gamma
      BY <1>2, CellsOfKey
    <3>3. Cardinality(p) <= Cardinality(CellsOf(e.key)) /\ Cardinality(CellsOf(e.key)) \in Nat
      BY <3>1, <3>2, FS_Subset, FS_CardinalityType
    <3> QED BY <1>8, <3>2, <3>3, TableAssumption
  <2>3. Gamma * (Delta + (Len(r) + 1)) = Gamma * (Delta + Len(r)) + Gamma
    BY <1>6, TableAssumption
  <2>4. Gamma * (Delta + Len(r)) \in Nat /\ Gamma \in Nat
    BY <1>6, TableAssumption
  <2> DEFINE bound == Gamma * (Delta + Len(r))
  <2>5. Len(q) <= bound /\ bound \in Nat /\ Gamma * (Delta + Len(r1)) = bound + Gamma
    BY <1>6, <2>1, <2>3, <2>4
  <2> HIDE DEF bound
  <2>6. Len(q1) <= Gamma * (Delta + Len(r1))
    BY <1>7, <1>8, <1>9, <2>2, <2>4, <2>5
  <2> QED BY <1>10, <2>6 DEF QueueBound
<1>19. Remaining'
  <2> SUFFICES ASSUME ~poisoned PROVE \E rest \in Seq(Entries) : IsRest(rest)'
    BY <1>10 DEF Remaining
  <2>1. PICK rest \in Seq(Entries) : w = Encoded(rest) /\ \A x \in Entries :
          Times(s, x) = Times(r, x) + Times(rest, x)
    BY <1>1, <1>5 DEF IInv, PeelInv, Remaining, IsRest
  <2>2. PICK i \in 1 .. Len(rest) : w[a] = [counter |-> 1, key |-> rest[i].key, value |-> rest[i].value]
    BY <1>1, <2>1, CellCounts
  <2>3. rest[i] \in Entries /\ e = rest[i]
    <3>1. rest[i] \in Entries
      OBVIOUS
    <3>2. e.key = rest[i].key /\ e.value = rest[i].value
      BY <1>1, <2>2
    <3> QED BY <3>1, <3>2, EntriesInField
  <2>4. PICK left \in Seq(Entries) :
          /\ Encoded(rest) = WithEntry(Encoded(left), e)
          /\ \A x \in Entries : Times(rest, x) = Times(left, x) + (IF x = e THEN 1 ELSE 0)
    BY <2>3, TakeOut
  <2>5. t = Encoded(left)
    <3>1. Encoded(left) \in AnyTables
      BY EncodedAppend
    <3> QED BY <1>3, <2>1, <2>4, <3>1, WithoutUndoesWith
  <2>6. ASSUME NEW x \in Entries PROVE Times(s, x) = Times(r1, x) + Times(left, x)
    <3>1. Times(r, x) \in Nat /\ Times(left, x) \in Nat /\ Times(rest, x) \in Nat
          /\ Times(r1, x) = Times(r, x) + (IF e = x THEN 1 ELSE 0)
      BY <1>6, TimesAppend
    <3> QED BY <2>1, <2>4, <3>1
  <2>7. IsRest(left)'
    BY <1>5, <1>10, <1>13, <2>5, <2>6 DEF IsRest
  <2> QED BY <2>7
<1>20. Queued'
  <2> SUFFICES ASSUME ~poisoned, NEW c \in Cells, IsPure(t[c])
               PROVE  \E i \in h + 1 .. Len(q1) : q1[i] = c
    BY <1>10 DEF Queued, IsPure
  <2>1. CASE c \in CellsOf(e.key)
    <3>1. c \in p
      BY <1>1, <1>3, <2>1
    <3>2. PICK i \in 1 .. Len(n) : n[i] = c
      BY <1>8, <3>1
    <3>3. Len(q) + i \in h + 1 .. Len(q1) /\ q1[Len(q) + i] = c
      BY <1>7, <1>8, <1>9, <3>2
    <3> QED BY <3>3
  <2>2. CASE c \notin CellsOf(e.key)
    <3>1. IsPure(w[c])
      BY <1>3, <2>2
    <3>2. PICK i \in h .. Len(q) : q[i] = c
      BY <1>1, <1>7, <3>1 DEF IInv, PeelInv, Queued
    <3>3. i # h
      BY <1>1, <1>7, <2>2, <3>2
    <3>4. i \in h + 1 .. Len(q1) /\ q1[i] = c
      BY <1>7, <1>8, <1>9, <3>2, <3>3
    <3> QED BY <3>4
  <2> QED BY <2>1, <2>2
<1> QED BY <1>11, <1>12, <1>15, <1>16, <1>17, <1>18, <1>19, <1>20 DEF IInv, PeelInv

-----------------------------------------------------------------------------
(***************************************************************************)
(* What a step of Iblt preserves, and what follows for recover.            *)
(***************************************************************************)
\* Every step of Iblt preserves it.
LEMMA NextIInv == IInv /\ [Next]_vars => IInv'
<1> SUFFICES ASSUME IInv, [Next]_vars PROVE IInv'
  OBVIOUS
<1>1. ASSUME NEW k \in Keys, NEW v \in Values, insert([key |-> k, value |-> v])
      PROVE  IInv'
  BY <1>1, InsertIInv
<1>2. ASSUME NEW c \in Cells, NEW n \in Field, NEW k \in Field, NEW v \in Field,
             decode_from_elements(c, [counter |-> n, key |-> k, value |-> v])
      PROVE  IInv'
  BY <1>2, DecodeIInv
<1>3. CASE recover
  BY <1>3, RecoverIInv
<1>4. CASE skip
  BY <1>4, SkipIInv
<1>5. CASE invalid_packed_element \/ unexpected_zero_counter
  BY <1>5, ErrorIInv
<1>6. CASE peel
  BY <1>6, PeelIInv
<1>7. CASE finish
  BY <1>7, FinishIInv
<1>8. CASE UNCHANGED vars
  <2>1. UNCHANGED <<input, working, recovered, queue, head, result, poisoned>>
    BY <1>8 DEF vars, input
  <2>2. TypeOK' /\ Idle' /\ QueueBound' /\ Queued' /\ Outcome'
    BY <2>1 DEF IInv, PeelInv, TypeOK, Idle, QueueBound, Queued, Outcome, AllZero, IsPure, input
  <2> QED BY <2>1, <2>2, RecoverFrame DEF IInv, PeelInv
<1> QED BY <1>1, <1>2, <1>3, <1>4, <1>5, <1>6, <1>7, <1>8 DEF Next

\* What it says of recover.
LEMMA PeelTypeOK == PeelInv => TypeOK
BY DEF PeelInv

LEMMA PeelOkExplainsTable == PeelInv => OkExplainsTable
<1> SUFFICES ASSUME PeelInv, result = "Ok" PROVE Encoded(recovered) = table
  BY DEF OkExplainsTable
<1>1. working # None /\ AllZero
  BY TableAssumption DEF PeelInv, Outcome
<1>2. Encoded(recovered) \in AnyTables /\ table \in AnyTables
  BY EncodedAppend, TablesAreAny DEF PeelInv, TypeOK
<1>3. ASSUME NEW c \in Cells PROVE table[c] = Encoded(recovered)[c]
  <2> DEFINE r == Encoded(recovered)[c]
  <2>1. r \in CellValues
    BY <1>2 DEF AnyTables
  <2>2. table[c] = Sum(Zero, r)
    BY <1>1 DEF PeelInv, Explains, AllZero
  <2> HIDE DEF r
  <2>3. /\ 0 + r.counter = r.counter /\ AddMod(0, r.key) = r.key /\ AddMod(0, r.value) = r.value
        /\ r = [counter |-> r.counter, key |-> r.key, value |-> r.value]
    BY <2>1, AddModLaws DEF CellValues
  <2>4. Sum(Zero, r) = r
    BY <2>3 DEF Sum, Zero
  <2> QED BY <2>2, <2>4 DEF r
<1> QED BY <1>2, <1>3 DEF AnyTables

LEMMA LeftIsRest ==
  ASSUME PeelInv, working # None, ~poisoned
  PROVE  \E rest \in Seq(Entries) :
           /\ working = Encoded(rest)
           /\ \A e \in Entries : Left(e) = Times(rest, e) /\ Times(rest, e) \in Nat
<1>1. PICK rest \in Seq(Entries) : IsRest(rest)
  BY DEF PeelInv, Remaining
<1>2. inserted \in Seq(Entries) /\ recovered \in Seq(Entries)
  BY DEF PeelInv, TypeOK
<1>3. ASSUME NEW e \in Entries PROVE Left(e) = Times(rest, e) /\ Times(rest, e) \in Nat
  <2>1. Left(e) = Times(inserted, e) - Times(recovered, e)
    BY DEF Left, Times
  <2>2. Times(inserted, e) \in Nat /\ Times(recovered, e) \in Nat /\ Times(rest, e) \in Nat
    BY <1>2, TimesAppend
  <2>3. Times(inserted, e) = Times(recovered, e) + Times(rest, e)
    BY <1>1 DEF IsRest
  <2> QED BY <2>1, <2>2, <2>3
<1> QED BY <1>1, <1>3 DEF IsRest

LEMMA PeelRecoversInserted == PeelInv => RecoversInserted
<1> SUFFICES ASSUME PeelInv, ~poisoned
             PROVE  /\ result \in {None, "Ok", "PeelStalled"}
                    /\ \A e \in Entries : Left(e) >= 0
                    /\ result = "Ok" => \A e \in Entries : Left(e) = 0
  BY DEF RecoversInserted
<1>1. result \in {None, "Ok", "PeelStalled"}
  BY DEF PeelInv, Outcome
<1>2. CASE working = None
  <2>1. result = None /\ recovered = <<>> /\ inserted \in Seq(Entries)
    BY <1>2 DEF PeelInv, Idle, TypeOK
  <2>2. \A e \in Entries : Left(e) >= 0
    <3> TAKE e \in Entries
    <3>1. Left(e) = Times(inserted, e) - Times(<<>>, e)
      BY <2>1 DEF Left, Times
    <3>2. Times(inserted, e) \in Nat /\ Times(<<>>, e) = 0
      BY <2>1, TimesAppend
    <3> QED BY <3>1, <3>2
  <2> QED BY <1>1, <2>1, <2>2, TableAssumption
<1>3. CASE working # None
  <2>1. PICK rest \in Seq(Entries) :
          /\ working = Encoded(rest)
          /\ \A e \in Entries : Left(e) = Times(rest, e) /\ Times(rest, e) \in Nat
    BY <1>3, LeftIsRest
  <2>2. ASSUME result = "Ok", NEW e \in Entries PROVE Left(e) = 0
    <3> SUFFICES ASSUME Left(e) # 0 PROVE FALSE
      OBVIOUS
    <3>1. PICK i \in 1 .. Len(rest) : rest[i] = e
      BY <2>1, TimesAppend
    <3>2. PICK c : c \in CellsOf(e.key)
      <4>1. 0 \in Row
        BY TableAssumption DEF Row
      <4>2. <<0, chunk_index[e.key][0]>> \in CellsOf(e.key)
        BY <4>1 DEF CellsOf
      <4> QED BY <4>2
    <3>3. c \in Cells
      BY <3>2, CellsOfKey, EntriesInField DEF PeelInv, TypeOK, HashOK
    <3>4. Encoded(rest)[c].counter # 0
      BY <3>1, <3>2, <3>3, CellCounts
    <3>5. working[c].counter = 0
      BY <2>2, <3>3 DEF PeelInv, Outcome, AllZero, Zero
    <3> QED BY <2>1, <3>4, <3>5
  <2> QED BY <1>1, <2>1, <2>2
<1> QED BY <1>2, <1>3

LEMMA PeelStallsOnlyOnCore == PeelInv => StallsOnlyOnCore
<1> DEFINE left == {e \in Entries : Left(e) > 0}
<1> SUFFICES ASSUME PeelInv, result = "PeelStalled", ~poisoned
             PROVE  /\ left # {}
                    /\ \A e \in left : \A c \in CellsOf(e.key) :
                         Left(e) > 1 \/ \E d \in left : d # e /\ c \in CellsOf(d.key)
  BY DEF StallsOnlyOnCore
<1>1. working # None /\ ~AllZero /\ head > Len(queue)
  BY TableAssumption DEF PeelInv, Outcome, Errors
<1>2. PICK rest \in Seq(Entries) :
        /\ working = Encoded(rest)
        /\ \A e \in Entries : Left(e) = Times(rest, e) /\ Times(rest, e) \in Nat
  BY <1>1, LeftIsRest
<1>3. \A i \in 1 .. Len(rest) : rest[i] \in left
  <2> TAKE i \in 1 .. Len(rest)
  <2>1. rest[i] \in Entries
    OBVIOUS
  <2>2. Times(rest, rest[i]) > 0
    BY TimesAppend
  <2> QED BY <1>2, <2>1, <2>2
<1>4. left # {}
  <2>1. PICK c \in Cells : Encoded(rest)[c] # Zero
    BY <1>1, <1>2 DEF AllZero
  <2>2. Encoded(rest)[c].counter \in Nat /\ Encoded(rest)[c].counter # 0
    BY <2>1, CellCounts DEF CellValues
  <2>3. PICK i \in 1 .. Len(rest) : c \in CellsOf(rest[i].key)
    BY <2>2, CellCounts
  <2> HIDE DEF left
  <2> QED BY <1>3, <2>3
<1>5. ASSUME NEW e \in left, NEW c \in CellsOf(e.key)
      PROVE  Left(e) > 1 \/ \E d \in left : d # e /\ c \in CellsOf(d.key)
  <2>1. e \in Entries /\ Times(rest, e) > 0
    BY <1>2
  <2>2. PICK k \in 1 .. Len(rest) : rest[k] = e
    BY <2>1, TimesAppend
  <2>3. c \in Cells
    BY <2>1, CellsOfKey, EntriesInField DEF PeelInv, TypeOK, HashOK
  <2>4. Encoded(rest)[c].counter \in Nat /\ Encoded(rest)[c].counter # 0
    BY <2>2, <2>3, CellCounts DEF CellValues
  <2>5. ~IsPure(working[c])
    <3>1. head \in Nat /\ Len(queue) \in Nat
      BY DEF PeelInv, TypeOK
    <3>2. ~ \E i \in head .. Len(queue) : queue[i] = c
      BY <1>1, <3>1
    <3> QED BY <1>1, <2>3, <3>2 DEF PeelInv, Queued
  <2>6. Encoded(rest)[c].counter > 1
    BY <1>2, <2>4, <2>5, SMTT(30) DEF IsPure
  <2>7. PICK i \in 1 .. Len(rest), j \in 1 .. Len(rest) :
          i # j /\ c \in CellsOf(rest[i].key) /\ c \in CellsOf(rest[j].key)
    BY <2>3, <2>6, CellCounts
  <2>8. CASE rest[i] # e
    BY <1>3, <2>7, <2>8
  <2>9. CASE rest[j] # e
    BY <1>3, <2>7, <2>9
  <2>10. CASE rest[i] = e /\ rest[j] = e
    <3>1. Times(rest, e) > 1
      BY <2>7, <2>10, TimesAppend
    <3> QED BY <1>2, <2>1, <3>1
  <2> QED BY <2>8, <2>9, <2>10
<1> QED BY <1>4, <1>5

LEMMA PeelIsCounted == PeelInv => PeelsWhatIsCounted
<1> SUFFICES ASSUME PeelInv PROVE PeelsWhatIsCounted
  OBVIOUS
<1>1. Len(queue) <= Gamma * (Delta + Len(recovered))
  BY DEF PeelInv, QueueBound
<1>2. table \in AnyTables /\ Len(recovered) \in Nat
  BY TablesAreAny DEF PeelInv, TypeOK
<1>3. ASSUME NEW row \in Row PROVE Len(recovered) <= RowSum(table, row)
  <2>1. RowSum(table, row) \in Nat
    BY <1>2, RowSumTyped
  <2>2. CASE working = None
    BY <2>1, <2>2 DEF PeelInv, Idle
  <2>3. CASE working # None
    <3>1. working \in AnyTables
      BY <2>3, TablesAreAny DEF PeelInv, TypeOK
    <3>2. RowSum(working, row) \in Nat
      BY <3>1, RowSumTyped
    <3>3. RowSum(table, row) = RowSum(working, row) + Len(recovered)
      BY <2>3 DEF PeelInv, RowsCounted
    <3> QED BY <1>2, <2>1, <3>2, <3>3
  <2> QED BY <2>2, <2>3
<1> QED BY <1>1, <1>3 DEF PeelsWhatIsCounted, RowSum

-----------------------------------------------------------------------------
(***************************************************************************)
(* Vectors of n elements.                                                  *)
(***************************************************************************)
Vec(n)       == [1 .. n -> Field]
ZeroVec(n)   == [i \in 1 .. n |-> 0]
VPlus(a, b)  == [i \in DOMAIN a |-> AddMod(a[i], b[i])]
VMinus(a, b) == [i \in DOMAIN a |-> SubMod(a[i], b[i])]

\* Addition of vectors is that of a group.
LEMMA VecLaws ==
  ASSUME NEW n \in Nat, NEW a \in Vec(n), NEW b \in Vec(n), NEW c \in Vec(n)
  PROVE  /\ ZeroVec(n) \in Vec(n) /\ VPlus(a, b) \in Vec(n) /\ VMinus(a, b) \in Vec(n)
         /\ VPlus(a, b) = VPlus(b, a)
         /\ VPlus(VPlus(a, b), c) = VPlus(a, VPlus(b, c))
         /\ VPlus(ZeroVec(n), a) = a /\ VPlus(a, ZeroVec(n)) = a
         /\ VMinus(VPlus(a, b), b) = a
<1>1. /\ 0 \in Field
      /\ \A x, y \in Field : AddMod(x, y) \in Field /\ SubMod(x, y) \in Field
  BY AddModInField, FieldAssumption DEF Field
<1>2. \A x, y \in Field : AddMod(x, y) = AddMod(y, x)
  <2> TAKE x, y \in Field
  <2>1. AddMod(AddMod(0, x), y) = AddMod(AddMod(0, y), x)
    BY <1>1, AddModLaws
  <2>2. AddMod(0, x) = x /\ AddMod(0, y) = y
    BY <1>1, AddModLaws
  <2> QED BY <2>1, <2>2
<1>3. \A x, y, z \in Field : AddMod(AddMod(x, y), z) = AddMod(x, AddMod(y, z))
  <2> TAKE x, y, z \in Field
  <2>1. AddMod(AddMod(y, x), z) = AddMod(AddMod(y, z), x)
    BY AddModLaws
  <2>2. AddMod(y, z) \in Field
    BY <1>1
  <2> QED BY <1>2, <2>1, <2>2
<1>4. \A x, y \in Field : SubMod(AddMod(x, y), y) = x /\ AddMod(0, x) = x /\ AddMod(x, 0) = x
  BY <1>1, AddModLaws
<1>5. /\ DOMAIN a = 1 .. n /\ DOMAIN b = 1 .. n /\ DOMAIN c = 1 .. n
      /\ \A i \in 1 .. n : a[i] \in Field /\ b[i] \in Field /\ c[i] \in Field
  BY DEF Vec
<1>6. \A v, w \in Vec(n) : (\A i \in 1 .. n : v[i] = w[i]) => v = w
  BY DEF Vec
<1>7. /\ ZeroVec(n) \in Vec(n) /\ \A i \in 1 .. n : ZeroVec(n)[i] = 0
  BY <1>1 DEF ZeroVec, Vec
<1>8. \A v, w \in Vec(n) :
        /\ VPlus(v, w) \in Vec(n) /\ VMinus(v, w) \in Vec(n)
        /\ \A i \in 1 .. n : /\ VPlus(v, w)[i] = AddMod(v[i], w[i])
                             /\ VMinus(v, w)[i] = SubMod(v[i], w[i])
                             /\ v[i] \in Field /\ w[i] \in Field
  <2> TAKE v, w \in Vec(n)
  <2>1. DOMAIN v = 1 .. n /\ \A i \in 1 .. n : v[i] \in Field /\ w[i] \in Field
    BY DEF Vec
  <2> QED BY <1>1, <2>1 DEF Vec, VPlus, VMinus
<1>9. VPlus(a, b) \in Vec(n) /\ VPlus(b, a) \in Vec(n) /\ VPlus(b, c) \in Vec(n)
  BY <1>8
<1>10. VPlus(a, b) = VPlus(b, a)
  BY <1>2, <1>6, <1>8, <1>9
<1>11. VPlus(VPlus(a, b), c) = VPlus(a, VPlus(b, c))
  <2>1. VPlus(VPlus(a, b), c) \in Vec(n) /\ VPlus(a, VPlus(b, c)) \in Vec(n)
    BY <1>8, <1>9
  <2>2. ASSUME NEW i \in 1 .. n
        PROVE  VPlus(VPlus(a, b), c)[i] = VPlus(a, VPlus(b, c))[i]
    <3>1. VPlus(VPlus(a, b), c)[i] = AddMod(AddMod(a[i], b[i]), c[i])
      BY <1>8, <1>9
    <3>2. VPlus(a, VPlus(b, c))[i] = AddMod(a[i], AddMod(b[i], c[i]))
      BY <1>8, <1>9
    <3> QED BY <1>3, <1>5, <3>1, <3>2
  <2> QED BY <1>6, <2>1, <2>2
<1>12. VPlus(ZeroVec(n), a) = a /\ VPlus(a, ZeroVec(n)) = a
  <2>1. VPlus(ZeroVec(n), a) \in Vec(n) /\ VPlus(a, ZeroVec(n)) \in Vec(n)
    BY <1>7, <1>8
  <2>2. \A i \in 1 .. n : VPlus(ZeroVec(n), a)[i] = a[i] /\ VPlus(a, ZeroVec(n))[i] = a[i]
    BY <1>4, <1>5, <1>7, <1>8
  <2> QED BY <1>6, <2>1, <2>2
<1>13. VMinus(VPlus(a, b), b) = a
  <2>1. VMinus(VPlus(a, b), b) \in Vec(n)
    BY <1>8, <1>9
  <2>2. \A i \in 1 .. n : VMinus(VPlus(a, b), b)[i] = a[i]
    BY <1>4, <1>5, <1>8, <1>9
  <2> QED BY <1>6, <2>1, <2>2
<1> QED BY <1>7, <1>8, <1>10, <1>11, <1>12, <1>13

LEMMA VecEqual ==
  ASSUME NEW n \in Nat, NEW a \in Vec(n), NEW b \in Vec(n), \A i \in 1 .. n : a[i] = b[i]
  PROVE  a = b
  BY DEF Vec

LEMMA VecInterchange ==
  ASSUME NEW n \in Nat,
         NEW w \in Vec(n), NEW x \in Vec(n), NEW y \in Vec(n), NEW z \in Vec(n)
  PROVE  VPlus(VPlus(w, x), VPlus(y, z)) = VPlus(VPlus(w, y), VPlus(x, z))
<1>1. VPlus(x, VPlus(y, z)) = VPlus(y, VPlus(x, z))
  <2>1. VPlus(VPlus(x, y), z) = VPlus(VPlus(y, x), z)
    BY VecLaws
  <2> QED BY <2>1, VecLaws
<1>2. VPlus(VPlus(w, x), VPlus(y, z)) = VPlus(w, VPlus(x, VPlus(y, z)))
  <2>1. VPlus(y, z) \in Vec(n)
    BY VecLaws
  <2> QED BY <2>1, VecLaws
<1>3. VPlus(VPlus(w, y), VPlus(x, z)) = VPlus(w, VPlus(y, VPlus(x, z)))
  <2>1. VPlus(x, z) \in Vec(n)
    BY VecLaws
  <2> QED BY <2>1, VecLaws
<1> QED BY <1>1, <1>2, <1>3

\* The slices of one machine and of another are these sums and differences.
LEMMA SlicesOfVec ==
  ASSUME NEW n \in Nat, NEW a \in Vec(n), NEW b \in Vec(n), NEW avx2 \in BOOLEAN
  PROVE  /\ AddModSlice(a, b, avx2) = VPlus(a, b)
         /\ SubModSlice(a, b, avx2) = VMinus(a, b)
<1>1. a \in Seq(Field) /\ b \in Seq(Field)
  BY DEF Vec
<1>2. Len(a) = Len(b)
  BY DEF Vec
<1>3. AddModSlice(a, b, FALSE) = VPlus(a, b) /\ SubModSlice(a, b, FALSE) = VMinus(a, b)
  BY <1>1, <1>2, ScalarSlices DEF VPlus, VMinus
<1>4. avx2 = TRUE \/ avx2 = FALSE
  OBVIOUS
<1> QED BY <1>1, <1>3, <1>4, LanesAgree

\* The steps of AddAll over a sequence of vectors.
AddAllSteps(vs, n, avx2) == [i \in 1 .. Len(vs) |-> [a \in Vec(n) |-> AddModSlice(a, vs[i], avx2)]]

LEMMA AddAllIsFold ==
  ASSUME NEW n \in Nat, NEW dst \in Vec(n), NEW vs \in Seq(Vec(n)), NEW avx2 \in BOOLEAN
  PROVE  \E f : /\ IsFold(f, Len(vs), Vec(n), dst, AddAllSteps(vs, n, avx2))
               /\ AddAll(dst, vs, avx2) = f[Len(vs)]
<1> DEFINE m == Len(vs)
           T == Vec(n)
           g == AddAllSteps(vs, n, avx2)
           body(it) == [x \in SUBSET (1 .. m) |->
                          IF x = {} THEN dst ELSE AddModSlice(it[x \ {Max(x)}], vs[Max(x)], avx2)]
           iter == CHOOSE it : it = body(it)
<1>0. m \in Nat /\ DOMAIN vs = 1 .. m /\ \A i \in 1 .. m : vs[i] \in T
  OBVIOUS
<1>1. \A x \in SUBSET (1 .. m) : x # {} => Max(x) \in x /\ \A y \in x : Max(x) >= y
  BY <1>0, MaxOfPositions
<1>2. g \in [1 .. m -> [T -> T]]
  <2>1. \A i \in 1 .. m : \A a \in T : AddModSlice(a, vs[i], avx2) \in T
    BY <1>0, SlicesOfVec, VecLaws
  <2> QED BY <2>1 DEF AddAllSteps
<1>3. \A i \in 1 .. m : \A a \in T : g[i][a] = AddModSlice(a, vs[i], avx2)
  BY DEF AddAllSteps
<1> HIDE DEF T, g
<1>4. \E it : it = body(it)
  <2> DEFINE greatest == [x \in SUBSET (1 .. m) |-> Max(x)]
  <2>1. IsFiniteSet(1 .. m)
    BY <1>0, FS_Interval
  <2>2. \A x \in SUBSET (1 .. m) : x # {} => greatest[x] \in x
    BY <1>1
  <2>d. dst \in T
    BY DEF T
  <2>g. \A x \in SUBSET (1 .. m) : greatest[x] = Max(x)
    OBVIOUS
  <2> HIDE DEF m, greatest
  <2>3. PICK it : IsSubsetRecursion(it, 1 .. m, T, dst, g, greatest)
    BY <2>1, <2>2, <2>d, <1>2, SubsetRecursion
  <2>4. it = [x \in SUBSET (1 .. m) |-> it[x]]
    BY <2>3 DEF IsSubsetRecursion
  <2>5. \A x \in SUBSET (1 .. m) :
          it[x] = IF x = {} THEN dst ELSE AddModSlice(it[x \ {Max(x)}], vs[Max(x)], avx2)
    <3> TAKE x \in SUBSET (1 .. m)
    <3>1. it[x] = IF x = {} THEN dst ELSE g[greatest[x]][it[x \ {greatest[x]}]]
      BY <2>3 DEF IsSubsetRecursion
    <3>2. CASE x = {}
      BY <3>1, <3>2
    <3>3. CASE x # {}
      <4>1. greatest[x] = Max(x) /\ Max(x) \in 1 .. m
        BY <1>1, <2>g, <3>3
      <4>2. it[x \ {Max(x)}] \in T
        BY <2>3 DEF IsSubsetRecursion
      <4> QED BY <3>1, <3>3, <4>1, <4>2, <1>3
    <3> QED BY <3>2, <3>3
  <2> QED BY <2>4, <2>5
<1>5. iter = body(iter)
  BY <1>4
<1>6. AddAll(dst, vs, avx2) = iter[1 .. m]
  <2>1. iter = CHOOSE it : it = [x \in SUBSET DOMAIN vs |-> IF x = {} THEN dst
                                   ELSE AddModSlice(it[x \ {Max(x)}], vs[Max(x)], avx2)]
    BY <1>0
  <2> HIDE DEF iter
  <2>2. AddAll(dst, vs, avx2) = iter[DOMAIN vs]
    BY <2>1 DEF AddAll, FoldLeft, MapThenFoldSet
  <2> QED BY <1>0, <2>2
<1>7. \A x \in SUBSET (1 .. m) :
        iter[x] = IF x = {} THEN dst ELSE AddModSlice(iter[x \ {Max(x)}], vs[Max(x)], avx2)
  <2> HIDE DEF iter
  <2> QED BY <1>5
<1> HIDE DEF iter, body
<1>8. iter[{}] = dst
  BY <1>7
<1>9. ASSUME NEW k \in 0 .. m - 1, iter[1 .. k] \in T
      PROVE  iter[1 .. k + 1] = g[k + 1][iter[1 .. k]]
  <2>1. /\ 1 .. k + 1 \in SUBSET (1 .. m) /\ 1 .. k + 1 # {} /\ k + 1 \in 1 .. m
        /\ Max(1 .. k + 1) = k + 1 /\ (1 .. k + 1) \ {k + 1} = 1 .. k
    BY <1>0, MaxOfInterval
  <2>2. iter[1 .. k + 1] = AddModSlice(iter[1 .. k], vs[k + 1], avx2)
    BY <2>1, <1>7
  <2> QED BY <2>1, <2>2, <1>9, <1>3
<1>10. dst \in T
  BY DEF T
<1> HIDE DEF m
<1>11. \E f : IsFold(f, m, T, dst, g) /\ iter[1 .. m] = f[m]
  <2>1. \A k \in 0 .. m - 1 : iter[1 .. k] \in T => iter[1 .. k + 1] = g[k + 1][iter[1 .. k]]
    BY <1>9
  <2>2. m \in Nat
    BY <1>0
  <2>3. RunsOn(iter, m, T, g)
    BY <2>1 DEF RunsOn
  <2> HIDE DEF iter
  <2>4. \A e : e[{}] = dst /\ RunsOn(e, m, T, g) =>
               \E f : IsFold(f, m, T, dst, g) /\ e[1 .. m] = f[m]
    BY <1>2, <1>10, <2>2, FoldThatRunsOn, SMTT(30)
  <2> QED BY <1>8, <2>3, <2>4, Zenon
<1> QED BY <1>6, <1>11 DEF m, T, g

LEMMA AddAllAppend ==
  ASSUME NEW n \in Nat, NEW dst \in Vec(n), NEW avx2 \in BOOLEAN
  PROVE  /\ AddAll(dst, <<>>, avx2) = dst
         /\ \A vs \in Seq(Vec(n)) :
              /\ AddAll(dst, vs, avx2) \in Vec(n)
              /\ \A v \in Vec(n) :
                   AddAll(dst, Append(vs, v), avx2) = VPlus(AddAll(dst, vs, avx2), v)
<1>1. AddAll(dst, <<>>, avx2) = dst
  <2>1. <<>> \in Seq(Vec(n)) /\ Len(<<>>) = 0
    OBVIOUS
  <2>2. PICK f : /\ IsFold(f, Len(<<>>), Vec(n), dst, AddAllSteps(<<>>, n, avx2))
                 /\ AddAll(dst, <<>>, avx2) = f[Len(<<>>)]
    BY <2>1, AddAllIsFold
  <2> QED BY <2>1, <2>2 DEF IsFold
<1>2. ASSUME NEW vs \in Seq(Vec(n))
      PROVE  AddAll(dst, vs, avx2) \in Vec(n)
  <2>1. PICK f : /\ IsFold(f, Len(vs), Vec(n), dst, AddAllSteps(vs, n, avx2))
                 /\ AddAll(dst, vs, avx2) = f[Len(vs)]
    BY AddAllIsFold
  <2> QED BY <2>1 DEF IsFold
<1>3. ASSUME NEW vs \in Seq(Vec(n)), NEW v \in Vec(n)
      PROVE  AddAll(dst, Append(vs, v), avx2) = VPlus(AddAll(dst, vs, avx2), v)
  <2> DEFINE m == Len(vs)
             us == Append(vs, v)
             T == Vec(n)
             g == AddAllSteps(vs, n, avx2)
             h == AddAllSteps(us, n, avx2)
  <2>1. /\ us \in Seq(T) /\ Len(us) = m + 1 /\ m \in Nat /\ us[m + 1] = v
        /\ \A i \in 1 .. m : us[i] = vs[i]
    OBVIOUS
  <2> HIDE DEF us
  <2>2. PICK f : IsFold(f, m, T, dst, g) /\ AddAll(dst, vs, avx2) = f[m]
    BY AddAllIsFold
  <2>3. PICK e : IsFold(e, m + 1, T, dst, h) /\ AddAll(dst, us, avx2) = e[m + 1]
    BY <2>1, AddAllIsFold
  <2>4. \A i \in 1 .. m : g[i] = h[i]
    BY <2>1 DEF AddAllSteps
  <2>5. \A a \in T : h[m + 1][a] = AddModSlice(a, v, avx2)
    BY <2>1 DEF AddAllSteps
  <2> HIDE DEF T, g, h
  <2>6. f[m] = e[m]
    <3>1. m <= m + 1 /\ m + 1 \in Nat /\ m \in 0 .. m
      BY <2>1
    <3> HIDE DEF m
    <3> QED BY <2>1, <2>2, <2>3, <2>4, <3>1, FoldPrefix
  <2>7. e[m] \in T /\ e[m + 1] = h[m + 1][e[m]]
    BY <2>1, <2>3 DEF IsFold
  <2>8. e[m + 1] = AddModSlice(e[m], v, avx2)
    BY <2>5, <2>7
  <2>9. AddModSlice(e[m], v, avx2) = VPlus(e[m], v)
    BY <2>7, SlicesOfVec DEF T
  <2> QED BY <2>2, <2>3, <2>6, <2>8, <2>9 DEF us
<1> QED BY <1>1, <1>2, <1>3

\* The steps of SubAll over a sequence of vectors.
SubAllSteps(vs, n, avx2) == [i \in 1 .. Len(vs) |-> [a \in Vec(n) |-> SubModSlice(a, vs[i], avx2)]]

LEMMA SubAllIsFold ==
  ASSUME NEW n \in Nat, NEW dst \in Vec(n), NEW vs \in Seq(Vec(n)), NEW avx2 \in BOOLEAN
  PROVE  \E f : /\ IsFold(f, Len(vs), Vec(n), dst, SubAllSteps(vs, n, avx2))
               /\ SubAll(dst, vs, avx2) = f[Len(vs)]
<1> DEFINE m == Len(vs)
           T == Vec(n)
           g == SubAllSteps(vs, n, avx2)
           body(it) == [x \in SUBSET (1 .. m) |->
                          IF x = {} THEN dst ELSE SubModSlice(it[x \ {Max(x)}], vs[Max(x)], avx2)]
           iter == CHOOSE it : it = body(it)
<1>0. m \in Nat /\ DOMAIN vs = 1 .. m /\ \A i \in 1 .. m : vs[i] \in T
  OBVIOUS
<1>1. \A x \in SUBSET (1 .. m) : x # {} => Max(x) \in x /\ \A y \in x : Max(x) >= y
  BY <1>0, MaxOfPositions
<1>2. g \in [1 .. m -> [T -> T]]
  <2>1. \A i \in 1 .. m : \A a \in T : SubModSlice(a, vs[i], avx2) \in T
    BY <1>0, SlicesOfVec, VecLaws
  <2> QED BY <2>1 DEF SubAllSteps
<1>3. \A i \in 1 .. m : \A a \in T : g[i][a] = SubModSlice(a, vs[i], avx2)
  BY DEF SubAllSteps
<1> HIDE DEF T, g
<1>4. \E it : it = body(it)
  <2> DEFINE greatest == [x \in SUBSET (1 .. m) |-> Max(x)]
  <2>1. IsFiniteSet(1 .. m)
    BY <1>0, FS_Interval
  <2>2. \A x \in SUBSET (1 .. m) : x # {} => greatest[x] \in x
    BY <1>1
  <2>d. dst \in T
    BY DEF T
  <2>g. \A x \in SUBSET (1 .. m) : greatest[x] = Max(x)
    OBVIOUS
  <2> HIDE DEF m, greatest
  <2>3. PICK it : IsSubsetRecursion(it, 1 .. m, T, dst, g, greatest)
    BY <2>1, <2>2, <2>d, <1>2, SubsetRecursion
  <2>4. it = [x \in SUBSET (1 .. m) |-> it[x]]
    BY <2>3 DEF IsSubsetRecursion
  <2>5. \A x \in SUBSET (1 .. m) :
          it[x] = IF x = {} THEN dst ELSE SubModSlice(it[x \ {Max(x)}], vs[Max(x)], avx2)
    <3> TAKE x \in SUBSET (1 .. m)
    <3>1. it[x] = IF x = {} THEN dst ELSE g[greatest[x]][it[x \ {greatest[x]}]]
      BY <2>3 DEF IsSubsetRecursion
    <3>2. CASE x = {}
      BY <3>1, <3>2
    <3>3. CASE x # {}
      <4>1. greatest[x] = Max(x) /\ Max(x) \in 1 .. m
        BY <1>1, <2>g, <3>3
      <4>2. it[x \ {Max(x)}] \in T
        BY <2>3 DEF IsSubsetRecursion
      <4> QED BY <3>1, <3>3, <4>1, <4>2, <1>3
    <3> QED BY <3>2, <3>3
  <2> QED BY <2>4, <2>5
<1>5. iter = body(iter)
  BY <1>4
<1>6. SubAll(dst, vs, avx2) = iter[1 .. m]
  <2>1. iter = CHOOSE it : it = [x \in SUBSET DOMAIN vs |-> IF x = {} THEN dst
                                   ELSE SubModSlice(it[x \ {Max(x)}], vs[Max(x)], avx2)]
    BY <1>0
  <2> HIDE DEF iter
  <2>2. SubAll(dst, vs, avx2) = iter[DOMAIN vs]
    BY <2>1 DEF SubAll, FoldLeft, MapThenFoldSet
  <2> QED BY <1>0, <2>2
<1>7. \A x \in SUBSET (1 .. m) :
        iter[x] = IF x = {} THEN dst ELSE SubModSlice(iter[x \ {Max(x)}], vs[Max(x)], avx2)
  <2> HIDE DEF iter
  <2> QED BY <1>5
<1> HIDE DEF iter, body
<1>8. iter[{}] = dst
  BY <1>7
<1>9. ASSUME NEW k \in 0 .. m - 1, iter[1 .. k] \in T
      PROVE  iter[1 .. k + 1] = g[k + 1][iter[1 .. k]]
  <2>1. /\ 1 .. k + 1 \in SUBSET (1 .. m) /\ 1 .. k + 1 # {} /\ k + 1 \in 1 .. m
        /\ Max(1 .. k + 1) = k + 1 /\ (1 .. k + 1) \ {k + 1} = 1 .. k
    BY <1>0, MaxOfInterval
  <2>2. iter[1 .. k + 1] = SubModSlice(iter[1 .. k], vs[k + 1], avx2)
    BY <2>1, <1>7
  <2> QED BY <2>1, <2>2, <1>9, <1>3
<1>10. dst \in T
  BY DEF T
<1> HIDE DEF m
<1>11. \E f : IsFold(f, m, T, dst, g) /\ iter[1 .. m] = f[m]
  <2>1. \A k \in 0 .. m - 1 : iter[1 .. k] \in T => iter[1 .. k + 1] = g[k + 1][iter[1 .. k]]
    BY <1>9
  <2>2. m \in Nat
    BY <1>0
  <2>3. RunsOn(iter, m, T, g)
    BY <2>1 DEF RunsOn
  <2> HIDE DEF iter
  <2>4. \A e : e[{}] = dst /\ RunsOn(e, m, T, g) =>
               \E f : IsFold(f, m, T, dst, g) /\ e[1 .. m] = f[m]
    BY <1>2, <1>10, <2>2, FoldThatRunsOn, SMTT(30)
  <2> QED BY <1>8, <2>3, <2>4, Zenon
<1> QED BY <1>6, <1>11 DEF m, T, g

LEMMA SubAllAppend ==
  ASSUME NEW n \in Nat, NEW dst \in Vec(n), NEW avx2 \in BOOLEAN
  PROVE  /\ SubAll(dst, <<>>, avx2) = dst
         /\ \A vs \in Seq(Vec(n)) :
              /\ SubAll(dst, vs, avx2) \in Vec(n)
              /\ \A v \in Vec(n) :
                   SubAll(dst, Append(vs, v), avx2) = VMinus(SubAll(dst, vs, avx2), v)
<1>1. SubAll(dst, <<>>, avx2) = dst
  <2>1. <<>> \in Seq(Vec(n)) /\ Len(<<>>) = 0
    OBVIOUS
  <2>2. PICK f : /\ IsFold(f, Len(<<>>), Vec(n), dst, SubAllSteps(<<>>, n, avx2))
                 /\ SubAll(dst, <<>>, avx2) = f[Len(<<>>)]
    BY <2>1, SubAllIsFold
  <2> QED BY <2>1, <2>2 DEF IsFold
<1>2. ASSUME NEW vs \in Seq(Vec(n))
      PROVE  SubAll(dst, vs, avx2) \in Vec(n)
  <2>1. PICK f : /\ IsFold(f, Len(vs), Vec(n), dst, SubAllSteps(vs, n, avx2))
                 /\ SubAll(dst, vs, avx2) = f[Len(vs)]
    BY SubAllIsFold
  <2> QED BY <2>1 DEF IsFold
<1>3. ASSUME NEW vs \in Seq(Vec(n)), NEW v \in Vec(n)
      PROVE  SubAll(dst, Append(vs, v), avx2) = VMinus(SubAll(dst, vs, avx2), v)
  <2> DEFINE m == Len(vs)
             us == Append(vs, v)
             T == Vec(n)
             g == SubAllSteps(vs, n, avx2)
             h == SubAllSteps(us, n, avx2)
  <2>1. /\ us \in Seq(T) /\ Len(us) = m + 1 /\ m \in Nat /\ us[m + 1] = v
        /\ \A i \in 1 .. m : us[i] = vs[i]
    OBVIOUS
  <2> HIDE DEF us
  <2>2. PICK f : IsFold(f, m, T, dst, g) /\ SubAll(dst, vs, avx2) = f[m]
    BY SubAllIsFold
  <2>3. PICK e : IsFold(e, m + 1, T, dst, h) /\ SubAll(dst, us, avx2) = e[m + 1]
    BY <2>1, SubAllIsFold
  <2>4. \A i \in 1 .. m : g[i] = h[i]
    BY <2>1 DEF SubAllSteps
  <2>5. \A a \in T : h[m + 1][a] = SubModSlice(a, v, avx2)
    BY <2>1 DEF SubAllSteps
  <2> HIDE DEF T, g, h
  <2>6. f[m] = e[m]
    <3>1. m <= m + 1 /\ m + 1 \in Nat /\ m \in 0 .. m
      BY <2>1
    <3> HIDE DEF m
    <3> QED BY <2>1, <2>2, <2>3, <2>4, <3>1, FoldPrefix
  <2>7. e[m] \in T /\ e[m + 1] = h[m + 1][e[m]]
    BY <2>1, <2>3 DEF IsFold
  <2>8. e[m + 1] = SubModSlice(e[m], v, avx2)
    BY <2>5, <2>7
  <2>9. SubModSlice(e[m], v, avx2) = VMinus(e[m], v)
    BY <2>7, SlicesOfVec DEF T
  <2> QED BY <2>2, <2>3, <2>6, <2>8, <2>9 DEF us
<1> QED BY <1>1, <1>2, <1>3

-----------------------------------------------------------------------------
(***************************************************************************)
(* Sums of vectors.                                                        *)
(***************************************************************************)
\* Induction over sequences, for a set of them.
LEMMA SeqSetInduction ==
  ASSUME NEW S, NEW A, <<>> \in A,
         \A s \in Seq(S) : \A x \in S : s \in A => Append(s, x) \in A
  PROVE  Seq(S) \subseteq A
<1> DEFINE B == {n \in Nat : \A s \in Seq(S) : Len(s) = n => s \in A}
<1>1. 0 \in B
  OBVIOUS
<1>2. ASSUME NEW n \in Nat, n \in B PROVE n + 1 \in B
  <2> SUFFICES ASSUME NEW s \in Seq(S), Len(s) = n + 1 PROVE s \in A
    OBVIOUS
  <2> DEFINE r == [j \in 1 .. n |-> s[j]]
  <2>1. s[n + 1] \in S /\ \A j \in 1 .. n : s[j] \in S
    OBVIOUS
  <2>2. r \in Seq(S) /\ Len(r) = n /\ \A j \in 1 .. n : r[j] = s[j]
    BY <2>1
  <2> HIDE DEF r
  <2>3. s = Append(r, s[n + 1])
    BY <2>1, <2>2
  <2>4. r \in A
    BY <1>2, <2>2
  <2> QED BY <2>1, <2>2, <2>3, <2>4
<1> HIDE DEF B
<1>3. Nat \subseteq B
  BY <1>1, <1>2, NatSetInduction
<1>4. ASSUME NEW s \in Seq(S) PROVE s \in A
  <2>1. Len(s) \in B
    BY <1>3
  <2> QED BY <2>1 DEF B
<1> QED BY <1>4

Total(n, vs) == AddAll(ZeroVec(n), vs, FALSE)

LEMMA TotalAppend ==
  ASSUME NEW n \in Nat
  PROVE  /\ Total(n, <<>>) = ZeroVec(n)
         /\ \A vs \in Seq(Vec(n)) :
              /\ Total(n, vs) \in Vec(n)
              /\ \A v \in Vec(n) : Total(n, Append(vs, v)) = VPlus(Total(n, vs), v)
<1>1. ZeroVec(n) \in Vec(n)
  BY FieldAssumption DEF ZeroVec, Vec, Field
<1> QED BY <1>1, AddAllAppend DEF Total

LEMMA TotalOfAppend ==
  ASSUME NEW n \in Nat, NEW V, V = Vec(n), NEW vs \in Seq(V), NEW v \in V
  PROVE  Total(n, vs) \in V /\ Total(n, Append(vs, v)) = VPlus(Total(n, vs), v)
BY TotalAppend

\* On one machine or another, what is added to dst is the sum.
LEMMA AddAllIsTotal ==
  ASSUME NEW n \in Nat, NEW dst \in Vec(n), NEW vs \in Seq(Vec(n)), NEW avx2 \in BOOLEAN
  PROVE  AddAll(dst, vs, avx2) = VPlus(dst, Total(n, vs))
<1> DEFINE A == {us \in Seq(Vec(n)) : AddAll(dst, us, avx2) = VPlus(dst, Total(n, us))}
           V == Vec(n)
<1>1. <<>> \in A
  <2>1. AddAll(dst, <<>>, avx2) = dst /\ Total(n, <<>>) = ZeroVec(n)
    BY AddAllAppend, TotalAppend
  <2>2. VPlus(dst, ZeroVec(n)) = dst
    BY VecLaws
  <2> QED BY <2>1, <2>2
<1>2. ASSUME NEW us \in Seq(V), NEW v \in V, us \in A
      PROVE  Append(us, v) \in A
  <2>1. /\ AddAll(dst, Append(us, v), avx2) = VPlus(AddAll(dst, us, avx2), v)
        /\ Total(n, Append(us, v)) = VPlus(Total(n, us), v) /\ Total(n, us) \in V
    BY AddAllAppend, TotalAppend
  <2>2. VPlus(VPlus(dst, Total(n, us)), v) = VPlus(dst, VPlus(Total(n, us), v))
    BY <2>1, VecLaws
  <2> QED BY <1>2, <2>1, <2>2
<1> HIDE DEF A, V
<1>3. Seq(V) \subseteq A
  BY <1>1, <1>2, SeqSetInduction
<1> QED BY <1>3 DEF A, V

LEMMA TotalConcat ==
  ASSUME NEW n \in Nat, NEW us \in Seq(Vec(n)), NEW vs \in Seq(Vec(n))
  PROVE  Total(n, us \o vs) = VPlus(Total(n, us), Total(n, vs))
<1> DEFINE V == Vec(n)
           A == {ws \in Seq(V) : Total(n, us \o ws) = VPlus(Total(n, us), Total(n, ws))}
<1>1. <<>> \in A
  <2>1. us \o <<>> = us /\ Total(n, us) \in Vec(n) /\ Total(n, <<>>) = ZeroVec(n)
    BY TotalAppend
  <2>2. VPlus(Total(n, us), ZeroVec(n)) = Total(n, us)
    BY <2>1, VecLaws
  <2> QED BY <2>1, <2>2
<1>2. ASSUME NEW ws \in Seq(V), NEW v \in V, ws \in A
      PROVE  Append(ws, v) \in A
  <2>1. us \o Append(ws, v) = Append(us \o ws, v) /\ us \o ws \in Seq(V)
    OBVIOUS
  <2>2. /\ Total(n, Append(us \o ws, v)) = VPlus(Total(n, us \o ws), v)
        /\ Total(n, Append(ws, v)) = VPlus(Total(n, ws), v)
        /\ Total(n, us) \in V /\ Total(n, ws) \in V
    BY <2>1, TotalAppend
  <2>3. VPlus(VPlus(Total(n, us), Total(n, ws)), v) = VPlus(Total(n, us), VPlus(Total(n, ws), v))
    BY <2>2, VecLaws
  <2>4. Append(ws, v) \in Seq(V)
    OBVIOUS
  <2>5. Total(n, us \o ws) = VPlus(Total(n, us), Total(n, ws))
    BY <1>2
  <2>6. Total(n, us \o Append(ws, v)) = VPlus(Total(n, us), Total(n, Append(ws, v)))
    BY <2>1, <2>2, <2>3, <2>5
  <2> QED BY <2>4, <2>6
<1>u. us \in Seq(V) /\ vs \in Seq(V)
  OBVIOUS
<1> HIDE DEF A, V
<1>3. Seq(V) \subseteq A
  BY <1>1, <1>2, SeqSetInduction
<1> QED BY <1>3, <1>u DEF A

\* What has been added one after the other can be taken off so.
LEMMA SubAllUndoes ==
  ASSUME NEW n \in Nat, NEW dst \in Vec(n), NEW vs \in Seq(Vec(n)), NEW avx2 \in BOOLEAN
  PROVE  SubAll(VPlus(dst, Total(n, vs)), vs, avx2) = dst
<1> DEFINE V == Vec(n)
           A == {us \in Seq(V) : \A d \in V : SubAll(VPlus(d, Total(n, us)), us, avx2) = d}
<1>1. <<>> \in A
  <2> SUFFICES ASSUME NEW d \in V PROVE SubAll(VPlus(d, Total(n, <<>>)), <<>>, avx2) = d
    OBVIOUS
  <2>1. VPlus(d, Total(n, <<>>)) = d
    BY TotalAppend, VecLaws
  <2> QED BY <2>1, SubAllAppend
<1>2. ASSUME NEW us \in Seq(V), NEW v \in V, us \in A
      PROVE  Append(us, v) \in A
  <2> SUFFICES ASSUME NEW d \in V
               PROVE  SubAll(VPlus(d, Total(n, Append(us, v))), Append(us, v), avx2) = d
    OBVIOUS
  <2>1. Total(n, Append(us, v)) = VPlus(Total(n, us), v) /\ Total(n, us) \in V
    BY TotalAppend
  <2>2. VPlus(d, VPlus(Total(n, us), v)) = VPlus(VPlus(d, v), Total(n, us))
    <3>1. VPlus(Total(n, us), v) = VPlus(v, Total(n, us))
      BY <2>1, VecLaws
    <3>2. VPlus(VPlus(d, v), Total(n, us)) = VPlus(d, VPlus(v, Total(n, us)))
      BY <2>1, VecLaws
    <3> QED BY <3>1, <3>2
  <2>3. VPlus(d, v) \in V /\ VMinus(VPlus(d, v), v) = d
    BY VecLaws
  <2> DEFINE x == VPlus(VPlus(d, v), Total(n, us))
  <2>4. x \in V
    BY <2>1, <2>3, VecLaws
  <2>5. SubAll(x, Append(us, v), avx2) = VMinus(SubAll(x, us, avx2), v)
    <3> HIDE DEF x
    <3> QED BY <2>4, SubAllAppend
  <2>6. SubAll(x, us, avx2) = VPlus(d, v)
    BY <1>2, <2>3
  <2> QED BY <2>1, <2>2, <2>3, <2>5, <2>6
<1>d. dst \in V /\ vs \in Seq(V)
  OBVIOUS
<1> HIDE DEF A, V
<1>3. Seq(V) \subseteq A
  BY <1>1, <1>2, SeqSetInduction
<1> QED BY <1>3, <1>d DEF A

\* The sum of sums is the sum of both sums.
LEMMA TotalOfSums ==
  ASSUME NEW n \in Nat, NEW k \in Nat,
         NEW us \in [1 .. k -> Vec(n)], NEW vs \in [1 .. k -> Vec(n)]
  PROVE  Total(n, [i \in 1 .. k |-> VPlus(us[i], vs[i])]) = VPlus(Total(n, us), Total(n, vs))
<1> DEFINE V == Vec(n)
           To(f, m) == [i \in 1 .. m |-> f[i]]
           Both(m) == [i \in 1 .. m |-> VPlus(us[i], vs[i])]
           A == {m \in Nat : m <= k =>
                   Total(n, Both(m)) = VPlus(Total(n, To(us, m)), Total(n, To(vs, m)))}
<1>1. 0 \in A
  <2>1. Both(0) = <<>> /\ To(us, 0) = <<>> /\ To(vs, 0) = <<>>
    OBVIOUS
  <2>2. VPlus(ZeroVec(n), ZeroVec(n)) = ZeroVec(n)
    <3>1. ZeroVec(n) \in Vec(n)
      BY FieldAssumption DEF ZeroVec, Vec, Field
    <3> QED BY <3>1, VecLaws
  <2> QED BY <2>1, <2>2, TotalAppend
<1>a. ASSUME NEW m \in Nat, m + 1 <= k, NEW f \in [1 .. k -> V]
      PROVE  /\ To(f, m) \in Seq(V) /\ f[m + 1] \in V
             /\ To(f, m + 1) = Append(To(f, m), f[m + 1])
  <2>1. \A i \in 1 .. m + 1 : f[i] \in V
    BY <1>a
  <2> HIDE DEF V
  <2>2. To(f, m) \in Seq(V) /\ Len(To(f, m)) = m /\ f[m + 1] \in V
    BY <2>1
  <2>3. To(f, m + 1) \in Seq(V) /\ Len(To(f, m + 1)) = m + 1
    BY <2>1
  <2> QED BY <2>2, <2>3
<1>2. ASSUME NEW m \in Nat, m \in A PROVE m + 1 \in A
  <2> SUFFICES ASSUME m + 1 <= k
               PROVE  Total(n, Both(m + 1))
                        = VPlus(Total(n, To(us, m + 1)), Total(n, To(vs, m + 1)))
    OBVIOUS
  <2> DEFINE u == Total(n, To(us, m))
             v == Total(n, To(vs, m))
             b == VPlus(us[m + 1], vs[m + 1])
  <2>a. /\ To(us, m) \in Seq(V) /\ us[m + 1] \in V /\ To(us, m + 1) = Append(To(us, m), us[m + 1])
        /\ To(vs, m) \in Seq(V) /\ vs[m + 1] \in V /\ To(vs, m + 1) = Append(To(vs, m), vs[m + 1])
    BY <1>a
  <2>1. /\ us[m + 1] \in V /\ u \in V /\ Total(n, To(us, m + 1)) = VPlus(u, us[m + 1])
        /\ vs[m + 1] \in V /\ v \in V /\ Total(n, To(vs, m + 1)) = VPlus(v, vs[m + 1])
    <3> HIDE DEF To
    <3>1. \A s \in Seq(V), x \in V :
            Total(n, s) \in V /\ Total(n, Append(s, x)) = VPlus(Total(n, s), x)
      BY TotalOfAppend
    <3> HIDE DEF V
    <3> QED BY <2>a, <3>1
  <2>2. /\ \A i \in 1 .. k : VPlus(us[i], vs[i]) \in V
        /\ b \in V
    BY <2>1, VecLaws
  <2>3. /\ To(Both(k), m) = Both(m) /\ To(Both(k), m + 1) = Both(m + 1)
        /\ Both(k) \in [1 .. k -> V] /\ Both(k)[m + 1] = b
    BY <2>2
  <2>4. Total(n, Both(m + 1)) = VPlus(Total(n, Both(m)), b)
    <3> HIDE DEF Both, b
    <3>1. Both(m) \in Seq(V) /\ Both(m + 1) = Append(Both(m), b)
      BY <1>a, <2>3
    <3> HIDE DEF To
    <3> QED BY <2>2, <3>1, TotalAppend
  <2>5. Total(n, Both(m)) = VPlus(u, v)
    BY <1>2
  <2>6. VPlus(VPlus(u, v), b) = VPlus(VPlus(u, us[m + 1]), VPlus(v, vs[m + 1]))
    <3> HIDE DEF u, v
    <3> QED BY <2>1, VecInterchange
  <2> QED BY <2>1, <2>4, <2>5, <2>6
<1> HIDE DEF A
<1>3. Nat \subseteq A
  BY <1>1, <1>2, NatSetInduction
<1>4. To(us, k) = us /\ To(vs, k) = vs
  OBVIOUS
<1> QED BY <1>3, <1>4 DEF A

\* Divided upwards: as many times b as are needed for a.
LEMMA DivCeilBounds ==
  ASSUME NEW a \in Nat, NEW b \in Nat \ {0}
  PROVE  /\ DivCeil(a, b) \in Nat
         /\ DivCeil(a, b) * b >= a
         /\ \A k \in Nat : k < DivCeil(a, b) => k * b < a
         /\ a > 0 => DivCeil(a, b) > 0
<1> DEFINE m == a + b - 1
           q == m \div b
           r == m % b
<1>1. m \in Nat /\ b \in Nat /\ b > 0
  OBVIOUS
<1>m. m = a + b - 1
  OBVIOUS
<1> HIDE DEF m
<1>2. m = b * q + r /\ r \in 0 .. b - 1 /\ q \in Nat
  BY <1>1
<1>3. DivCeil(a, b) = q
  BY DEF DivCeil, m
<1> HIDE DEF q, r
<1>4. q * b \in Nat /\ q * b = b * q
  BY <1>1, <1>2
<1>5. q * b >= a
  BY <1>1, <1>2, <1>4, <1>m
<1>6. ASSUME NEW k \in Nat, k < q PROVE k * b < a
  <2>1. PICK d \in Nat : q = k + 1 + d
    <3>1. q - (k + 1) \in Nat /\ q = k + 1 + (q - (k + 1))
      BY <1>2, <1>6
    <3> QED BY <3>1
  <2>2. q * b = k * b + b + d * b
    BY <1>1, <2>1
  <2>3. k * b \in Nat /\ d * b \in Nat
    BY <1>1, <2>1
  <2>4. r \in Nat
    BY <1>1, <1>2
  <2> QED BY <1>1, <1>2, <1>4, <1>m, <2>2, <2>3, <2>4
<1>7. a > 0 => q > 0
  <2>1. q = 0 => q * b = 0
    BY <1>1
  <2> QED BY <1>2, <1>5, <2>1
<1> QED BY <1>2, <1>3, <1>5, <1>6, <1>7

LEMMA Joined ==
  ASSUME NEW S, NEW a \in Seq(S), NEW b \in Seq(S)
  PROVE  /\ a \o b \in Seq(S) /\ Len(a \o b) = Len(a) + Len(b)
         /\ \A x \in S : Append(a \o b, x) = a \o Append(b, x)
  OBVIOUS

\* Parts of a sequence.
LEMMA SubSeqFacts ==
  ASSUME NEW S, NEW s \in Seq(S), NEW i \in Nat, NEW j \in Nat, i <= j, j <= Len(s)
  PROVE  /\ SubSeq(s, 1, i) \in Seq(S) /\ Len(SubSeq(s, 1, i)) = i
         /\ SubSeq(s, i + 1, j) \in Seq(S) /\ Len(SubSeq(s, i + 1, j)) = j - i
         /\ SubSeq(s, 1, i) \o SubSeq(s, i + 1, j) = SubSeq(s, 1, j)
         /\ SubSeq(s, 1, Len(s)) = s /\ SubSeq(s, 1, 0) = <<>>
<1> DEFINE a == SubSeq(s, 1, i)
           b == SubSeq(s, i + 1, j)
           c == SubSeq(s, 1, j)
<1>0. Len(s) \in Nat /\ \A k \in 1 .. Len(s) : s[k] \in S
  OBVIOUS
<1>1. a \in Seq(S) /\ Len(a) = i /\ \A k \in 1 .. i : a[k] = s[k]
  OBVIOUS
<1>2. b \in Seq(S) /\ Len(b) = j - i /\ \A k \in 1 .. j - i : b[k] = s[i + k]
  OBVIOUS
<1>3. c \in Seq(S) /\ Len(c) = j /\ \A k \in 1 .. j : c[k] = s[k]
  OBVIOUS
<1>4. SubSeq(s, 1, Len(s)) = s /\ SubSeq(s, 1, 0) = <<>>
  OBVIOUS
<1> HIDE DEF a, b, c
<1>5. a \o b \in Seq(S) /\ Len(a \o b) = j
  <2>1. a \o b \in Seq(S) /\ Len(a \o b) = Len(a) + Len(b)
    BY <1>1, <1>2, Joined
  <2>2. i + (j - i) = j
    OBVIOUS
  <2> QED BY <1>1, <1>2, <2>1, <2>2
<1>6. ASSUME NEW k \in 1 .. j PROVE (a \o b)[k] = c[k]
  <2>1. CASE k <= i
    <3>1. (a \o b)[k] = a[k]
      BY <1>1, <1>2, <2>1
    <3> QED BY <1>1, <1>3, <2>1, <3>1
  <2>2. CASE k > i
    <3>1. k - i \in 1 .. j - i /\ i + (k - i) = k
      BY <2>2
    <3>2. (a \o b)[k] = b[k - i]
      BY <1>1, <1>2, <2>2, <3>1
    <3> QED BY <1>2, <1>3, <3>1, <3>2
  <2>3. k <= i \/ k > i
    OBVIOUS
  <2> QED BY <2>1, <2>2, <2>3, Zenon
<1>7. a \o b = c
  BY <1>3, <1>5, <1>6
<1> QED BY <1>1, <1>2, <1>4, <1>7 DEF a, b, c

\* The sum of the sums of the chunks is the sum of all.
LEMMA TotalOfChunks ==
  ASSUME NEW n \in Nat, NEW vs \in Seq(Vec(n)), NEW size \in Nat \ {0}
  PROVE  LET chunks == ParChunks(vs, size)
         IN  /\ \A k \in DOMAIN chunks : chunks[k] \in Seq(Vec(n))
             /\ DOMAIN chunks = 1 .. DivCeil(Len(vs), size) /\ DivCeil(Len(vs), size) \in Nat
             /\ Total(n, [k \in DOMAIN chunks |-> Total(n, chunks[k])]) = Total(n, vs)
<1> DEFINE V == Vec(n)
           len == Len(vs)
           q == DivCeil(len, size)
           end(k) == IF k * size < len THEN k * size ELSE len
           chunk(k) == SubSeq(vs, (k - 1) * size + 1, end(k))
           Sums(k) == [j \in 1 .. k |-> Total(n, chunk(j))]
           A == {k \in Nat : k <= q => Total(n, Sums(k)) = Total(n, SubSeq(vs, 1, end(k)))}
<1>1. len \in Nat /\ vs \in Seq(V)
  OBVIOUS
<1>2. q \in Nat /\ q * size >= len /\ \A k \in Nat : k < q => k * size < len
  BY <1>1, DivCeilBounds
<1>3. ASSUME NEW k \in Nat PROVE k * size \in Nat /\ end(k) \in Nat /\ end(k) <= len
  BY <1>1
<1>4. ParChunks(vs, size) = [k \in 1 .. q |-> chunk(k)]
  BY DEF ParChunks
<1>5. ASSUME NEW k \in Nat, k < q
      PROVE  /\ chunk(k + 1) \in Seq(V)
             /\ SubSeq(vs, 1, end(k)) \in Seq(V)
             /\ SubSeq(vs, 1, end(k)) \o chunk(k + 1) = SubSeq(vs, 1, end(k + 1))
  <2>1. end(k) = k * size
    BY <1>2, <1>5
  <2>2. (k + 1) * size = k * size + size /\ (k + 1) * size \in Nat /\ k * size \in Nat
    OBVIOUS
  <2>3. end(k) <= end(k + 1)
    BY <1>1, <1>2, <1>5, <2>2
  <2>4. end(k) \in Nat /\ end(k + 1) \in Nat /\ end(k + 1) <= len
    BY <1>3
  <2>5. (k + 1) - 1 = k
    OBVIOUS
  <2>6. chunk(k + 1) = SubSeq(vs, end(k) + 1, end(k + 1))
    BY <2>1, <2>5
  <2> HIDE DEF V
  <2> DEFINE i == end(k)
             j == end(k + 1)
  <2>7. i \in Nat /\ j \in Nat /\ i <= j /\ j <= Len(vs)
    BY <2>3, <2>4
  <2> HIDE DEF i, j
  <2>8. /\ SubSeq(vs, 1, i) \in Seq(V) /\ SubSeq(vs, i + 1, j) \in Seq(V)
        /\ SubSeq(vs, 1, i) \o SubSeq(vs, i + 1, j) = SubSeq(vs, 1, j)
    BY <1>1, <2>7, SubSeqFacts
  <2> HIDE DEF end, chunk
  <2> QED BY <2>6, <2>8 DEF i, j
<1>6. ASSUME NEW k \in 1 .. q PROVE chunk(k) \in Seq(V) /\ Total(n, chunk(k)) \in V
  <2>1. k - 1 \in Nat /\ k - 1 < q /\ (k - 1) + 1 = k
    BY <1>2
  <2> HIDE DEF chunk
  <2>2. chunk(k) \in Seq(V)
    BY <1>5, <2>1
  <2> QED BY <2>2, TotalAppend
<1> HIDE DEF chunk, q
<1>7. 0 \in A
  <2>1. end(0) = 0
    BY <1>1
  <2>2. Sums(0) = <<>> /\ SubSeq(vs, 1, 0) = <<>>
    BY <1>1, SubSeqFacts
  <2> QED BY <2>1, <2>2
<1>8. ASSUME NEW k \in Nat, k \in A PROVE k + 1 \in A
  <2> SUFFICES ASSUME k + 1 <= q
               PROVE  Total(n, Sums(k + 1)) = Total(n, SubSeq(vs, 1, end(k + 1)))
    OBVIOUS
  <2>1. k < q /\ k <= q /\ k + 1 \in 1 .. q
    BY <1>2
  <2>2. \A j \in 1 .. k + 1 : Total(n, chunk(j)) \in V
    BY <1>2, <1>6, <2>1
  <2>3. Sums(k) \in Seq(V) /\ Sums(k + 1) = Append(Sums(k), Total(n, chunk(k + 1)))
    <3> HIDE DEF V
    <3>1. Sums(k) \in Seq(V) /\ Len(Sums(k)) = k
      BY <2>2
    <3>2. Sums(k + 1) \in Seq(V) /\ Len(Sums(k + 1)) = k + 1
      BY <2>2
    <3> QED BY <2>2, <3>1, <3>2
  <2>4. Total(n, Sums(k + 1)) = VPlus(Total(n, Sums(k)), Total(n, chunk(k + 1)))
    <3>1. Total(n, chunk(k + 1)) \in V
      BY <2>2
    <3> HIDE DEF Sums
    <3> QED BY <2>3, <3>1, TotalAppend
  <2>5. Total(n, Sums(k)) = Total(n, SubSeq(vs, 1, end(k)))
    BY <1>8, <2>1
  <2>6. Total(n, SubSeq(vs, 1, end(k)) \o chunk(k + 1))
          = VPlus(Total(n, SubSeq(vs, 1, end(k))), Total(n, chunk(k + 1)))
    <3> HIDE DEF end
    <3> QED BY <1>5, <2>1, TotalConcat
  <2> HIDE DEF end, Sums
  <2> QED BY <1>5, <2>1, <2>4, <2>5, <2>6
<1> HIDE DEF A
<1>9. Nat \subseteq A
  BY <1>7, <1>8, NatSetInduction
<1>10. Total(n, Sums(q)) = Total(n, SubSeq(vs, 1, end(q)))
  BY <1>2, <1>9 DEF A
<1>11. end(q) = len /\ SubSeq(vs, 1, len) = vs
  <2>1. end(q) = len
    BY <1>1, <1>2
  <2> QED BY <1>1, <2>1, SubSeqFacts
<1>12. [k \in DOMAIN ParChunks(vs, size) |-> Total(n, ParChunks(vs, size)[k])] = Sums(q)
  BY <1>4
<1> QED BY <1>2, <1>4, <1>6, <1>10, <1>11, <1>12 DEF q

\* Summed up in chunks or not, by any number of threads.
LEMMA AggregateIsTotal ==
  ASSUME NEW n \in Nat, NEW dst \in Vec(n), NEW vs \in Seq(Vec(n)),
         NEW n_threads \in Nat \ {0}, NEW avx2 \in BOOLEAN
  PROVE  AggregateInto(dst, vs, n_threads, avx2) = VPlus(dst, Total(n, vs))
<1> DEFINE size == DivCeil(Len(vs), n_threads)
           chunks == ParChunks(vs, size)
           zero == [i \in DOMAIN dst |-> 0]
           Parts == [k \in DOMAIN chunks |-> AddAll(zero, chunks[k], avx2)]
           Sums == [k \in DOMAIN chunks |-> Total(n, chunks[k])]
<1>1. CASE ~InParallel(vs, n_threads)
  BY <1>1, AddAllIsTotal DEF AggregateInto
<1>2. CASE InParallel(vs, n_threads)
  <2>1. AggregateInto(dst, vs, n_threads, avx2) = AddAll(dst, Parts, avx2)
    BY <1>2 DEF AggregateInto, Chunked
  <2>2. Len(vs) \in Nat /\ Len(vs) > 0
    BY <1>2 DEF InParallel
  <2>3. size \in Nat \ {0}
    BY <2>2, DivCeilBounds, SMTT(30)
  <2>4. zero = ZeroVec(n) /\ ZeroVec(n) \in Vec(n)
    BY FieldAssumption DEF ZeroVec, Vec, Field
  <2> HIDE DEF size, zero
  <2>5. /\ \A k \in DOMAIN chunks : chunks[k] \in Seq(Vec(n))
        /\ DOMAIN chunks = 1 .. DivCeil(Len(vs), size) /\ DivCeil(Len(vs), size) \in Nat
        /\ Total(n, Sums) = Total(n, vs)
    BY <2>3, TotalOfChunks
  <2> HIDE DEF chunks
  <2>6. \A k \in DOMAIN chunks :
          Total(n, chunks[k]) \in Vec(n) /\ AddAll(zero, chunks[k], avx2) = Total(n, chunks[k])
    <3> TAKE k \in DOMAIN chunks
    <3>1. chunks[k] \in Seq(Vec(n)) /\ Total(n, chunks[k]) \in Vec(n)
      BY <2>5, TotalAppend
    <3>2. AddAll(ZeroVec(n), chunks[k], avx2) = VPlus(ZeroVec(n), Total(n, chunks[k]))
      BY <2>4, <3>1, AddAllIsTotal
    <3>3. VPlus(ZeroVec(n), Total(n, chunks[k])) = Total(n, chunks[k])
      BY <3>1, VecLaws
    <3> QED BY <2>4, <3>1, <3>2, <3>3
  <2>7. Parts = Sums
    BY <2>6
  <2>8. Sums \in Seq(Vec(n))
    <3> DEFINE V == Vec(n)
    <3>1. \A k \in DOMAIN chunks : Total(n, chunks[k]) \in V
      BY <2>6
    <3> HIDE DEF V
    <3>2. Sums \in Seq(V)
      BY <2>5, <3>1
    <3> QED BY <3>2 DEF V
  <2> HIDE DEF Sums, Parts
  <2> QED BY <2>1, <2>5, <2>7, <2>8, AddAllIsTotal
<1> QED BY <1>1, <1>2

-----------------------------------------------------------------------------
(***************************************************************************)
(* Pads.                                                                   *)
(***************************************************************************)
\* The steps of Candidates over a sequence of words.
AcceptSteps(vs) == [i \in 1 .. Len(vs) |-> [a \in Seq(Field) |-> Accept(a, vs[i])]]

LEMMA AcceptTyped ==
  ASSUME NEW out \in Seq(Field), NEW word \in Words
  PROVE  Accept(out, word) \in Seq(Field)
<1>1. word % P \in Field
  BY FieldAssumption DEF Field, Words, Word
<1> QED BY <1>1 DEF Accept

LEMMA CandidatesIsFold ==
  ASSUME NEW vs \in Seq(Words)
  PROVE  \E f : /\ IsFold(f, Len(vs), Seq(Field), <<>>, AcceptSteps(vs))
               /\ Candidates(vs) = f[Len(vs)]
<1> DEFINE base == <<>>
           m == Len(vs)
           T == Seq(Field)
           g == AcceptSteps(vs)
           body(it) == [x \in SUBSET (1 .. m) |->
                          IF x = {} THEN base ELSE Accept(it[x \ {Max(x)}], vs[Max(x)])]
           iter == CHOOSE it : it = body(it)
<1>0. m \in Nat /\ DOMAIN vs = 1 .. m /\ \A i \in 1 .. m : vs[i] \in Words
  OBVIOUS
<1>1. \A x \in SUBSET (1 .. m) : x # {} => Max(x) \in x /\ \A y \in x : Max(x) >= y
  BY <1>0, MaxOfPositions
<1>2. g \in [1 .. m -> [T -> T]]
  <2>1. \A i \in 1 .. m : \A a \in T : Accept(a, vs[i]) \in T
    BY <1>0, AcceptTyped
  <2> QED BY <2>1 DEF AcceptSteps
<1>3. \A i \in 1 .. m : \A a \in T : g[i][a] = Accept(a, vs[i])
  BY DEF AcceptSteps
<1> HIDE DEF T, g, base
<1>4. \E it : it = body(it)
  <2> DEFINE greatest == [x \in SUBSET (1 .. m) |-> Max(x)]
  <2>1. IsFiniteSet(1 .. m)
    BY <1>0, FS_Interval
  <2>2. \A x \in SUBSET (1 .. m) : x # {} => greatest[x] \in x
    BY <1>1
  <2>d. base \in T
    BY DEF T, base
  <2>g. \A x \in SUBSET (1 .. m) : greatest[x] = Max(x)
    OBVIOUS
  <2> HIDE DEF m, greatest
  <2>3. PICK it : IsSubsetRecursion(it, 1 .. m, T, base, g, greatest)
    BY <2>1, <2>2, <2>d, <1>2, SubsetRecursion
  <2>4. it = [x \in SUBSET (1 .. m) |-> it[x]]
    BY <2>3 DEF IsSubsetRecursion
  <2>5. \A x \in SUBSET (1 .. m) :
          it[x] = IF x = {} THEN base ELSE Accept(it[x \ {Max(x)}], vs[Max(x)])
    <3> TAKE x \in SUBSET (1 .. m)
    <3>1. it[x] = IF x = {} THEN base ELSE g[greatest[x]][it[x \ {greatest[x]}]]
      BY <2>3 DEF IsSubsetRecursion
    <3>2. CASE x = {}
      BY <3>1, <3>2
    <3>3. CASE x # {}
      <4>1. greatest[x] = Max(x) /\ Max(x) \in 1 .. m
        BY <1>1, <2>g, <3>3
      <4>2. it[x \ {Max(x)}] \in T
        BY <2>3 DEF IsSubsetRecursion
      <4> QED BY <3>1, <3>3, <4>1, <4>2, <1>3
    <3> QED BY <3>2, <3>3
  <2> QED BY <2>4, <2>5
<1>5. iter = body(iter)
  BY <1>4
<1>6. Candidates(vs) = iter[1 .. m]
  <2>1. iter = CHOOSE it : it = [x \in SUBSET DOMAIN vs |-> IF x = {} THEN base
                                   ELSE Accept(it[x \ {Max(x)}], vs[Max(x)])]
    BY <1>0
  <2> HIDE DEF iter
  <2>2. Candidates(vs) = iter[DOMAIN vs]
    BY <2>1 DEF base, Candidates, FoldLeft, MapThenFoldSet
  <2> QED BY <1>0, <2>2
<1>7. \A x \in SUBSET (1 .. m) :
        iter[x] = IF x = {} THEN base ELSE Accept(iter[x \ {Max(x)}], vs[Max(x)])
  <2> HIDE DEF iter
  <2> QED BY <1>5
<1> HIDE DEF iter, body
<1>8. iter[{}] = base
  BY <1>7
<1>9. ASSUME NEW k \in 0 .. m - 1, iter[1 .. k] \in T
      PROVE  iter[1 .. k + 1] = g[k + 1][iter[1 .. k]]
  <2>1. /\ 1 .. k + 1 \in SUBSET (1 .. m) /\ 1 .. k + 1 # {} /\ k + 1 \in 1 .. m
        /\ Max(1 .. k + 1) = k + 1 /\ (1 .. k + 1) \ {k + 1} = 1 .. k
    BY <1>0, MaxOfInterval
  <2>2. iter[1 .. k + 1] = Accept(iter[1 .. k], vs[k + 1])
    BY <2>1, <1>7
  <2> QED BY <2>1, <2>2, <1>9, <1>3
<1>10. base \in T
  BY DEF T, base
<1> HIDE DEF m
<1>11. \E f : IsFold(f, m, T, base, g) /\ iter[1 .. m] = f[m]
  <2>1. \A k \in 0 .. m - 1 : iter[1 .. k] \in T => iter[1 .. k + 1] = g[k + 1][iter[1 .. k]]
    BY <1>9
  <2>2. m \in Nat
    BY <1>0
  <2>3. RunsOn(iter, m, T, g)
    BY <2>1 DEF RunsOn
  <2> QED BY <1>2, <1>8, <1>10, <2>2, <2>3, FoldThatRunsOn
<1> QED BY <1>6, <1>11 DEF m, T, g, base

LEMMA CandidatesAppend ==
  /\ Candidates(<<>>) = <<>>
  /\ \A vs \in Seq(Words) :
       /\ Candidates(vs) \in Seq(Field)
       /\ \A v \in Words : Candidates(Append(vs, v)) = Accept(Candidates(vs), v)
<1>1. Candidates(<<>>) = <<>>
  <2>1. <<>> \in Seq(Words) /\ Len(<<>>) = 0
    OBVIOUS
  <2>2. PICK f : /\ IsFold(f, Len(<<>>), Seq(Field), <<>>, AcceptSteps(<<>>))
                 /\ Candidates(<<>>) = f[Len(<<>>)]
    BY <2>1, CandidatesIsFold
  <2> QED BY <2>1, <2>2 DEF IsFold
<1>2. ASSUME NEW vs \in Seq(Words)
      PROVE  Candidates(vs) \in Seq(Field)
  <2>1. PICK f : /\ IsFold(f, Len(vs), Seq(Field), <<>>, AcceptSteps(vs))
                 /\ Candidates(vs) = f[Len(vs)]
    BY CandidatesIsFold
  <2> QED BY <2>1 DEF IsFold
<1>3. ASSUME NEW vs \in Seq(Words), NEW v \in Words
      PROVE  Candidates(Append(vs, v)) = Accept(Candidates(vs), v)
  <2> DEFINE m == Len(vs)
             us == Append(vs, v)
             T == Seq(Field)
             g == AcceptSteps(vs)
             h == AcceptSteps(us)
  <2>1. /\ us \in Seq(Words) /\ Len(us) = m + 1 /\ m \in Nat /\ us[m + 1] = v
        /\ \A i \in 1 .. m : us[i] = vs[i]
    OBVIOUS
  <2> HIDE DEF us
  <2>2. PICK f : IsFold(f, m, T, <<>>, g) /\ Candidates(vs) = f[m]
    BY CandidatesIsFold
  <2>3. PICK e : IsFold(e, m + 1, T, <<>>, h) /\ Candidates(us) = e[m + 1]
    BY <2>1, CandidatesIsFold
  <2>4. \A i \in 1 .. m : g[i] = h[i]
    BY <2>1 DEF AcceptSteps
  <2>5. \A a \in T : h[m + 1][a] = Accept(a, v)
    BY <2>1 DEF AcceptSteps
  <2> HIDE DEF T, g, h
  <2>6. f[m] = e[m]
    <3>1. m <= m + 1 /\ m + 1 \in Nat /\ m \in 0 .. m
      BY <2>1
    <3> HIDE DEF m
    <3> QED BY <2>1, <2>2, <2>3, <2>4, <3>1, FoldPrefix
  <2>7. e[m] \in T /\ e[m + 1] = h[m + 1][e[m]]
    BY <2>1, <2>3 DEF IsFold
  <2>8. e[m + 1] = Accept(e[m], v)
    BY <2>5, <2>7
  <2> QED BY <2>2, <2>3, <2>6, <2>8 DEF us
<1> QED BY <1>1, <1>2, <1>3

\* What is appended to b is appended to a and b joined.
Joins(a, b, x) == Append(a \o b, x) = a \o Append(b, x)

LEMMA AppendJoined ==
  ASSUME NEW S, NEW a \in Seq(S), NEW b \in Seq(S), NEW x \in S
  PROVE  Joins(a, b, x)
  BY DEF Joins

LEMMA AcceptJoined ==
  ASSUME NEW a \in Seq(Field), NEW b \in Seq(Field), NEW w \in Words
  PROVE  Accept(a \o b, w) = a \o Accept(b, w)
<1> DEFINE F == Field
           x == w % P
<1>1. x \in F
  BY FieldAssumption DEF Field, Words, Word
<1>2. a \in Seq(F) /\ b \in Seq(F)
  OBVIOUS
<1> HIDE DEF F, x
<1>3. Joins(a, b, x)
  BY <1>1, <1>2, AppendJoined
<1>4. Append(a \o b, x) = a \o Append(b, x)
  BY <1>3 DEF Joins
<1> QED BY <1>4, Zenon DEF Accept, x

\* The candidates of a keystream are those of its parts, one after the other.
LEMMA CandidatesConcat ==
  ASSUME NEW s \in Seq(Words), NEW t \in Seq(Words)
  PROVE  Candidates(s \o t) = Candidates(s) \o Candidates(t)
<1> DEFINE A == {u \in Seq(Words) : Candidates(s \o u) = Candidates(s) \o Candidates(u)}
<1>1. <<>> \in A
  <2>1. s \o <<>> = s /\ Candidates(s) \in Seq(Field) /\ Candidates(<<>>) = <<>>
    BY CandidatesAppend
  <2>2. Candidates(s) \o <<>> = Candidates(s)
    BY <2>1
  <2> QED BY <2>1, <2>2
<1>2. ASSUME NEW u \in Seq(Words), NEW w \in Words, u \in A
      PROVE  Append(u, w) \in A
  <2>1. s \o Append(u, w) = Append(s \o u, w) /\ s \o u \in Seq(Words) /\ Append(u, w) \in Seq(Words)
    OBVIOUS
  <2>2. /\ Candidates(Append(s \o u, w)) = Accept(Candidates(s \o u), w)
        /\ Candidates(Append(u, w)) = Accept(Candidates(u), w)
        /\ Candidates(s) \in Seq(Field) /\ Candidates(u) \in Seq(Field)
    BY <2>1, CandidatesAppend
  <2>3. \A a, b \in Seq(Field) : Accept(a \o b, w) = a \o Accept(b, w)
    BY AcceptJoined
  <2>4. Candidates(s \o u) = Candidates(s) \o Candidates(u)
    BY <1>2
  <2>5. Candidates(s \o Append(u, w)) = Candidates(s) \o Candidates(Append(u, w))
    BY <2>1, <2>2, <2>3, <2>4
  <2> QED BY <2>1, <2>5
<1> HIDE DEF A
<1>3. Seq(Words) \subseteq A
  BY <1>1, <1>2, SeqSetInduction
<1> QED BY <1>3 DEF A

LEMMA CandidatesOfParts ==
  ASSUME NEW s \in Seq(Words), NEW i \in Nat, NEW j \in Nat, i <= j, j <= Len(s)
  PROVE  /\ Candidates(SubSeq(s, 1, i)) \in Seq(Field)
         /\ Candidates(SubSeq(s, i + 1, j)) \in Seq(Field)
         /\ Candidates(SubSeq(s, 1, j))
              = Candidates(SubSeq(s, 1, i)) \o Candidates(SubSeq(s, i + 1, j))
         /\ Len(Candidates(SubSeq(s, 1, j)))
              = Len(Candidates(SubSeq(s, 1, i))) + Len(Candidates(SubSeq(s, i + 1, j)))
         /\ SubSeq(s, 1, 0) = <<>> /\ SubSeq(s, 1, Len(s)) = s
<1> DEFINE W == Words
           a == SubSeq(s, 1, i)
           b == SubSeq(s, i + 1, j)
<1>0. s \in Seq(W)
  OBVIOUS
<1>1. /\ a \in Seq(W) /\ b \in Seq(W) /\ SubSeq(s, 1, j) = a \o b
      /\ SubSeq(s, 1, 0) = <<>> /\ SubSeq(s, 1, Len(s)) = s
  <2> HIDE DEF W
  <2> QED BY <1>0, SubSeqFacts
<1> HIDE DEF a, b
<1>2. /\ Candidates(a) \in Seq(Field) /\ Candidates(b) \in Seq(Field)
      /\ Candidates(a \o b) = Candidates(a) \o Candidates(b)
  BY <1>1, CandidatesAppend, CandidatesConcat
<1>3. Len(Candidates(a) \o Candidates(b)) = Len(Candidates(a)) + Len(Candidates(b))
  <2> DEFINE F == Field
  <2>1. Candidates(a) \in Seq(F) /\ Candidates(b) \in Seq(F)
    BY <1>2
  <2> HIDE DEF F
  <2> QED BY <2>1
<1> QED BY <1>1, <1>2, <1>3 DEF a, b

\* The first n elements, or all.
Prefix(s, n) == IF Len(s) > n THEN SubSeq(s, 1, n) ELSE s

\* Those of two sequences joined.
FirstOfBoth(s, t, n) == SubSeq(s \o t, 1, n)

LEMMA PrefixFacts ==
  ASSUME NEW S, NEW s \in Seq(S), NEW t \in Seq(S), NEW n \in Nat
  PROVE  /\ Prefix(s, n) \in Seq(S) /\ Len(Prefix(s, n)) <= n
         /\ Len(Prefix(s, n)) < n => Prefix(s, n) = s
         /\ Len(Prefix(s, n)) = n => FirstOfBoth(s, t, n) = Prefix(s, n)
<1>1. Len(s) \in Nat /\ Len(t) \in Nat /\ s \o t \in Seq(S) /\ Len(s \o t) = Len(s) + Len(t)
      /\ \A i \in 1 .. Len(s) : (s \o t)[i] = s[i] /\ s[i] \in S
  OBVIOUS
<1> DEFINE st == s \o t
           p == SubSeq(s, 1, n)
           q == SubSeq(st, 1, n)
           Holds == /\ Prefix(s, n) \in Seq(S) /\ Len(Prefix(s, n)) <= n
                    /\ Len(Prefix(s, n)) < n => Prefix(s, n) = s
                    /\ Len(Prefix(s, n)) = n => q = Prefix(s, n)
<1> HIDE DEF st
<1>2. ASSUME Len(s) >= n PROVE Holds
  <2>1. p \in Seq(S) /\ Len(p) = n /\ \A i \in 1 .. n : p[i] = s[i]
    BY <1>2
  <2>2. st \in Seq(S) /\ Len(st) >= n
    BY <1>1, <1>2 DEF st
  <2>3. q \in Seq(S) /\ Len(q) = n /\ \A i \in 1 .. n : q[i] = st[i]
    BY <2>2
  <2>4. \A i \in 1 .. n : st[i] = s[i]
    BY <1>1, <1>2 DEF st
  <2> HIDE DEF p, q
  <2>5. q = p
    BY <2>1, <2>3, <2>4
  <2>6. Len(s) = n => p = s
    BY <2>1
  <2>7. CASE Len(s) > n
    <3>1. Prefix(s, n) = p
      BY <2>7 DEF Prefix, p
    <3>2. ~(Len(p) < n)
      BY <2>1
    <3> QED BY <2>1, <2>5, <3>1, <3>2
  <2>8. CASE Len(s) = n
    <3>1. Prefix(s, n) = s
      BY <2>8 DEF Prefix
    <3> QED BY <2>1, <2>5, <2>6, <2>8, <3>1
  <2> QED BY <1>1, <1>2, <2>7, <2>8
<1>3. ASSUME Len(s) < n PROVE Holds
  <2>1. Prefix(s, n) = s
    BY <1>1, <1>3 DEF Prefix
  <2> HIDE DEF p, q
  <2> QED BY <1>1, <1>3, <2>1
<1>4. Len(s) >= n \/ Len(s) < n
  BY <1>1
<1> QED BY <1>2, <1>3, <1>4, Zenon DEF st, FirstOfBoth

\* The candidates among the first i words, and among the next up to j.
CandTo(s, i)   == Candidates(SubSeq(s, 1, i))
Drawn(s, i, j) == Candidates(SubSeq(s, i + 1, j))

LEMMA DrawnFacts ==
  ASSUME NEW s \in Seq(Words), NEW i \in Nat, NEW j \in Nat, i <= j, j <= Len(s)
  PROVE  /\ CandTo(s, i) \in Seq(Field) /\ Len(CandTo(s, i)) \in Nat
         /\ Drawn(s, i, j) \in Seq(Field)
         /\ CandTo(s, j) = CandTo(s, i) \o Drawn(s, i, j)
         /\ Len(CandTo(s, i)) <= Len(CandTo(s, j))
<1>1. /\ CandTo(s, i) \in Seq(Field) /\ Drawn(s, i, j) \in Seq(Field)
      /\ CandTo(s, j) = CandTo(s, i) \o Drawn(s, i, j)
      /\ Len(CandTo(s, j)) = Len(CandTo(s, i)) + Len(Drawn(s, i, j))
  BY CandidatesOfParts DEF CandTo, Drawn
<1>2. Len(CandTo(s, i)) \in Nat /\ Len(Drawn(s, i, j)) \in Nat
  BY <1>1
<1> QED BY <1>1, <1>2

LEMMA CandToEnds ==
  ASSUME NEW s \in Seq(Words)
  PROVE  CandTo(s, 0) = <<>> /\ CandTo(s, Len(s)) = Candidates(s)
<1> DEFINE W == Words
           n == Len(s)
<1>1. s \in Seq(W) /\ n \in Nat /\ n <= n /\ n = Len(s)
  OBVIOUS
<1> HIDE DEF W
<1>2. SubSeq(s, 1, 0) = <<>> /\ SubSeq(s, 1, Len(s)) = s
  BY <1>1, SubSeqFacts
<1>3. CandTo(s, 0) = <<>>
  BY <1>2, CandidatesAppend DEF CandTo
<1>4. CandTo(s, Len(s)) = Candidates(s)
  BY <1>2, Zenon DEF CandTo
<1> QED BY <1>3, <1>4

\* Words enough are left when the pad is not full.
LEMMA NotYetFull ==
  ASSUME NEW m \in Nat \ {0}, NEW s \in Seq(Words), Suffices(s, m), NEW i \in Nat,
         i <= Len(s), Len(CandTo(s, i)) < m
  PROVE  i + m + 1 < Len(s)
<1> DEFINE L == Len(s)
           k == L - m - 1
<1>1. L \in Nat /\ m \in Nat /\ m > 0 /\ k \in Int /\ L = k + m + 1
  OBVIOUS
<1>2. Len(CandTo(s, k)) >= m
  BY DEF Suffices, CandTo
<1>3. k < 0 => Len(CandTo(s, k)) = 0
  <2> SUFFICES ASSUME k < 0 PROVE Len(CandTo(s, k)) = 0
    OBVIOUS
  <2> HIDE DEF k
  <2>1. SubSeq(s, 1, k) = <<>>
    BY <1>1
  <2>2. CandTo(s, k) = <<>>
    BY <2>1, CandidatesAppend DEF CandTo
  <2> QED BY <2>2
<1>e. L = Len(s)
  OBVIOUS
<1> HIDE DEF k, L
<1>4. k \in Nat /\ k <= Len(s)
  BY <1>1, <1>2, <1>3, <1>e
<1>5. ASSUME k <= i PROVE FALSE
  <2>1. Len(CandTo(s, k)) <= Len(CandTo(s, i)) /\ Len(CandTo(s, k)) \in Nat
    BY <1>4, <1>5, DrawnFacts
  <2>2. Len(CandTo(s, i)) \in Nat
    BY DrawnFacts
  <2> QED BY <1>1, <1>2, <2>1, <2>2
<1> QED BY <1>1, <1>4, <1>5, <1>e

\* What a pass leaves: of the words of the blocks it has used up, the first n
\* candidates.
PadsOf(s, n) ==
  {p \in [counter : Nat, out : Seq(Field)] :
     /\ 2 * p.counter <= Len(s)
     /\ p.out = Prefix(CandTo(s, 2 * p.counter), n)}

LEMMA HalfUp ==
  ASSUME NEW need \in Nat
  PROVE  /\ (need + 1) \div 2 \in Nat /\ 2 * ((need + 1) \div 2) <= need + 1
         /\ need > 0 => (need + 1) \div 2 > 0
         /\ need = 0 => (need + 1) \div 2 = 0
  OBVIOUS

\* A pass stays within the keystream, and goes on unless the pad is full.
LEMMA RefillKeepsPad ==
  ASSUME NEW m \in Nat \ {0}, NEW s \in Seq(Words), Suffices(s, m), NEW n \in 0 .. m,
         NEW p \in PadsOf(s, n)
  PROVE  /\ Refill(p, s, n) \in PadsOf(s, n)
         /\ Len(p.out) \in Nat /\ Len(p.out) <= n
         /\ Len(p.out) = n => Len(Refill(p, s, n).out) = n
         /\ Len(p.out) < n => Refill(p, s, n).counter > p.counter
<1> DEFINE c == p.counter
           out == p.out
           need == n - Len(out)
           blocks == (need + 1) \div 2
           d == c + blocks
           next == Prefix(CandTo(s, 2 * d), n)
<1>1. /\ c \in Nat /\ out \in Seq(Field) /\ 2 * c <= Len(s) /\ out = Prefix(CandTo(s, 2 * c), n)
      /\ Len(s) \in Nat /\ n \in Nat /\ n <= m /\ m \in Nat
  BY DEF PadsOf
<1>5. Refill(p, s, n) = [counter |-> d, out |-> Prefix(out \o Drawn(s, 2 * c, 2 * d), n)]
  <2>1. Refill(p, s, n) = [counter |-> d, out |-> Prefix(out \o Candidates(SubSeq(s, 2 * c + 1, 2 * d)), n)]
    <3> HIDE DEF blocks
    <3>1. (n - Len(p.out) + 1) \div 2 = blocks
      BY DEF blocks
    <3> QED BY <3>1 DEF Refill, Prefix
  <2> QED BY <2>1, Zenon DEF Drawn
<1>e. need = n - Len(out) /\ blocks = (need + 1) \div 2 /\ d = c + blocks
      /\ next = Prefix(CandTo(s, 2 * d), n) /\ c = p.counter /\ out = p.out
  OBVIOUS
<1>n. need = n - Len(out)
  OBVIOUS
<1>d. d = c + blocks
  OBVIOUS
<1> HIDE DEF c, out, need, blocks, d, next
<1>3. /\ Len(out) \in Nat /\ Len(out) <= n
      /\ Len(out) < n => out = CandTo(s, 2 * c)
  <2>0. 2 * c \in Nat /\ 2 * c <= 2 * c
    BY <1>1
  <2>1. CandTo(s, 2 * c) \in Seq(Field)
    BY <1>1, <2>0, DrawnFacts
  <2>2. Len(Prefix(CandTo(s, 2 * c), n)) <= n
        /\ (Len(Prefix(CandTo(s, 2 * c), n)) < n => Prefix(CandTo(s, 2 * c), n) = CandTo(s, 2 * c))
    BY <1>1, <2>1, PrefixFacts
  <2>3. Len(out) \in Nat
    BY <1>1
  <2> QED BY <1>1, <2>2, <2>3
<1>4. need \in Nat /\ blocks \in Nat /\ 2 * blocks <= need + 1
      /\ (need > 0 => blocks > 0) /\ (need = 0 => blocks = 0)
  <2>1. need \in Nat
    BY <1>1, <1>3, <1>e
  <2> QED BY <2>1, <1>e, HalfUp
<1>6. d \in Nat /\ d >= c /\ (need > 0 => d > c) /\ (need = 0 => d = c)
  BY <1>1, <1>4, <1>d
<1>7. 2 * d <= Len(s)
  <2>1. CASE need = 0
    BY <1>1, <1>6, <2>1
  <2>2. CASE need > 0
    <3>1. Len(out) < n /\ Len(CandTo(s, 2 * c)) < m /\ 2 * c \in Nat
      <4>1. Len(out) < n
        BY <1>1, <1>3, <1>n, <2>2
      <4>2. Len(out) < m
        BY <1>1, <1>3, <4>1
      <4> QED BY <1>1, <1>3, <4>1, <4>2
    <3>2. 2 * c + m + 1 < Len(s)
      BY <1>1, <3>1, NotYetFull
    <3>3. need <= n
      BY <1>1, <1>3, <1>e
    <3> QED BY <1>1, <1>4, <1>d, <3>2, <3>3
  <2> QED BY <1>4, <2>1, <2>2
<1>8. /\ CandTo(s, 2 * d) = CandTo(s, 2 * c) \o Drawn(s, 2 * c, 2 * d)
      /\ CandTo(s, 2 * d) \in Seq(Field)
  <2>1. 2 * c \in Nat /\ 2 * d \in Nat /\ 2 * c <= 2 * d /\ 2 * d <= 2 * d
    BY <1>1, <1>6
  <2> QED BY <1>7, <2>1, DrawnFacts
<1>9. Prefix(out \o Drawn(s, 2 * c, 2 * d), n) = next
  <2>1. CASE Len(out) < n
    BY <1>3, <1>8, <1>e, <2>1
  <2>2. CASE Len(out) = n
    <3>1. need = 0
      BY <1>1, <1>e, <2>2
    <3>2. d = c
      BY <1>6, <3>1
    <3>3. Drawn(s, 2 * c, 2 * d) = <<>>
      <4>1. SubSeq(s, 2 * c + 1, 2 * d) = <<>>
        BY <1>1, <3>2
      <4> QED BY <4>1, CandidatesAppend DEF Drawn
    <3>4. out \o <<>> = out
      BY <1>1
    <3>5. Prefix(out, n) = out
      BY <1>1, <2>2 DEF Prefix
    <3>6. next = out
      BY <1>1, <1>e, <3>2
    <3> QED BY <3>3, <3>4, <3>5, <3>6
  <2> QED BY <1>1, <1>3, <2>1, <2>2
<1>10. next \in Seq(Field) /\ Len(next) \in Nat /\ Len(next) <= n
  <2>1. next \in Seq(Field) /\ Len(next) <= n
    BY <1>1, <1>8, <1>e, PrefixFacts
  <2> QED BY <2>1
<1>11. Refill(p, s, n) \in PadsOf(s, n)
  BY <1>5, <1>6, <1>7, <1>9, <1>10, <1>e DEF PadsOf
<1>12. Refill(p, s, n).counter = d /\ Refill(p, s, n).out = next
  BY <1>5, <1>9
<1>13. ASSUME Len(out) = n PROVE Len(next) = n
  <2>1. need = 0
    BY <1>1, <1>e, <1>13
  <2>2. d = c
    BY <1>6, <2>1
  <2> QED BY <1>1, <1>e, <1>13, <2>2
<1>14. Len(out) < n => need > 0
  BY <1>1, <1>3, <1>e
<1> QED BY <1>3, <1>6, <1>11, <1>12, <1>13, <1>14, <1>e

\* The passes over a keystream, one after the other.
IsPasses(f, s, n) ==
  f = [k \in Nat |-> IF k = 0 THEN [counter |-> 0, out |-> <<>>] ELSE Refill(f[k - 1], s, n)]

LEMMA PassesExist ==
  ASSUME NEW m \in Nat \ {0}, NEW s \in Seq(Words), Suffices(s, m), NEW n \in 0 .. m
  PROVE  /\ [counter |-> 0, out |-> <<>>] \in PadsOf(s, n)
         /\ \E f : IsPasses(f, s, n)
<1> DEFINE T == PadsOf(s, n)
           base == [counter |-> 0, out |-> <<>>]
           step == [k \in Nat |-> [p \in T |-> Refill(p, s, n)]]
<1>1. base \in T
  <2>1. Len(s) \in Nat /\ SubSeq(s, 1, 0) = <<>>
    BY CandidatesOfParts
  <2>2. CandTo(s, 2 * 0) = <<>>
    <3>1. 2 * 0 = 0
      OBVIOUS
    <3> QED BY <2>1, <3>1, CandidatesAppend DEF CandTo
  <2>3. Prefix(<<>>, n) = <<>> /\ <<>> \in Seq(Field)
    BY DEF Prefix
  <2>4. base.counter = 0 /\ base.out = <<>> /\ base \in [counter : Nat, out : Seq(Field)]
    BY <2>3
  <2>5. 2 * 0 <= Len(s)
    BY <2>1
  <2> HIDE DEF base
  <2> QED BY <2>2, <2>3, <2>4, <2>5 DEF PadsOf
<1>2. step \in [Nat -> [T -> T]]
  <2>1. \A p \in T : Refill(p, s, n) \in T
    BY RefillKeepsPad
  <2> HIDE DEF T
  <2> QED BY <2>1
<1>e. /\ base = [counter |-> 0, out |-> <<>>]
      /\ \A k \in Nat : \A p \in T : step[k][p] = Refill(p, s, n)
  OBVIOUS
<1> HIDE DEF T, base, step
<1>3. PICK f : IsNatRecursion(f, T, base, step)
  BY <1>1, <1>2, NatSetRecursion
<1>4. f = [k \in Nat |-> IF k = 0 THEN base ELSE Refill(f[k - 1], s, n)]
  <2>1. f \in [Nat -> T] /\ f[0] = base /\ \A k \in Nat : f[k + 1] = step[k][f[k]]
    BY <1>3 DEF IsNatRecursion
  <2>2. ASSUME NEW k \in Nat, k # 0 PROVE f[k] = Refill(f[k - 1], s, n)
    <3>1. k - 1 \in Nat /\ (k - 1) + 1 = k
      BY <2>2
    <3>2. f[k - 1] \in T /\ f[k] = step[k - 1][f[k - 1]]
      BY <2>1, <3>1
    <3> QED BY <1>e, <3>1, <3>2
  <2>3. f = [k \in Nat |-> f[k]]
    BY <2>1
  <2> QED BY <2>1, <2>2, <2>3
<1>5. IsPasses(f, s, n)
  BY <1>4, <1>e DEF IsPasses
<1> QED BY <1>1, <1>5, <1>e DEF T

\* A pad is the keystream, from its beginning, without what is rejected.
LEMMA PadIsPrefix ==
  ASSUME NEW m \in Nat \ {0}, NEW s \in Seq(Words), Suffices(s, m), NEW n \in 0 .. m
  PROVE  /\ SingleFieldPad(s, n) = SubSeq(Candidates(s), 1, n)
         /\ SingleFieldPad(s, n) \in Vec(n)
<1> DEFINE T == PadsOf(s, n)
           base == [counter |-> 0, out |-> <<>>]
           pass == CHOOSE f : IsPasses(f, s, n)
           A == {k \in Nat : /\ pass[k] \in T
                             /\ Len(pass[k].out) = n \/ pass[k].counter >= k}
<1>1. base \in T /\ IsPasses(pass, s, n)
  BY PassesExist
<1>2. SingleFieldPad(s, n) = pass[Len(s)].out
  <2>1. pass = CHOOSE f : f = [k \in Nat |-> IF k = 0 THEN [counter |-> 0, out |-> <<>>]
                                               ELSE Refill(f[k - 1], s, n)]
    BY DEF IsPasses
  <2> HIDE DEF pass
  <2> QED BY <2>1 DEF SingleFieldPad
<1> HIDE DEF pass
<1>3. pass[0] = base /\ \A k \in Nat : pass[k + 1] = Refill(pass[k], s, n)
  <2>1. \A k \in Nat : pass[k] = IF k = 0 THEN base ELSE Refill(pass[k - 1], s, n)
    BY <1>1 DEF IsPasses
  <2>2. ASSUME NEW k \in Nat PROVE pass[k + 1] = Refill(pass[k], s, n)
    <3>1. k + 1 \in Nat /\ k + 1 # 0 /\ (k + 1) - 1 = k
      OBVIOUS
    <3> QED BY <2>1, <3>1
  <2> QED BY <2>1, <2>2
<1>4. base.counter = 0
  OBVIOUS
<1> HIDE DEF T, base
<1>5. 0 \in A
  <2> DEFINE z == pass[0]
  <2>1. z \in T /\ z.counter = 0
    BY <1>1, <1>3, <1>4
  <2> HIDE DEF z
  <2>2. z.counter >= 0
    BY <2>1
  <2> QED BY <2>1, <2>2 DEF z
<1>6. ASSUME NEW k \in Nat, k \in A PROVE k + 1 \in A
  <2> DEFINE p == pass[k]
             q == pass[k + 1]
  <2>1. p \in T /\ (Len(p.out) = n \/ p.counter >= k) /\ q = Refill(p, s, n)
    BY <1>3, <1>6
  <2> HIDE DEF p, q
  <2>2. /\ q \in T /\ Len(p.out) \in Nat /\ Len(p.out) <= n
        /\ Len(p.out) = n => Len(q.out) = n
        /\ Len(p.out) < n => q.counter > p.counter
    BY <2>1, RefillKeepsPad DEF T
  <2>3. p.counter \in Nat /\ q.counter \in Nat
    BY <2>1, <2>2 DEF T, PadsOf
  <2>4. Len(q.out) = n \/ q.counter >= k + 1
    <3>1. CASE Len(p.out) = n
      BY <2>2, <3>1
    <3>2. CASE Len(p.out) < n
      <4>1. q.counter > p.counter /\ p.counter >= k
        BY <2>1, <2>2, <3>2
      <4> QED BY <2>3, <4>1
    <3> QED BY <2>2, <3>1, <3>2
  <2> QED BY <2>2, <2>4 DEF q
<1> HIDE DEF A
<1>7. Nat \subseteq A
  BY <1>5, <1>6, NatSetInduction
<1> DEFINE p == pass[Len(s)]
           c == p.counter
<1>8. p \in T /\ (Len(p.out) = n \/ p.counter >= Len(s)) /\ Len(s) \in Nat
  <2>1. Len(s) \in A
    BY <1>7
  <2> QED BY <2>1 DEF A
<1> HIDE DEF p
<1>9. /\ c \in Nat /\ 2 * c <= Len(s) /\ p.out = Prefix(CandTo(s, 2 * c), n)
      /\ Len(p.out) \in Nat /\ Len(p.out) <= n
  <2>1. Len(p.out) \in Nat /\ Len(p.out) <= n
    BY <1>8, RefillKeepsPad DEF T
  <2> QED BY <1>8, <2>1 DEF T, PadsOf
<1> HIDE DEF c
<1>10. Len(s) > 0
  <2> SUFFICES ASSUME Len(s) = 0 PROVE FALSE
    BY <1>8
  <2> DEFINE i == 0
  <2>1. CandTo(s, i) = <<>> /\ i = 0
    BY CandToEnds
  <2> HIDE DEF i
  <2>2. Len(CandTo(s, i)) < m /\ i \in Nat /\ i <= Len(s)
    BY <1>8, <2>1
  <2>3. i + m + 1 < Len(s)
    BY <2>2, NotYetFull
  <2> QED BY <2>1, <2>3
<1>11. Len(p.out) = n
  <2> SUFFICES ASSUME p.counter >= Len(s) PROVE FALSE
    BY <1>8
  <2>1. c >= Len(s)
    BY DEF c
  <2> QED BY <1>8, <1>9, <1>10, <2>1
<1> DEFINE C == CandTo(s, 2 * c)
           D == Drawn(s, 2 * c, Len(s))
<1>12. C \in Seq(Field) /\ D \in Seq(Field) /\ Candidates(s) = C \o D
  <2>1. 2 * c \in Nat
    BY <1>9
  <2>2. CandTo(s, Len(s)) = Candidates(s)
    BY CandToEnds
  <2> DEFINE i == 2 * c
             j == Len(s)
  <2>3. i \in Nat /\ j \in Nat /\ i <= j /\ j <= Len(s)
    BY <1>8, <1>9, <2>1
  <2>4. CandTo(s, j) = Candidates(s)
    BY <2>2
  <2> HIDE DEF i, j
  <2>5. CandTo(s, i) \in Seq(Field) /\ Drawn(s, i, j) \in Seq(Field)
        /\ CandTo(s, j) = CandTo(s, i) \o Drawn(s, i, j)
    BY <2>3, DrawnFacts
  <2>6. C = CandTo(s, i) /\ D = Drawn(s, i, j)
    BY DEF i, j
  <2> HIDE DEF C, D
  <2> QED BY <2>4, <2>5, <2>6
<1>13. p.out = Prefix(C, n) /\ Len(Prefix(C, n)) = n /\ n \in Nat
  BY <1>9, <1>11
<1> HIDE DEF C, D
<1>14. SubSeq(C \o D, 1, n) = Prefix(C, n) /\ Prefix(C, n) \in Seq(Field)
  <2> DEFINE F == Field
  <2>1. C \in Seq(F) /\ D \in Seq(F)
    BY <1>12
  <2> HIDE DEF F
  <2>2. /\ Prefix(C, n) \in Seq(F)
        /\ Len(Prefix(C, n)) = n => FirstOfBoth(C, D, n) = Prefix(C, n)
    BY <1>13, <2>1, PrefixFacts
  <2>3. Prefix(C, n) \in Seq(Field)
    BY <2>2 DEF F
  <2> QED BY <1>13, <2>2, <2>3, Zenon DEF FirstOfBoth
<1>15. p.out \in Vec(n)
  <2> DEFINE F == Field
             v == p.out
  <2>1. v \in Seq(F) /\ Len(v) = n
    BY <1>11, <1>13, <1>14
  <2> HIDE DEF F, v
  <2>2. v \in [1 .. n -> F]
    BY <2>1
  <2> QED BY <2>2 DEF F, v, Vec
<1> QED BY <1>2, <1>12, <1>13, <1>14, <1>15 DEF p

-----------------------------------------------------------------------------
(***************************************************************************)
(* What the clients put on, and what the servers take off.                 *)
(***************************************************************************)
LEMMA EncodedLenPositive ==
  NCells \in Nat \ {0} /\ EncodedLen \in Nat \ {0} /\ EncodedLen = 3 * NCells
<1>1. Gamma \in Nat \ {0} /\ Delta \in Nat \ {0}
  BY TableAssumption
<1>2. Gamma * Delta \in Nat \ {0}
  BY <1>1
<1> QED BY <1>2 DEF NCells, EncodedLen

LEMMA PadsTyped ==
  ASSUME NEW x \in Secrets
  PROVE  FieldPad[x] \in Vec(EncodedLen)
<1>1. Keystream[x] \in Seq(Words) /\ Suffices(Keystream[x], EncodedLen)
  BY RoundAssumption
<1>2. EncodedLen \in Nat \ {0} /\ EncodedLen \in 0 .. EncodedLen
  BY EncodedLenPositive
<1>3. SingleFieldPad(Keystream[x], EncodedLen) \in Vec(EncodedLen)
  BY <1>1, <1>2, PadIsPrefix
<1> QED BY <1>3 DEF FieldPad

\* The pads of one client, and those one server has of the first n clients.
PadsOfClient(i)    == [s \in 1 .. Servers |-> FieldPad[<<i, s>>]]
PadsOfServer(s, n) == [i \in 1 .. n |-> FieldPad[<<i, s>>]]

LEMMA DerivedIsTotal ==
  ASSUME NEW pads \in Seq(Vec(EncodedLen)), NEW avx2 \in BOOLEAN
  PROVE  DeriveBlindingVector(pads, EncodedLen, avx2) = Total(EncodedLen, pads)
<1>1. EncodedLen \in Nat /\ ZeroVec(EncodedLen) \in Vec(EncodedLen)
  BY EncodedLenPositive, FieldAssumption DEF ZeroVec, Vec, Field
<1>2. AddAll(ZeroVec(EncodedLen), pads, avx2) = VPlus(ZeroVec(EncodedLen), Total(EncodedLen, pads))
  BY <1>1, AddAllIsTotal
<1>3. Total(EncodedLen, pads) \in Vec(EncodedLen)
  BY <1>1, TotalAppend
<1>4. VPlus(ZeroVec(EncodedLen), Total(EncodedLen, pads)) = Total(EncodedLen, pads)
  BY <1>1, <1>3, VecLaws
<1> QED BY <1>2, <1>4 DEF DeriveBlindingVector, ZeroVec

LEMMA RowsAndColumns ==
  /\ \A i \in 1 .. MaxClients :
       /\ PadsOfClient(i) \in Seq(Vec(EncodedLen))
       /\ PadsOfClient(i) \in [1 .. Servers -> Vec(EncodedLen)]
       /\ Total(EncodedLen, PadsOfClient(i)) \in Vec(EncodedLen)
       /\ \A avx2 \in BOOLEAN : ClientPad[i][avx2] = Total(EncodedLen, PadsOfClient(i))
  /\ \A s \in 1 .. Servers, n \in 0 .. MaxClients :
       /\ PadsOfServer(s, n) \in Seq(Vec(EncodedLen))
       /\ Total(EncodedLen, PadsOfServer(s, n)) \in Vec(EncodedLen)
       /\ n > 0 => \A avx2 \in BOOLEAN :
                     ServerShare[s][n][avx2] = Total(EncodedLen, PadsOfServer(s, n))
<1> DEFINE V == Vec(EncodedLen)
<1>0. Servers \in Nat /\ MaxClients \in Nat /\ EncodedLen \in Nat
  BY RoundAssumption, EncodedLenPositive
<1>1. \A i \in 1 .. MaxClients, s \in 1 .. Servers : FieldPad[<<i, s>>] \in V
  BY PadsTyped DEF Secrets
<1> HIDE DEF V
<1>2. ASSUME NEW i \in 1 .. MaxClients
      PROVE  PadsOfClient(i) \in Seq(V) /\ PadsOfClient(i) \in [1 .. Servers -> V]
  <2>1. PadsOfClient(i) \in [1 .. Servers -> V]
    BY <1>1 DEF PadsOfClient
  <2> QED BY <2>1, <1>0
<1>3. ASSUME NEW s \in 1 .. Servers, NEW n \in 0 .. MaxClients
      PROVE  PadsOfServer(s, n) \in Seq(V)
  <2>1. \A i \in 1 .. n : i \in 1 .. MaxClients
    BY <1>0
  <2>2. PadsOfServer(s, n) \in [1 .. n -> V]
    BY <1>1, <2>1 DEF PadsOfServer
  <2>3. n \in Nat
    BY <1>0
  <2> QED BY <2>2, <2>3
<1>4. \A vs \in Seq(V) : /\ Total(EncodedLen, vs) \in V
                         /\ \A avx2 \in BOOLEAN :
                              DeriveBlindingVector(vs, EncodedLen, avx2) = Total(EncodedLen, vs)
  BY <1>0, TotalAppend, DerivedIsTotal DEF V
<1>5. \A i \in 1 .. MaxClients, avx2 \in BOOLEAN :
        ClientPad[i][avx2] = DeriveBlindingVector(PadsOfClient(i), EncodedLen, avx2)
  BY DEF ClientPad, PadsOfClient
<1>6. \A s \in 1 .. Servers, n \in 1 .. MaxClients, avx2 \in BOOLEAN :
        ServerShare[s][n][avx2] = DeriveBlindingVector(PadsOfServer(s, n), EncodedLen, avx2)
  BY DEF ServerShare, PadsOfServer
<1>7. ASSUME NEW n \in 0 .. MaxClients, n > 0 PROVE n \in 1 .. MaxClients
  BY <1>0, <1>7
<1> QED BY <1>2, <1>3, <1>4, <1>5, <1>6, <1>7 DEF V

\* Nothing, summed up as often as you like, is nothing.
LEMMA TotalOfZeros ==
  ASSUME NEW n \in Nat, NEW k \in Nat
  PROVE  Total(n, [i \in 1 .. k |-> ZeroVec(n)]) = ZeroVec(n)
<1> DEFINE zs == [i \in 1 .. k |-> ZeroVec(n)]
           t == Total(n, zs)
<1>1. ZeroVec(n) \in Vec(n)
  BY FieldAssumption DEF ZeroVec, Vec, Field
<1>2. zs \in [1 .. k -> Vec(n)] /\ \A i \in 1 .. k : zs[i] = ZeroVec(n)
  BY <1>1
<1>3. VPlus(ZeroVec(n), ZeroVec(n)) = ZeroVec(n)
  BY <1>1, VecLaws
<1>4. [i \in 1 .. k |-> VPlus(zs[i], zs[i])] = zs
  BY <1>2, <1>3
<1> HIDE DEF zs
<1>5. t = VPlus(t, t)
  <2>1. Total(n, [i \in 1 .. k |-> VPlus(zs[i], zs[i])]) = VPlus(Total(n, zs), Total(n, zs))
    BY <1>2, TotalOfSums
  <2> QED BY <1>4, <2>1
<1>6. t \in Vec(n)
  <2> DEFINE V == Vec(n)
  <2>1. zs \in [1 .. k -> V]
    BY <1>2
  <2> HIDE DEF V
  <2>2. zs \in Seq(V)
    BY <2>1
  <2> QED BY <2>2, TotalAppend DEF V
<1> HIDE DEF t
<1>7. VMinus(VPlus(t, t), t) = t /\ VPlus(ZeroVec(n), t) = t
      /\ VMinus(VPlus(ZeroVec(n), t), t) = ZeroVec(n)
  BY <1>1, <1>6, VecLaws
<1>8. t = ZeroVec(n)
  BY <1>5, <1>7
<1> QED BY <1>8 DEF t, zs

\* All the pads together, client by client or server by server.
LEMMA PadsCancel ==
  ASSUME NEW n \in 0 .. MaxClients
  PROVE  Total(EncodedLen, [i \in 1 .. n |-> Total(EncodedLen, PadsOfClient(i))])
           = Total(EncodedLen, [s \in 1 .. Servers |-> Total(EncodedLen, PadsOfServer(s, n))])
<1> DEFINE V == Vec(EncodedLen)
           ClientSum(i) == Total(EncodedLen, PadsOfClient(i))
           ServerSum(s, k) == Total(EncodedLen, PadsOfServer(s, k))
           ClientSums(k) == [i \in 1 .. k |-> ClientSum(i)]
           Cols(k) == [s \in 1 .. Servers |-> ServerSum(s, k)]
           A == {k \in Nat : k <= MaxClients =>
                   Total(EncodedLen, ClientSums(k)) = Total(EncodedLen, Cols(k))}
<1>0. Servers \in Nat /\ MaxClients \in Nat /\ EncodedLen \in Nat
  BY RoundAssumption, EncodedLenPositive
<1>1. /\ \A i \in 1 .. MaxClients : ClientSum(i) \in V /\ PadsOfClient(i) \in [1 .. Servers -> V]
      /\ \A s \in 1 .. Servers, k \in 0 .. MaxClients :
           ServerSum(s, k) \in V /\ PadsOfServer(s, k) \in Seq(V)
  BY RowsAndColumns
<1>2. 0 \in A
  <2>1. ClientSums(0) = <<>>
    OBVIOUS
  <2>2. \A s \in 1 .. Servers : ServerSum(s, 0) = ZeroVec(EncodedLen)
    <3>1. \A s \in 1 .. Servers : PadsOfServer(s, 0) = <<>>
      BY DEF PadsOfServer
    <3> QED BY <1>0, <3>1, TotalAppend
  <2>3. Cols(0) = [s \in 1 .. Servers |-> ZeroVec(EncodedLen)]
    BY <2>2
  <2>4. Total(EncodedLen, Cols(0)) = ZeroVec(EncodedLen)
    BY <1>0, <2>3, TotalOfZeros
  <2>5. Total(EncodedLen, ClientSums(0)) = ZeroVec(EncodedLen)
    BY <1>0, <2>1, TotalAppend
  <2> QED BY <2>4, <2>5
<1>3. ASSUME NEW k \in Nat, k \in A PROVE k + 1 \in A
  <2> SUFFICES ASSUME k + 1 <= MaxClients
               PROVE  Total(EncodedLen, ClientSums(k + 1)) = Total(EncodedLen, Cols(k + 1))
    OBVIOUS
  <2>0. k + 1 \in 1 .. MaxClients /\ k \in 0 .. MaxClients /\ k + 1 \in 0 .. MaxClients
        /\ \A i \in 1 .. k + 1 : i \in 1 .. MaxClients
    BY <1>0
  <2>1. ClientSums(k) \in Seq(V) /\ ClientSums(k + 1) = Append(ClientSums(k), ClientSum(k + 1)) /\ ClientSum(k + 1) \in V
    <3>1. \A i \in 1 .. k + 1 : ClientSum(i) \in V
      BY <1>1, <2>0
    <3> HIDE DEF V, ClientSum
    <3>2. ClientSums(k) \in Seq(V) /\ Len(ClientSums(k)) = k
      BY <3>1
    <3>3. ClientSums(k + 1) \in Seq(V) /\ Len(ClientSums(k + 1)) = k + 1
      BY <3>1
    <3> QED BY <3>1, <3>2, <3>3
  <2>2. Total(EncodedLen, ClientSums(k + 1)) = VPlus(Total(EncodedLen, ClientSums(k)), ClientSum(k + 1))
    <3> HIDE DEF ClientSums, ClientSum
    <3> QED BY <1>0, <2>1, TotalAppend
  <2>3. ASSUME NEW s \in 1 .. Servers
        PROVE  ServerSum(s, k + 1) = VPlus(ServerSum(s, k), PadsOfClient(k + 1)[s])
    <3>1. /\ PadsOfServer(s, k) \in Seq(V) /\ PadsOfServer(s, k + 1) \in Seq(V)
          /\ PadsOfClient(k + 1)[s] \in V
      BY <1>1, <2>0
    <3>2. PadsOfClient(k + 1)[s] = FieldPad[<<k + 1, s>>]
      BY DEF PadsOfClient
    <3>3. PadsOfServer(s, k + 1) = Append(PadsOfServer(s, k), PadsOfClient(k + 1)[s])
      <4> DEFINE g == [i \in 1 .. k + 1 |-> FieldPad[<<i, s>>]]
                 h == [i \in 1 .. k |-> FieldPad[<<i, s>>]]
      <4>1. \A i \in 1 .. k : g[i] = h[i]
        OBVIOUS
      <4>2. g[k + 1] = FieldPad[<<k + 1, s>>]
        BY <2>0
      <4>3. DOMAIN g = 1 .. k + 1 /\ DOMAIN h = 1 .. k
        OBVIOUS
      <4>4. g = PadsOfServer(s, k + 1) /\ h = PadsOfServer(s, k)
        BY DEF PadsOfServer
      <4> HIDE DEF g, h, V
      <4>5. g \in Seq(V) /\ h \in Seq(V)
        BY <3>1, <4>4
      <4>6. Len(g) = k + 1 /\ Len(h) = k
        BY <4>3, <4>5
      <4>7. g = Append(h, g[k + 1])
        <5> DEFINE x == g[k + 1]
        <5>1. x \in V
          BY <4>2, <3>1, <3>2
        <5>x. x = g[k + 1]
          OBVIOUS
        <5> HIDE DEF x
        <5>2. Append(h, x) \in Seq(V) /\ Len(Append(h, x)) = k + 1
              /\ Append(h, x)[k + 1] = x /\ \A i \in 1 .. k : Append(h, x)[i] = h[i]
          BY <4>5, <4>6, <5>1
        <5>3. \A i \in 1 .. k + 1 : i \in 1 .. k \/ i = k + 1
          OBVIOUS
        <5>4. \A i \in 1 .. k + 1 : g[i] = Append(h, x)[i]
          BY <4>1, <5>2, <5>3, <5>x
        <5>5. g = Append(h, x)
          <6> DEFINE y == Append(h, x)
          <6>1. y \in Seq(V) /\ Len(y) = k + 1 /\ \A i \in 1 .. k + 1 : g[i] = y[i]
            BY <5>2, <5>4
          <6> HIDE DEF y
          <6>2. g = y
            BY <4>5, <4>6, <6>1
          <6> QED BY <6>2 DEF y
        <5> QED BY <5>5, Zenon DEF x
      <4> QED BY <3>2, <4>2, <4>4, <4>7
    <3> QED BY <1>0, <3>1, <3>3, TotalAppend
  <2>4. Cols(k + 1) = [s \in 1 .. Servers |-> VPlus(Cols(k)[s], PadsOfClient(k + 1)[s])]
    <3>1. \A s \in 1 .. Servers : Cols(k)[s] = ServerSum(s, k)
      OBVIOUS
    <3> HIDE DEF ServerSum
    <3> QED BY <2>3, <3>1
  <2>5. Cols(k) \in [1 .. Servers -> V] /\ PadsOfClient(k + 1) \in [1 .. Servers -> V]
    BY <1>1, <2>0
  <2>6. Total(EncodedLen, Cols(k + 1)) = VPlus(Total(EncodedLen, Cols(k)), ClientSum(k + 1))
    <3> DEFINE us == Cols(k)
               vs == PadsOfClient(k + 1)
    <3>1. us \in [1 .. Servers -> Vec(EncodedLen)] /\ vs \in [1 .. Servers -> Vec(EncodedLen)]
      BY <2>5
    <3>2. Cols(k + 1) = [s \in 1 .. Servers |-> VPlus(us[s], vs[s])]
      BY <2>4
    <3> HIDE DEF us, vs, Cols
    <3>3. Total(EncodedLen, [s \in 1 .. Servers |-> VPlus(us[s], vs[s])])
            = VPlus(Total(EncodedLen, us), Total(EncodedLen, vs))
      BY <1>0, <3>1, TotalOfSums
    <3> QED BY <3>2, <3>3 DEF us, vs
  <2>7. Total(EncodedLen, ClientSums(k)) = Total(EncodedLen, Cols(k))
    BY <1>0, <1>3, <2>0
  <2> QED BY <2>2, <2>6, <2>7
<1> HIDE DEF A
<1>4. Nat \subseteq A
  BY <1>2, <1>3, NatSetInduction
<1>5. n \in A /\ n <= MaxClients
  BY <1>0, <1>4
<1> QED BY <1>5 DEF A

-----------------------------------------------------------------------------
(***************************************************************************)
(* Encoded tables.                                                         *)
(***************************************************************************)
LEMMA DivModIs ==
  ASSUME NEW n \in Nat, NEW d \in Nat \ {0}, NEW q \in Nat, NEW r \in 0 .. d - 1,
         n = q * d + r
  PROVE  n \div d = q /\ n % d = r
<1> DEFINE a == n \div d
           b == n % d
<1>1. n = d * a + b /\ b \in 0 .. d - 1 /\ a \in Nat /\ d \in Nat /\ d > 0
  OBVIOUS
<1>2. r \in Nat /\ r < d
  BY <1>1
<1> HIDE DEF a, b
<1>3. d * a = a * d
  BY <1>1
<1>4. ASSUME NEW x \in Nat, NEW y \in Nat, NEW z \in Nat, NEW w \in Nat,
             x * d + z = y * d + w, z < d, w < d
      PROVE  x <= y
  <2> SUFFICES ASSUME y < x PROVE FALSE
    OBVIOUS
  <2>1. PICK k \in Nat : x = y + 1 + k
    <3>1. x - y - 1 \in Nat /\ x = y + 1 + (x - y - 1)
      OBVIOUS
    <3> QED BY <3>1
  <2>2. x * d = y * d + d + k * d
    BY <1>1, <2>1
  <2>3. k * d \in Nat /\ y * d \in Nat
    BY <1>1
  <2> QED BY <1>1, <1>4, <2>2, <2>3
<1>5. a * d + b = q * d + r /\ b \in Nat /\ b < d
  BY <1>1, <1>3
<1>6. a <= q /\ q <= a
  BY <1>1, <1>2, <1>4, <1>5
<1>7. a = q
  BY <1>1, <1>6
<1>8. b = r
  <2>1. q * d \in Nat
    BY <1>1
  <2> QED BY <1>2, <1>5, <1>7, <2>1
<1> QED BY <1>7, <1>8 DEF a, b

\* Every cell has its place.
LEMMA CellPlaces ==
  ASSUME NEW c \in Cells
  PROVE  CellIdx(c) \in 1 .. NCells /\ CellAt(CellIdx(c)) = c
<1> DEFINE r == c[1]
           k == c[2]
           n == r * Delta + k
<1>1. /\ Gamma \in Nat \ {0} /\ Delta \in Nat \ {0} /\ c = <<r, k>>
      /\ r \in 0 .. Gamma - 1 /\ k \in 0 .. Delta - 1
  BY TableAssumption DEF Cells, Row, Column
<1> HIDE DEF r, k
<1>2. r * Delta \in Nat /\ n \in Nat /\ k < Delta /\ r \in Nat /\ k \in Nat
  BY <1>1
<1>3. n \div Delta = r /\ n % Delta = k
  <2>1. n = r * Delta + k
    OBVIOUS
  <2> HIDE DEF n
  <2> QED BY <1>1, <1>2, <2>1, DivModIs
<1>4. n + 1 <= Gamma * Delta
  <2>1. PICK d \in Nat : Gamma = r + 1 + d
    <3>1. Gamma - r - 1 \in Nat /\ Gamma = r + 1 + (Gamma - r - 1)
      BY <1>1
    <3> QED BY <3>1
  <2>2. Gamma * Delta = r * Delta + Delta + d * Delta
    BY <1>1, <2>1
  <2>3. d * Delta \in Nat
    BY <1>1
  <2> QED BY <1>1, <1>2, <2>2, <2>3
<1>5. CellIdx(c) = n + 1
  BY DEF CellIdx, r, k
<1> HIDE DEF n
<1>6. (n + 1) - 1 = n
  BY <1>2
<1>7. CellIdx(c) \in 1 .. NCells
  <2>1. NCells = Gamma * Delta /\ NCells \in Nat
    BY EncodedLenPositive DEF NCells
  <2> QED BY <1>2, <1>4, <1>5, <2>1
<1>8. CellAt(n + 1) = <<r, k>>
  BY <1>3, <1>6 DEF CellAt
<1> QED BY <1>1, <1>5, <1>7, <1>8

LEMMA PlacesAreCells ==
  ASSUME NEW i \in 1 .. NCells
  PROVE  CellAt(i) \in Cells
<1> DEFINE n == i - 1
           q == n \div Delta
           r == n % Delta
<1>1. Gamma \in Nat \ {0} /\ Delta \in Nat \ {0} /\ NCells = Gamma * Delta /\ NCells \in Nat
  BY TableAssumption, EncodedLenPositive DEF NCells
<1>2. n \in Nat /\ n < Gamma * Delta
  BY <1>1
<1>3. CellAt(i) = <<q, r>>
  BY DEF CellAt
<1> HIDE DEF n
<1>4. n = Delta * q + r /\ r \in 0 .. Delta - 1 /\ q \in Nat
  BY <1>1, <1>2
<1> HIDE DEF q, r
<1>5. q < Gamma
  <2> SUFFICES ASSUME Gamma <= q PROVE FALSE
    BY <1>1, <1>4
  <2>1. PICK d \in Nat : q = Gamma + d
    <3>1. q - Gamma \in Nat /\ q = Gamma + (q - Gamma)
      BY <1>1, <1>4
    <3> QED BY <3>1
  <2>2. Delta * q = Gamma * Delta + d * Delta
    BY <1>1, <2>1
  <2>3. d * Delta \in Nat /\ r \in Nat /\ Gamma * Delta \in Nat
    BY <1>1, <1>4
  <2> QED BY <1>2, <1>4, <2>2, <2>3
<1>6. q \in Row /\ r \in Column
  BY <1>1, <1>4, <1>5 DEF Row, Column
<1> QED BY <1>3, <1>6 DEF Cells

\* a and b joined.
Both(a, b) == a \o b

LEMMA BothFacts ==
  ASSUME NEW S, NEW a \in Seq(S), NEW b \in Seq(S)
  PROVE  /\ Both(a, b) \in Seq(S) /\ Len(Both(a, b)) = Len(a) + Len(b)
         /\ \A i \in 1 .. Len(a) : Both(a, b)[i] = a[i]
         /\ \A i \in Len(a) + 1 .. Len(a) + Len(b) : Both(a, b)[i] = b[i - Len(a)]
  BY DEF Both

LEMMA SeqIsFunction ==
  ASSUME NEW S, NEW n \in Nat, NEW s \in Seq(S), Len(s) = n
  PROVE  s \in [1 .. n -> S]
  OBVIOUS

\* Three parts of equal length, joined.
LEMMA ThreeParts ==
  ASSUME NEW S, NEW n \in Nat, NEW a \in Seq(S), NEW b \in Seq(S), NEW c \in Seq(S),
         Len(a) = n, Len(b) = n, Len(c) = n
  PROVE  /\ Both(Both(a, b), c) \in [1 .. 3 * n -> S]
         /\ \A i \in 1 .. n : /\ Both(Both(a, b), c)[i] = a[i]
                              /\ Both(Both(a, b), c)[n + i] = b[i]
                              /\ Both(Both(a, b), c)[2 * n + i] = c[i]
<1> DEFINE ab == Both(a, b)
           abc == Both(ab, c)
<1>2. /\ ab \in Seq(S) /\ Len(ab) = n + n
      /\ \A i \in 1 .. n : ab[i] = a[i] /\ ab[n + i] = b[i]
  <2>1. /\ ab \in Seq(S) /\ Len(ab) = Len(a) + Len(b)
        /\ \A i \in 1 .. Len(a) : ab[i] = a[i]
        /\ \A i \in Len(a) + 1 .. Len(a) + Len(b) : ab[i] = b[i - Len(a)]
    BY BothFacts
  <2> HIDE DEF ab
  <2>2. \A i \in 1 .. n : n + i \in n + 1 .. n + n /\ (n + i) - n = i
    OBVIOUS
  <2>3. \A i \in 1 .. n : ab[n + i] = b[i]
    BY <2>1, <2>2
  <2> QED BY <2>1, <2>3
<1> HIDE DEF ab
<1>3. /\ abc \in Seq(S) /\ Len(abc) = (n + n) + n
      /\ \A i \in 1 .. n + n : abc[i] = ab[i]
      /\ \A i \in 1 .. n : abc[(n + n) + i] = c[i]
  <2>1. /\ abc \in Seq(S) /\ Len(abc) = Len(ab) + Len(c)
        /\ \A i \in 1 .. Len(ab) : abc[i] = ab[i]
        /\ \A i \in Len(ab) + 1 .. Len(ab) + Len(c) : abc[i] = c[i - Len(ab)]
    BY <1>2, BothFacts
  <2> HIDE DEF abc
  <2>2. \A i \in 1 .. n : (n + n) + i \in (n + n) + 1 .. (n + n) + n /\ ((n + n) + i) - (n + n) = i
    OBVIOUS
  <2>3. \A i \in 1 .. n : abc[(n + n) + i] = c[i]
    BY <1>2, <2>1, <2>2
  <2> QED BY <1>2, <2>1, <2>3
<1>4. 3 * n = (n + n) + n /\ 2 * n = n + n /\ \A i \in 1 .. n : i \in 1 .. n + n /\ n + i \in 1 .. n + n
  OBVIOUS
<1> HIDE DEF abc
<1>5. abc \in [1 .. 3 * n -> S]
  <2>1. Len(abc) = 3 * n /\ 3 * n \in Nat
    BY <1>3, <1>4
  <2> QED BY <1>3, <2>1, SeqIsFunction
<1>6. \A i \in 1 .. n : abc[i] = a[i] /\ abc[n + i] = b[i] /\ abc[2 * n + i] = c[i]
  BY <1>2, <1>3, <1>4
<1> QED BY <1>5, <1>6, Zenon DEF abc, ab

LEMMA Thirds ==
  ASSUME NEW n \in Nat, NEW j \in 1 .. 3 * n
  PROVE  \E i \in 1 .. n : j = i \/ j = n + i \/ j = 2 * n + i
<1>1. CASE j <= n
  BY <1>1
<1>2. CASE n < j /\ j <= 2 * n
  <2>1. j - n \in 1 .. n /\ j = n + (j - n)
    BY <1>2
  <2> QED BY <2>1
<1>3. CASE 2 * n < j
  <2>1. j - 2 * n \in 1 .. n /\ j = 2 * n + (j - 2 * n)
    BY <1>3
  <2> QED BY <2>1
<1> QED BY <1>1, <1>2, <1>3

LEMMA EncodeAt ==
  ASSUME NEW t \in Tables
  PROVE  /\ EncodeAsFieldElements(t) \in Vec(EncodedLen)
         /\ \A i \in 1 .. NCells :
              /\ EncodeAsFieldElements(t)[i] = t[CellAt(i)].counter
              /\ EncodeAsFieldElements(t)[NCells + i] = t[CellAt(i)].key
              /\ EncodeAsFieldElements(t)[2 * NCells + i] = t[CellAt(i)].value
<1> DEFINE a == [i \in 1 .. NCells |-> t[CellAt(i)].counter]
           b == [i \in 1 .. NCells |-> t[CellAt(i)].key]
           c == [i \in 1 .. NCells |-> t[CellAt(i)].value]
<1>1. \A i \in 1 .. NCells :
        t[CellAt(i)].counter \in Field /\ t[CellAt(i)].key \in Field /\ t[CellAt(i)].value \in Field
  <2> TAKE i \in 1 .. NCells
  <2>1. t[CellAt(i)] \in [counter : Field, key : Field, value : Field]
    BY PlacesAreCells DEF Tables
  <2> QED BY <2>1
<1>2. /\ a \in Seq(Field) /\ Len(a) = NCells
      /\ b \in Seq(Field) /\ Len(b) = NCells
      /\ c \in Seq(Field) /\ Len(c) = NCells
  <2>1. NCells \in Nat
    BY EncodedLenPositive
  <2>2. \A f \in [1 .. NCells -> Field] : f \in Seq(Field) /\ Len(f) = NCells
    BY <2>1
  <2>3. a \in [1 .. NCells -> Field] /\ b \in [1 .. NCells -> Field] /\ c \in [1 .. NCells -> Field]
    BY <1>1
  <2> HIDE DEF a, b, c
  <2> QED BY <2>2, <2>3
<1>3. \A i \in 1 .. NCells :
        a[i] = t[CellAt(i)].counter /\ b[i] = t[CellAt(i)].key /\ c[i] = t[CellAt(i)].value
  OBVIOUS
<1>4. EncodeAsFieldElements(t) = Both(Both(a, b), c)
  BY Zenon DEF EncodeAsFieldElements, Both
<1> HIDE DEF a, b, c
<1> DEFINE e == Both(Both(a, b), c)
<1>5. NCells \in Nat /\ EncodedLen = 3 * NCells
  BY EncodedLenPositive
<1>6. e \in [1 .. 3 * NCells -> Field]
      /\ \A i \in 1 .. NCells :
           e[i] = a[i] /\ e[NCells + i] = b[i] /\ e[2 * NCells + i] = c[i]
  BY <1>2, <1>5, ThreeParts
<1>7. EncodeAsFieldElements(t) = e
  BY <1>4
<1> HIDE DEF e
<1> QED BY <1>3, <1>5, <1>6, <1>7 DEF Vec

\* What has been encoded is decoded.
LEMMA DecodeUndoesEncode ==
  ASSUME NEW t \in Tables
  PROVE  Decoded(EncodeAsFieldElements(t)) = t
<1> DEFINE e == EncodeAsFieldElements(t)
<1>1. \A i \in 1 .. NCells :
        /\ e[i] = t[CellAt(i)].counter
        /\ e[NCells + i] = t[CellAt(i)].key
        /\ e[2 * NCells + i] = t[CellAt(i)].value
  BY EncodeAt
<1> HIDE DEF e
<1>2. ASSUME NEW c \in Cells
      PROVE  [counter |-> e[CellIdx(c)], key |-> e[NCells + CellIdx(c)],
              value |-> e[2 * NCells + CellIdx(c)]] = t[c]
  <2>1. CellIdx(c) \in 1 .. NCells /\ CellAt(CellIdx(c)) = c
    BY CellPlaces
  <2>2. t[c] \in [counter : Field, key : Field, value : Field]
    BY DEF Tables
  <2>3. e[CellIdx(c)] = t[c].counter /\ e[NCells + CellIdx(c)] = t[c].key
        /\ e[2 * NCells + CellIdx(c)] = t[c].value
    BY <1>1, <2>1
  <2> QED BY <2>2, <2>3
<1>3. t = [c \in Cells |-> t[c]]
  BY DEF Tables
<1>4. Decoded(e) = [c \in Cells |-> t[c]]
  BY <1>2 DEF Decoded
<1> QED BY <1>3, <1>4 DEF e

\* Sums of encoded tables are encodings, if cell by cell they are.
LEMMA EncodeSum ==
  ASSUME NEW t \in Tables, NEW w \in Tables, NEW u \in Tables,
         \A c \in Cells : /\ u[c].counter = AddMod(t[c].counter, w[c].counter)
                          /\ u[c].key = AddMod(t[c].key, w[c].key)
                          /\ u[c].value = AddMod(t[c].value, w[c].value)
  PROVE  VPlus(EncodeAsFieldElements(t), EncodeAsFieldElements(w)) = EncodeAsFieldElements(u)
<1> DEFINE et == EncodeAsFieldElements(t)
           ew == EncodeAsFieldElements(w)
           eu == EncodeAsFieldElements(u)
<1>0. NCells \in Nat /\ EncodedLen \in Nat /\ EncodedLen = 3 * NCells
  BY EncodedLenPositive
<1>1. et \in Vec(EncodedLen) /\ ew \in Vec(EncodedLen) /\ eu \in Vec(EncodedLen)
  BY EncodeAt
<1>2. ASSUME NEW i \in 1 .. NCells
      PROVE  /\ eu[i] = AddMod(et[i], ew[i])
             /\ eu[NCells + i] = AddMod(et[NCells + i], ew[NCells + i])
             /\ eu[2 * NCells + i] = AddMod(et[2 * NCells + i], ew[2 * NCells + i])
  <2>1. CellAt(i) \in Cells
    BY PlacesAreCells
  <2>2. \A x \in Tables :
          /\ EncodeAsFieldElements(x)[i] = x[CellAt(i)].counter
          /\ EncodeAsFieldElements(x)[NCells + i] = x[CellAt(i)].key
          /\ EncodeAsFieldElements(x)[2 * NCells + i] = x[CellAt(i)].value
    BY EncodeAt
  <2> QED BY <2>1, <2>2
<1> HIDE DEF et, ew, eu
<1>3. ASSUME NEW j \in 1 .. EncodedLen PROVE VPlus(et, ew)[j] = eu[j]
  <2>1. VPlus(et, ew)[j] = AddMod(et[j], ew[j])
    BY <1>1 DEF VPlus, Vec
  <2>2. PICK i \in 1 .. NCells : j = i \/ j = NCells + i \/ j = 2 * NCells + i
    BY <1>0, Thirds
  <2> QED BY <1>2, <2>1, <2>2
<1>4. VPlus(et, ew) \in Vec(EncodedLen)
  BY <1>0, <1>1, VecLaws
<1>5. VPlus(et, ew) = eu
  BY <1>0, <1>1, <1>3, <1>4, VecEqual
<1> QED BY <1>5 DEF et, ew, eu

\* The encoding of the empty table is zero, and one entry more is its encoding
\* more.
LEMMA EncodeEmpty ==
  EncodeAsFieldElements(Empty) = ZeroVec(EncodedLen) /\ Empty \in Tables
<1>0. NCells \in Nat /\ EncodedLen \in Nat /\ EncodedLen = 3 * NCells
  BY EncodedLenPositive
<1>1. Empty \in Tables /\ ZeroVec(EncodedLen) \in Vec(EncodedLen)
  BY FieldAssumption DEF Empty, Tables, Zero, Field, ZeroVec, Vec
<1> DEFINE e == EncodeAsFieldElements(Empty)
<1>2. e \in Vec(EncodedLen)
  BY <1>1, EncodeAt
<1>3. ASSUME NEW i \in 1 .. NCells
      PROVE  e[i] = 0 /\ e[NCells + i] = 0 /\ e[2 * NCells + i] = 0
  <2>1. Empty[CellAt(i)] = Zero
    BY PlacesAreCells DEF Empty
  <2>2. Zero.counter = 0 /\ Zero.key = 0 /\ Zero.value = 0
    BY DEF Zero
  <2> QED BY <1>1, <2>1, <2>2, EncodeAt
<1> HIDE DEF e
<1>4. ASSUME NEW j \in 1 .. EncodedLen PROVE e[j] = ZeroVec(EncodedLen)[j]
  <2>1. PICK i \in 1 .. NCells : j = i \/ j = NCells + i \/ j = 2 * NCells + i
    BY <1>0, Thirds
  <2> QED BY <1>3, <2>1 DEF ZeroVec
<1>5. e = ZeroVec(EncodedLen)
  BY <1>0, <1>1, <1>2, <1>4, VecEqual
<1> QED BY <1>1, <1>5 DEF e

LEMMA EncodeWithEntry ==
  ASSUME NEW t \in Tables, NEW e \in Entries,
         WithEntry(t, e) \in Tables, WithEntry(Empty, e) \in Tables
  PROVE  VPlus(EncodeAsFieldElements(t), EncodeAsFieldElements(WithEntry(Empty, e)))
           = EncodeAsFieldElements(WithEntry(t, e))
<1> DEFINE w == WithEntry(Empty, e)
           u == WithEntry(t, e)
<1>0. 0 \in Field /\ e.key \in Field /\ e.value \in Field
  BY EntriesInField, FieldAssumption DEF Field
<1>1. ASSUME NEW c \in Cells
      PROVE  /\ u[c].counter = AddMod(t[c].counter, w[c].counter)
             /\ u[c].key = AddMod(t[c].key, w[c].key)
             /\ u[c].value = AddMod(t[c].value, w[c].value)
  <2>1. /\ t[c].counter \in Field /\ t[c].key \in Field /\ t[c].value \in Field
        /\ u[c].counter \in Field /\ w[c].counter \in Field
    BY DEF Tables
  <2>2. Empty[c] = Zero /\ Empty \in AnyTables /\ t \in AnyTables
    BY EmptyTable, TablesAreAny DEF Empty
  <2>3. Zero.counter = 0 /\ Zero.key = 0 /\ Zero.value = 0
    BY DEF Zero
  <2>4. CASE c \in CellsOf(e.key)
    <3>1. w[c] = Plus(Zero, e) /\ u[c] = Plus(t[c], e)
      BY <2>2, <2>4, WithEntryAt
    <3>2. /\ w[c].counter = 0 + 1 /\ w[c].key = AddMod(0, e.key) /\ w[c].value = AddMod(0, e.value)
          /\ u[c].counter = t[c].counter + 1
          /\ u[c].key = AddMod(t[c].key, e.key) /\ u[c].value = AddMod(t[c].value, e.value)
      BY <2>3, <3>1 DEF Plus
    <3>3. AddMod(0, e.key) = e.key /\ AddMod(0, e.value) = e.value
      BY <1>0, AddModLaws
    <3>4. AddMod(t[c].counter, w[c].counter) = t[c].counter + 1
      <4> DEFINE x == t[c].counter
                 y == x + 1
      <4>1. y \in 0 .. 2 * P - 1 /\ y < P
        BY <2>1, <3>2, FieldAssumption DEF Field
      <4> HIDE DEF y
      <4>2. y % P = y
        BY <4>1, ModOnce
      <4>3. w[c].counter = 1
        BY <3>2
      <4> QED BY <4>2, <4>3 DEF AddMod, y
    <3> QED BY <3>2, <3>3, <3>4
  <2>5. CASE c \notin CellsOf(e.key)
    <3>1. w[c] = Zero /\ u[c] = t[c]
      BY <2>2, <2>5, WithEntryAt
    <3>2. \A x \in Field : AddMod(x, 0) = x
      BY AddModLaws
    <3> QED BY <2>1, <2>3, <3>1, <3>2
  <2> QED BY <2>4, <2>5
<1>2. w \in Tables /\ u \in Tables
  OBVIOUS
<1> HIDE DEF w, u
<1>3. VPlus(EncodeAsFieldElements(t), EncodeAsFieldElements(w)) = EncodeAsFieldElements(u)
  BY <1>1, <1>2, EncodeSum
<1> QED BY <1>3 DEF w, u

-----------------------------------------------------------------------------
(***************************************************************************)
(* The vectors of a round.                                                 *)
(***************************************************************************)
PadTotals(n) == [i \in 1 .. n |-> Total(EncodedLen, PadsOfClient(i))]

\* The vectors vs add up to table t and the pads of those who blinded them.
Blinded(vs, t) ==
  /\ vs \in Seq(Vec(EncodedLen)) /\ Len(vs) <= MaxClients
  /\ Total(EncodedLen, vs)
       = VPlus(EncodeAsFieldElements(t), Total(EncodedLen, PadTotals(Len(vs))))

LEMMA PadTotalsFacts ==
  /\ PadTotals(0) = <<>>
  /\ \A n \in 0 .. MaxClients : PadTotals(n) \in Seq(Vec(EncodedLen))
  /\ \A n \in Nat : n + 1 <= MaxClients =>
       PadTotals(n + 1) = Append(PadTotals(n), Total(EncodedLen, PadsOfClient(n + 1)))
<1> DEFINE V == Vec(EncodedLen)
           g(i) == Total(EncodedLen, PadsOfClient(i))
<1>0. MaxClients \in Nat
  BY RoundAssumption
<1>1. \A i \in 1 .. MaxClients : g(i) \in V
  BY RowsAndColumns
<1>2. \A n : PadTotals(n) = [i \in 1 .. n |-> g(i)]
  BY DEF PadTotals
<1>3. V = Vec(EncodedLen) /\ \A i : g(i) = Total(EncodedLen, PadsOfClient(i))
  OBVIOUS
<1> HIDE DEF V, g
<1>4. PadTotals(0) = <<>>
  BY <1>2
<1>5. ASSUME NEW n \in 0 .. MaxClients PROVE PadTotals(n) \in Seq(V)
  <2>1. n \in Nat /\ \A i \in 1 .. n : g(i) \in V
    BY <1>0, <1>1
  <2> QED BY <1>2, <2>1
<1>6. ASSUME NEW n \in Nat, n + 1 <= MaxClients
      PROVE  PadTotals(n + 1) = Append(PadTotals(n), g(n + 1))
  <2>1. \A i \in 1 .. n + 1 : g(i) \in V
    BY <1>0, <1>1, <1>6
  <2> DEFINE a == [i \in 1 .. n |-> g(i)]
             b == [i \in 1 .. n + 1 |-> g(i)]
  <2>2. a \in Seq(V) /\ b \in Seq(V) /\ Len(a) = n /\ Len(b) = n + 1
    BY <2>1
  <2>3. g(n + 1) \in V
    BY <2>1
  <2>4. \A i \in 1 .. n : a[i] = g(i) /\ b[i] = g(i)
    OBVIOUS
  <2>5. b[n + 1] = g(n + 1)
    OBVIOUS
  <2>6. PadTotals(n) = a /\ PadTotals(n + 1) = b
    BY <1>2
  <2> HIDE DEF a, b
  <2>7. b = Append(a, g(n + 1))
    BY <2>2, <2>3, <2>4, <2>5
  <2> QED BY <2>6, <2>7
<1> QED BY <1>3, <1>4, <1>5, <1>6

\* No vectors, no table.
LEMMA BlindedNone == Blinded(<<>>, Empty)
<1>1. <<>> \in Seq(Vec(EncodedLen)) /\ Len(<<>>) = 0
  OBVIOUS
<1>2. Total(EncodedLen, <<>>) = ZeroVec(EncodedLen) /\ PadTotals(0) = <<>>
  BY EncodedLenPositive, TotalAppend, PadTotalsFacts
<1>3. ZeroVec(EncodedLen) \in Vec(EncodedLen)
  BY FieldAssumption DEF ZeroVec, Vec, Field
<1>4. VPlus(ZeroVec(EncodedLen), ZeroVec(EncodedLen)) = ZeroVec(EncodedLen)
  BY <1>3, EncodedLenPositive, VecLaws
<1>5. EncodeAsFieldElements(Empty) = ZeroVec(EncodedLen)
  BY EncodeEmpty
<1> QED BY <1>1, <1>2, <1>4, <1>5, RoundAssumption DEF Blinded

\* One client more.
LEMMA BlindedMore ==
  ASSUME NEW vs, NEW t \in Tables, Blinded(vs, t), Len(vs) < MaxClients,
         NEW w \in Tables, NEW u \in Tables, NEW avx2 \in BOOLEAN,
         VPlus(EncodeAsFieldElements(t), EncodeAsFieldElements(w)) = EncodeAsFieldElements(u)
  PROVE  Blinded(Append(vs, ClientBlind(Len(vs) + 1, EncodeAsFieldElements(w), avx2)), u)
<1> DEFINE V == Vec(EncodedLen)
           n == Len(vs)
           et == EncodeAsFieldElements(t)
           ew == EncodeAsFieldElements(w)
           eu == EncodeAsFieldElements(u)
           pad == Total(EncodedLen, PadsOfClient(n + 1))
           pads == Total(EncodedLen, PadTotals(n))
           x == ClientBlind(n + 1, ew, avx2)
<1>0. vs \in Seq(V) /\ n \in Nat /\ n + 1 <= MaxClients /\ MaxClients \in Nat /\ EncodedLen \in Nat
  BY RoundAssumption, EncodedLenPositive DEF Blinded
<1>1. et \in V /\ ew \in V /\ eu \in V
  BY EncodeAt
<1>2. n + 1 \in 1 .. MaxClients /\ n \in 0 .. MaxClients
  BY <1>0
<1>3. pad \in V /\ ClientPad[n + 1][avx2] = pad
  BY <1>2, RowsAndColumns
<1>4. PadTotals(n) \in Seq(V) /\ PadTotals(n + 1) = Append(PadTotals(n), pad)
  BY <1>0, <1>2, PadTotalsFacts
<1>5. pads \in V /\ Total(EncodedLen, PadTotals(n + 1)) = VPlus(pads, pad)
  <2>1. \A s \in Seq(V), v \in V :
          /\ Total(EncodedLen, s) \in V
          /\ Total(EncodedLen, Append(s, v)) = VPlus(Total(EncodedLen, s), v)
    BY <1>0, TotalOfAppend
  <2> HIDE DEF V, pad
  <2> QED BY <1>3, <1>4, <2>1
<1>6. x = VPlus(ew, pad)
  BY <1>0, <1>1, <1>3, SlicesOfVec DEF ClientBlind
<1>7. x \in V
  BY <1>0, <1>1, <1>3, <1>6, VecLaws
<1>8. Total(EncodedLen, vs) = VPlus(et, pads)
  BY DEF Blinded
<1>9. Total(EncodedLen, Append(vs, x)) = VPlus(VPlus(et, pads), VPlus(ew, pad))
  <2>1. Total(EncodedLen, Append(vs, x)) = VPlus(Total(EncodedLen, vs), x)
    BY <1>0, <1>7, TotalAppend
  <2> QED BY <2>1, <1>6, <1>8
<1>10. VPlus(VPlus(et, pads), VPlus(ew, pad)) = VPlus(VPlus(et, ew), VPlus(pads, pad))
  BY <1>0, <1>1, <1>3, <1>5, VecInterchange
<1>11. VPlus(et, ew) = eu
  OBVIOUS
<1>12. Total(EncodedLen, Append(vs, x)) = VPlus(eu, Total(EncodedLen, PadTotals(n + 1)))
  BY <1>5, <1>9, <1>10, <1>11
<1>13. V = Vec(EncodedLen)
  OBVIOUS
<1> HIDE DEF V, x, eu
<1>14. Append(vs, x) \in Seq(V) /\ Len(Append(vs, x)) = n + 1
  BY <1>0, <1>7
<1>15. Blinded(Append(vs, x), u)
  BY <1>0, <1>12, <1>13, <1>14 DEF Blinded, eu
<1> QED BY <1>15 DEF x

\* What the leader opens.
Opened(vs, n_threads, avx2, hosts) ==
  Decoded(CombinePartials(
    AggregateInto([i \in 1 .. EncodedLen |-> 0], vs, n_threads, avx2),
    [s \in 1 .. Servers |-> ServerShare[s][Len(vs)][hosts[s]]], avx2))

LEMMA BlindedOpens ==
  ASSUME NEW vs, NEW t \in Tables, Blinded(vs, t), vs # <<>>,
         NEW n_threads \in Threads, NEW avx2 \in BOOLEAN, NEW hosts \in [1 .. Servers -> BOOLEAN]
  PROVE  Opened(vs, n_threads, avx2, hosts) = t
<1> DEFINE V == Vec(EncodedLen)
           n == Len(vs)
           et == EncodeAsFieldElements(t)
           shares == [s \in 1 .. Servers |-> ServerShare[s][n][hosts[s]]]
           columns == [s \in 1 .. Servers |-> Total(EncodedLen, PadsOfServer(s, n))]
           agg == AggregateInto([i \in 1 .. EncodedLen |-> 0], vs, n_threads, avx2)
           sum == Total(EncodedLen, vs)
<1>0. vs \in Seq(V) /\ n \in Nat /\ n > 0 /\ n <= MaxClients /\ MaxClients \in Nat
      /\ EncodedLen \in Nat /\ Servers \in Nat
  BY RoundAssumption, EncodedLenPositive DEF Blinded
<1>1. n \in 0 .. MaxClients
  BY <1>0
<1>2. ZeroVec(EncodedLen) \in V
  BY FieldAssumption DEF ZeroVec, Vec, Field
<1>3. sum \in V
  BY <1>0, TotalAppend
<1>4. agg = sum
  <2>1. n_threads \in Nat \ {0}
    BY RoundAssumption
  <2>2. AggregateInto(ZeroVec(EncodedLen), vs, n_threads, avx2) = VPlus(ZeroVec(EncodedLen), sum)
    BY <1>0, <1>2, <2>1, AggregateIsTotal
  <2>3. VPlus(ZeroVec(EncodedLen), sum) = sum
    BY <1>0, <1>3, VecLaws
  <2> QED BY <2>2, <2>3 DEF ZeroVec
<1>5. shares = columns
  <2>1. \A s \in 1 .. Servers : ServerShare[s][n][hosts[s]] = Total(EncodedLen, PadsOfServer(s, n))
    BY <1>0, <1>1, RowsAndColumns
  <2> QED BY <2>1
<1>6. columns \in Seq(V)
  <2>1. \A s \in 1 .. Servers : Total(EncodedLen, PadsOfServer(s, n)) \in V
    BY <1>1, RowsAndColumns
  <2> HIDE DEF V
  <2> QED BY <1>0, <2>1
<1>7. sum = VPlus(et, Total(EncodedLen, columns))
  <2>1. sum = VPlus(et, Total(EncodedLen, PadTotals(n)))
    BY DEF Blinded
  <2>2. Total(EncodedLen, PadTotals(n)) = Total(EncodedLen, columns)
    BY <1>1, PadsCancel DEF PadTotals
  <2> QED BY <2>1, <2>2
<1>8. et \in V
  BY EncodeAt
<1>9. CombinePartials(agg, shares, avx2) = et
  <2> HIDE DEF et, columns, shares, agg, sum
  <2>1. SubAll(VPlus(et, Total(EncodedLen, columns)), columns, avx2) = et
    BY <1>0, <1>6, <1>8, SubAllUndoes
  <2> QED BY <1>4, <1>5, <1>7, <2>1 DEF CombinePartials
<1>10. Decoded(et) = t
  BY DecodeUndoesEncode
<1> QED BY <1>9, <1>10 DEF Opened

-----------------------------------------------------------------------------
(***************************************************************************)
(* The inductive invariant of a round.                                     *)
(***************************************************************************)
\* While vectors come in they add up to the table of all entries, and when
\* there are none the table is that one.
BlindedSum == Blinded(vectors, Encoded(inserted))

RInv ==
  /\ PeelInv
  /\ vectors = <<>> => Whole
  /\ vectors # <<>> => working = None /\ ~poisoned /\ BlindedSum

LEMMA BlindedSumFrame ==
  ASSUME BlindedSum, UNCHANGED <<chunk_index, inserted, vectors>>
  PROVE  BlindedSum'
<1>1. PICK vs, s : vs = vectors /\ s = inserted
  OBVIOUS
<1>2. Encoded(s)' = Encoded(s)
  BY EncodedFrame
<1>3. vectors' = vs /\ inserted' = s
  BY <1>1
<1>4. Blinded(vs, Encoded(s)) /\ Blinded(vs, Encoded(s))'
  BY <1>1, <1>2 DEF BlindedSum
<1> QED BY <1>3, <1>4 DEF BlindedSum

\* What changes the inserted entries, or the table, before recover has begun.
LEMMA PeelInvBefore ==
  ASSUME PeelInv, working = None,
         UNCHANGED <<chunk_index, poisoned, working, queue, head, recovered, result>>,
         inserted' \in Seq(Entries), Len(inserted') <= MaxInserts, table' \in Tables
  PROVE  PeelInv'
<1>1. TypeOK'
  BY DEF PeelInv, TypeOK
<1>2. Idle' /\ QueueBound' /\ Outcome' /\ Inserts'
  BY DEF PeelInv, Idle, QueueBound, Outcome, AllZero, Inserts
<1>3. Explains' /\ RowsCounted' /\ Remaining' /\ Queued'
  BY DEF Explains, RowsCounted, Remaining, Queued
<1> QED BY <1>1, <1>2, <1>3 DEF PeelInv

\* The table of the entries of one client more.
LEMMA ContributionAdds ==
  ASSUME NEW s \in Seq(Entries), NEW entries \in Seq(Entries),
         entries = <<>> \/ \E e \in Entries : entries = <<e>>,
         Len(s \o entries) <= MaxInserts
  PROVE  /\ Encoded(s) \in Tables /\ Encoded(entries) \in Tables
         /\ Encoded(s \o entries) \in Tables
         /\ VPlus(EncodeAsFieldElements(Encoded(s)), EncodeAsFieldElements(Encoded(entries)))
              = EncodeAsFieldElements(Encoded(s \o entries))
<1>1. CASE entries = <<>>
  <2>1. s \o entries = s /\ Encoded(entries) = Empty
    BY <1>1, EncodedAppend
  <2>2. Encoded(s) \in Tables
    BY <2>1, EncodedInTables
  <2>3. EncodeAsFieldElements(Encoded(s)) \in Vec(EncodedLen)
    BY <2>2, EncodeAt
  <2> DEFINE es == EncodeAsFieldElements(Encoded(s))
  <2>4. VPlus(es, ZeroVec(EncodedLen)) = es
    BY <2>3, EncodedLenPositive, VecLaws
  <2> QED BY <2>1, <2>2, <2>4, EncodeEmpty
<1>2. ASSUME NEW e \in Entries, entries = <<e>> PROVE entries = Append(<<>>, e)
  BY <1>2
<1>3. ASSUME NEW e \in Entries, entries = <<e>>
      PROVE  /\ Encoded(s) \in Tables /\ Encoded(entries) \in Tables
             /\ Encoded(s \o entries) \in Tables
             /\ VPlus(EncodeAsFieldElements(Encoded(s)), EncodeAsFieldElements(Encoded(entries)))
                  = EncodeAsFieldElements(Encoded(s \o entries))
  <2>1. s \o entries = Append(s, e) /\ Append(s, e) \in Seq(Entries)
        /\ Len(Append(s, e)) = Len(s) + 1 /\ Len(s) \in Nat
    BY <1>3
  <2>2. <<>> \in Seq(Entries) /\ Encoded(<<>>) = Empty
    BY EncodedAppend
  <2>3. Encoded(Append(s, e)) = WithEntry(Encoded(s), e)
        /\ Encoded(entries) = WithEntry(Empty, e)
    <3>1. Encoded(Append(<<>>, e)) = WithEntry(Encoded(<<>>), e)
      BY <2>2, EncodedAppend
    <3>2. entries = Append(<<>>, e)
      BY <1>3
    <3> QED BY <2>2, <3>1, <3>2, EncodedAppend
  <2>4. Len(s) <= MaxInserts /\ Len(Append(s, e)) <= MaxInserts /\ 1 <= MaxInserts
    BY <2>1, TableAssumption
  <2>5. Encoded(s) \in Tables /\ Encoded(Append(s, e)) \in Tables
    BY <2>1, <2>4, EncodedInTables
  <2>6. Len(entries) <= MaxInserts
    BY <1>3, <2>4
  <2>7. Encoded(entries) \in Tables
    BY <2>6, EncodedInTables
  <2>8. VPlus(EncodeAsFieldElements(Encoded(s)), EncodeAsFieldElements(WithEntry(Empty, e)))
          = EncodeAsFieldElements(WithEntry(Encoded(s), e))
    BY <2>3, <2>5, <2>7, EncodeWithEntry
  <2> QED BY <2>1, <2>3, <2>5, <2>7, <2>8
<1> QED BY <1>1, <1>3

LEMMA ContributeRInv ==
  ASSUME RInv, NEW entries \in Seq(Entries), NEW avx2 \in BOOLEAN,
         entries = <<>> \/ \E e \in Entries : entries = <<e>>,
         client_contribute(entries, avx2)
  PROVE  RInv'
<1>v. PICK vs : vs = vectors
  OBVIOUS
<1>s. PICK s \in Seq(Entries) : s = inserted
  BY DEF RInv, PeelInv, TypeOK
<1>1. vs = vectors /\ s = inserted
  BY <1>v, <1>s
<1>2. /\ working = None /\ ~poisoned /\ (vs = <<>> => s = <<>>)
      /\ Len(vs) < MaxClients /\ Len(s \o entries) <= MaxInserts
      /\ vectors' = Append(vs,
           ClientBlind(Len(vs) + 1, EncodeAsFieldElements(Encoded(entries)), avx2))
      /\ inserted' = s \o entries
      /\ UNCHANGED <<chunk_index, poisoned, table, working, queue, head, recovered, result>>
  BY <1>1 DEF client_contribute
<1>3. Blinded(vs, Encoded(s))
  <2>1. CASE vs = <<>>
    BY <1>2, <2>1, BlindedNone, EncodedAppend
  <2>2. CASE vs # <<>>
    BY <1>1, <2>2 DEF RInv, BlindedSum
  <2> QED BY <2>1, <2>2
<1>4. PICK u \in Seq(Entries) : u = s \o entries
  <2>1. s \o entries \in Seq(Entries)
    OBVIOUS
  <2> QED BY <2>1, Zenon
<1>5. /\ Encoded(s) \in Tables /\ Encoded(entries) \in Tables /\ Encoded(u) \in Tables
      /\ VPlus(EncodeAsFieldElements(Encoded(s)), EncodeAsFieldElements(Encoded(entries)))
           = EncodeAsFieldElements(Encoded(u))
  BY <1>2, <1>4, ContributionAdds
<1>6. PICK x : x = ClientBlind(Len(vs) + 1, EncodeAsFieldElements(Encoded(entries)), avx2)
  OBVIOUS
<1>7. Blinded(Append(vs, x), Encoded(u))
  BY <1>2, <1>3, <1>5, <1>6, BlindedMore
<1>8. PICK us : us = Append(vs, x) /\ us # <<>>
  <2>1. Append(vs, x) \in Seq(Vec(EncodedLen)) /\ vs \in Seq(Vec(EncodedLen))
    BY <1>3, <1>7 DEF Blinded
  <2>2. Len(Append(vs, x)) # 0
    BY <2>1
  <2>3. Append(vs, x) # <<>>
    BY <2>2
  <2> QED BY <2>3, Zenon
<1>9. vectors' = us /\ inserted' = u /\ vectors' # <<>>
  BY <1>2, <1>4, <1>6, <1>8
<1>10. Blinded(us, Encoded(u))'
  <2>1. Encoded(u)' = Encoded(u)
    BY <1>2, EncodedFrame
  <2> QED BY <1>7, <1>8, <2>1
<1>11. BlindedSum'
  BY <1>9, <1>10 DEF BlindedSum
<1>12. PeelInv'
  <2>1. PeelInv
    BY DEF RInv
  <2>2. table' \in Tables
    BY <1>2, <2>1 DEF PeelInv, TypeOK
  <2>3. inserted' \in Seq(Entries) /\ Len(inserted') <= MaxInserts
    BY <1>2, <1>4, <1>9
  <2> QED BY <1>2, <2>1, <2>2, <2>3, PeelInvBefore
<1> QED BY <1>2, <1>9, <1>11, <1>12 DEF RInv

LEMMA CombineRInv ==
  ASSUME RInv, NEW n_threads \in Threads, NEW avx2 \in BOOLEAN,
         NEW hosts \in [1 .. Servers -> BOOLEAN], combine_partials(n_threads, avx2, hosts)
  PROVE  RInv'
<1>v. PICK vs : vs = vectors
  OBVIOUS
<1>s. PICK s \in Seq(Entries) : s = inserted
  BY DEF RInv, PeelInv, TypeOK
<1>1. vs = vectors /\ s = inserted
  BY <1>v, <1>s
<1>2. vs # <<>> /\ working = None /\ ~poisoned /\ Blinded(vs, Encoded(s)) /\ Len(s) <= MaxInserts
  <2>1. vectors # <<>>
    BY DEF combine_partials
  <2>2. working = None /\ ~poisoned /\ Blinded(vectors, Encoded(inserted))
    BY <2>1 DEF RInv, BlindedSum
  <2>3. Len(inserted) <= MaxInserts
    BY DEF RInv, PeelInv, Inserts
  <2> QED BY <1>1, <2>1, <2>2, <2>3
<1>3. Encoded(s) \in Tables
  BY <1>2, EncodedInTables
<1>4. table' = Opened(vs, n_threads, avx2, hosts)
      /\ vectors' = <<>>
      /\ UNCHANGED <<chunk_index, inserted, poisoned, working, queue, head, recovered, result>>
  BY <1>1 DEF combine_partials, Opened
<1>5. table' = Encoded(s)
  BY <1>2, <1>3, <1>4, BlindedOpens
<1>6. PeelInv'
  <2>1. PeelInv
    BY DEF RInv
  <2>2. inserted' \in Seq(Entries) /\ Len(inserted') <= MaxInserts /\ table' \in Tables
    BY <1>1, <1>2, <1>3, <1>4, <1>5
  <2> QED BY <1>2, <1>4, <2>1, <2>2, PeelInvBefore
<1>7. Whole'
  <2>1. Encoded(s)' = Encoded(s) /\ inserted' = s
    BY <1>1, <1>4, EncodedFrame
  <2> QED BY <1>5, <2>1 DEF Whole
<1> QED BY <1>4, <1>6, <1>7 DEF RInv

\* Whatever comes of a round, and of peeling the table.
THEOREM RoundInvariant == RoundSpec => []RInv
<1>1. RoundInit => RInv
  BY InitIInv DEF RoundInit, RInv, IInv
<1>2. RInv /\ [RoundNext]_roundVars => RInv'
  <2> SUFFICES ASSUME RInv, [RoundNext]_roundVars PROVE RInv'
    OBVIOUS
  <2>1. ASSUME NEW avx2 \in BOOLEAN, client_contribute(<<>>, avx2) PROVE RInv'
    <3>1. <<>> \in Seq(Entries)
      OBVIOUS
    <3> QED BY <2>1, <3>1, ContributeRInv
  <2>2. ASSUME NEW avx2 \in BOOLEAN, NEW e \in Contributions, client_contribute(<<e>>, avx2)
        PROVE  RInv'
    <3>1. e \in Entries /\ <<e>> \in Seq(Entries)
      BY RoundAssumption
    <3> QED BY <2>2, <3>1, ContributeRInv
  <2>3. ASSUME NEW avx2 \in BOOLEAN, NEW n \in Threads, NEW hosts \in [1 .. Servers -> BOOLEAN],
               combine_partials(n, avx2, hosts)
        PROVE  RInv'
    BY <2>3, CombineRInv
  <2>4. ASSUME vectors = <<>>, [Next]_vars, UNCHANGED vectors PROVE RInv'
    BY <2>4, NextIInv DEF RInv, IInv
  <2>5. ASSUME vectors # <<>>, UNCHANGED roundVars PROVE RInv'
    <3>1. UNCHANGED <<chunk_index, inserted, vectors>> /\ UNCHANGED vars
      BY <2>5 DEF roundVars, vars, input
    <3>2. BlindedSum'
      BY <2>5, <3>1, BlindedSumFrame DEF RInv
    <3>3. PeelInv'
      <4>1. PeelInv /\ working = None
        BY <2>5 DEF RInv
      <4>2. inserted \in Seq(Entries) /\ Len(inserted) <= MaxInserts /\ table \in Tables
        BY <4>1 DEF PeelInv, TypeOK, Inserts
      <4>3. UNCHANGED <<chunk_index, inserted, poisoned, table, working, queue, head,
                        recovered, result>>
        BY <3>1 DEF vars, input
      <4>4. inserted' \in Seq(Entries) /\ Len(inserted') <= MaxInserts /\ table' \in Tables
        BY <4>2, <4>3
      <4> QED BY <4>1, <4>3, <4>4, PeelInvBefore
    <3> QED BY <2>5, <3>1, <3>2, <3>3 DEF RInv, vars, input
  <2>6. CASE UNCHANGED roundVars
    BY <2>4, <2>5, <2>6 DEF roundVars
  <2>7. CASE vectors = <<>> /\ Next /\ UNCHANGED vectors
    BY <2>4, <2>7
  <2> QED BY <2>1, <2>2, <2>3, <2>6, <2>7 DEF RoundNext
<1> QED BY <1>1, <1>2, PTL DEF RoundSpec

-----------------------------------------------------------------------------
(***************************************************************************)
(* The theorems about a round.                                             *)
(***************************************************************************)
\* The table that comes out of a round is that of all entries together, for
\* every field, any number of servers and clients, whatever keystreams they
\* share, on any machines and with any number of threads.
THEOREM RoundCarries == RoundSpec => []RoundCarriesTables
<1>1. RInv => RoundCarriesTables
  BY DEF RInv, Whole, RoundCarriesTables
<1> QED BY <1>1, RoundInvariant, PTL

\* No word of a keystream goes into two elements of a pad, and none is left out
\* but those that were rejected, however often the buffer is refilled.
THEOREM PadsAreFresh == RoundSpec => []PadsUseFreshWords
<1>1. ASSUME RInv, vectors # <<>>, NEW s \in 1 .. Servers, NEW n \in 0 .. EncodedLen
      PROVE  SingleFieldPad(Keystream[<<Len(vectors), s>>], n)
               = SubSeq(Candidates(Keystream[<<Len(vectors), s>>]), 1, n)
  <2> DEFINE x == <<Len(vectors), s>>
  <2>1. vectors \in Seq(Vec(EncodedLen)) /\ Len(vectors) <= MaxClients
    BY <1>1 DEF RInv, BlindedSum, Blinded
  <2>2. Len(vectors) \in Nat /\ Len(vectors) # 0 /\ MaxClients \in Nat
    BY <1>1, <2>1, RoundAssumption
  <2>3. Len(vectors) \in 1 .. MaxClients
    BY <2>1, <2>2
  <2>4. x \in Secrets
    BY <2>3 DEF Secrets
  <2> HIDE DEF x
  <2>5. Keystream[x] \in Seq(Words) /\ Suffices(Keystream[x], EncodedLen)
    BY <2>4, RoundAssumption
  <2>6. SingleFieldPad(Keystream[x], n) = SubSeq(Candidates(Keystream[x]), 1, n)
    BY <2>5, EncodedLenPositive, PadIsPrefix
  <2> QED BY <2>6 DEF x
<1>2. RInv => PadsUseFreshWords
  BY <1>1 DEF PadsUseFreshWords
<1> QED BY <1>2, RoundInvariant, PTL

\* As many words give one element as give another.
LEMMA AsManyPreimages ==
  ASSUME NEW x \in Field
  PROVE  Cardinality({w \in Words : IsCandidate(w) /\ w % P = x}) = Word \div P
<1> DEFINE q == Word \div P
           K == 0 .. q - 1
           S == {w \in Words : IsCandidate(w) /\ w % P = x}
           f == [k \in K |-> k * P + x]
<1>1. P \in Nat \ {0} /\ Word \in Nat /\ x \in 0 .. P - 1 /\ q \in Nat
  BY FieldAssumption DEF Word, Field
<1>2. q * P <= Word
  <2>1. Word = P * q + (Word % P) /\ Word % P \in 0 .. P - 1
    BY <1>1
  <2> HIDE DEF q
  <2>2. P * q = q * P /\ q * P \in Nat
    BY <1>1
  <2> QED BY <1>1, <2>1, <2>2
<1>3. \A w : w \in S <=> w \in Nat /\ w < q * P /\ w % P = x
  <2>1. q * P \in Nat
    BY <1>1
  <2>2. \A w : w \in Words <=> w \in Nat /\ w < Word
    BY <1>1 DEF Words
  <2>3. \A w : IsCandidate(w) <=> w < q * P
    BY DEF IsCandidate, FIELD_SAMPLE_THRESHOLD
  <2> HIDE DEF q
  <2> QED BY <1>1, <1>2, <2>1, <2>2, <2>3
<1> HIDE DEF q, S
<1>4. ASSUME NEW k \in K
      PROVE  k * P + x \in S /\ (k * P + x) \div P = k
  <2> DEFINE n == k * P + x
  <2>1. k \in Nat /\ k * P \in Nat /\ n \in Nat /\ n = k * P + x
    BY <1>1
  <2>2. PICK d \in Nat : q = k + 1 + d
    <3>1. q - k - 1 \in Nat /\ q = k + 1 + (q - k - 1)
      BY <1>1
    <3> QED BY <3>1
  <2>3. q * P = k * P + P + d * P /\ d * P \in Nat
    BY <1>1, <2>1, <2>2
  <2> HIDE DEF n
  <2>4. n < q * P
    BY <1>1, <2>1, <2>3
  <2>5. n \div P = k /\ n % P = x
    BY <1>1, <2>1, DivModIs
  <2> QED BY <1>3, <2>1, <2>4, <2>5 DEF n
<1>5. \A k \in K : f[k] \in S /\ f[k] \div P = k
  BY <1>4
<1>6. ASSUME NEW w \in S PROVE \E k \in K : f[k] = w
  <2> DEFINE k == w \div P
  <2>1. w \in Nat /\ w < q * P /\ w % P = x
    BY <1>3
  <2>2. w = P * k + (w % P) /\ k \in Nat
    BY <1>1, <2>1
  <2> HIDE DEF k
  <2>3. P * k = k * P /\ k * P \in Nat
    BY <1>1, <2>2
  <2>4. k < q
    <3> SUFFICES ASSUME q <= k PROVE FALSE
      BY <1>1, <2>2
    <3>1. PICK d \in Nat : k = q + d
      <4>1. k - q \in Nat /\ k = q + (k - q)
        BY <1>1, <2>2
      <4> QED BY <4>1
    <3>2. k * P = q * P + d * P /\ d * P \in Nat /\ q * P \in Nat
      BY <1>1, <3>1
    <3> QED BY <1>1, <2>1, <2>2, <2>3, <3>2
  <2>5. k \in K
    BY <1>1, <2>2, <2>4
  <2>6. f[k] = w
    BY <2>1, <2>2, <2>3, <2>5
  <2> QED BY <2>5, <2>6
<1>7. f \in [K -> S]
  BY <1>4
<1> HIDE DEF f, K
<1>8. f \in Bijection(K, S)
  <2>1. \A a, b \in K : f[a] = f[b] => a = b
    BY <1>5
  <2> QED BY <1>6, <1>7, <2>1, Fun_IsBij
<1>9. ExistsBijection(K, S)
  BY <1>8 DEF ExistsBijection
<1>10. IsFiniteSet(K) /\ Cardinality(K) = q
  <2>1. 0 \in Int /\ q - 1 \in Int
    BY <1>1
  <2> QED BY <1>1, <2>1, FS_Interval DEF K
<1>11. Cardinality(S) = q
  BY <1>9, <1>10, FS_Bijection
<1> QED BY <1>11 DEF S, q

\* For every field and word, whatever is drawn: a pad is uniform if its words are.
THEOREM CandidatesUniform == RoundSpec => []CandidatesAreUniform
<1>1. 0 \in Field
  BY FieldAssumption DEF Field
<1>2. CandidatesAreUniform
  BY <1>1, AsManyPreimages DEF CandidatesAreUniform
<1> QED BY <1>2, PTL

\* Whatever vector is decoded, every element of the table and of recover's copy
\* stays canonical, and what is recovered can be unpacked.
THEOREM TypeCorrect == RoundSpec => []TypeOK
<1>1. RInv => TypeOK
  BY PeelTypeOK DEF RInv
<1> QED BY <1>1, RoundInvariant, PTL

\* Whatever vector is decoded, recover answers Ok only with entries that make up
\* that very table: AllZero looks at all that can be left.
THEOREM OkExplains == RoundSpec => []OkExplainsTable
<1>1. RInv => OkExplainsTable
  BY PeelOkExplainsTable DEF RInv
<1> QED BY <1>1, RoundInvariant, PTL

\* A table that nobody has altered, blinded in a round or not, gives back the
\* entries inserted, each as often as it was, or recover says that it has stalled.
THEOREM RecoversAll == RoundSpec => []RecoversInserted
<1>1. RInv => RecoversInserted
  BY PeelRecoversInserted DEF RInv
<1> QED BY <1>1, RoundInvariant, PTL

\* When recover stalls on a table that nobody has altered, no order of peeling
\* would have done better: each entry left meets another in each of its cells.
THEOREM StallsOnCore == RoundSpec => []StallsOnlyOnCore
<1>1. RInv => StallsOnlyOnCore
  BY PeelStallsOnlyOnCore DEF RInv
<1> QED BY <1>1, RoundInvariant, PTL

\* Whatever vector is decoded, recover comes to an end: it cannot peel more than
\* the counters of any row allow, and it queues no more than a row per peel.
THEOREM PeelsNoMore == RoundSpec => []PeelsWhatIsCounted
<1>1. RInv => PeelsWhatIsCounted
  BY PeelIsCounted DEF RInv
<1> QED BY <1>1, RoundInvariant, PTL
=============================================================================
