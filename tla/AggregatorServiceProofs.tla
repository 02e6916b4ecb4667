----------------------- MODULE AggregatorServiceProofs -----------------------
(***************************************************************************)
(* Proofs about AggregatorService, for any clients, servers, rounds and    *)
(* batches: what the aggregator returns is a sum of one message of each    *)
(* client it lists, however rayon splits a batch, and no union of a batch  *)
(* fails.                                                                  *)
(***************************************************************************)
EXTENDS AggregatorService, AggregatesProofs
-----------------------------------------------------------------------------
(***************************************************************************)
(* The invariants.                                                         *)
(***************************************************************************)
\* An aggregate kept or returned: nothing yet, or one message of each client.
IsKept(a) == a = Empty \/ IsAggregation(a)

\* What is outside the batch.  The running aggregate is of the current round.
Settled ==
  /\ current_round \in 0..MaxRound
  /\ aggregate # None => IsKept(aggregate)
  /\ Previous # Empty => aggregate.round_number = current_round
  /\ authorized \subseteq Clients
  /\ \A a \in returned : IsKept(a)
  /\ merged # None =>
       /\ IsKept(merged.result)
       /\ merged.result # Empty => merged.result.round_number = merged.round

\* What the filter let through can be united with what was kept.
Admitted(m) ==
  /\ IsSubmission(m)
  /\ m.round_number = current_round /\ m.signer \in authorized
  /\ m.signer \notin Signers(Previous.user_pks)
  /\ Previous # Empty => /\ Previous.all_server_ids = m.all_server_ids
                         /\ Previous.shape = m.shape

\* One message of each client, all of one round, roster and shape.
Uniform(ms) ==
  \A i, j \in DOMAIN ms :
    /\ ms[i].round_number = ms[j].round_number
    /\ ms[i].all_server_ids = ms[j].all_server_ids
    /\ ms[i].shape = ms[j].shape
    /\ ms[i].signer = ms[j].signer => i = j

\* The sum of the messages lo + 1 to hi.
StretchTerms(ms, lo, hi) == UNION {ms[i].message_vector : i \in lo + 1 .. hi}

Stretch(ms, lo, hi) ==
  [round_number |-> ms[1].round_number, all_server_ids |-> ms[1].all_server_ids,
   shape |-> ms[1].shape, auction_vector |-> Sum(StretchTerms(ms, lo, hi)),
   message_vector |-> StretchTerms(ms, lo, hi),
   user_pks |-> [i \in 1 .. hi - lo |-> ms[lo + i].signer]]

\* The parts are the sums of stretches that follow each other: part k of the
\* messages b[k - 1] + 1 to b[k], the last of the messages folded so far.
IsCut(b, ms, folded, parts) ==
  /\ b[0] = 0 /\ b[Len(parts)] = folded
  /\ \A k \in 1 .. Len(parts) :
       b[k - 1] < b[k] /\ parts[k] = Stretch(ms, b[k - 1], b[k])

Cuts(c) == [0 .. Len(c.parts) -> 0 .. Len(c.fresh)]

\* The batch in progress.
InBatch(c) ==
  /\ c \in Calls /\ c.folded <= Len(c.fresh)
  /\ \E b \in Batches : \E n \in 0..Len(b) : c.todo = SubSeq(b, n + 1, Len(b))
  /\ \A i \in DOMAIN c.fresh : Admitted(c.fresh[i])
  /\ Uniform(c.fresh)
  /\ c.todo # <<>> => c.parts = <<>> /\ c.folded = 0
  /\ \A k \in DOMAIN c.parts : IsAggregation(c.parts[k])
  /\ \E b \in Cuts(c) : IsCut(b, c.fresh, c.folded, c.parts)

Batched == call # None => InBatch(call)

IInv == Settled /\ Batched
-----------------------------------------------------------------------------
(***************************************************************************)
(* Stretches of messages of different clients.                             *)
(***************************************************************************)
\* What the filter guarantees of the messages it let through.
Submissions(ms) ==
  /\ ms \in Seq(ClientRoundMessage) /\ Uniform(ms)
  /\ \A i \in DOMAIN ms : IsSubmission(ms[i])

\* The auction vector of a message is the sum of the terms of its message
\* vector, and all of them name its signer.
LEMMA OwnTerms ==
  ASSUME NEW m, IsSubmission(m)
  PROVE  /\ m.auction_vector = Sum(m.message_vector)
         /\ \A x \in m.message_vector : x[2] = m.signer
<1>1. PICK d \in Drafts :
        m = Blind(m.signer, m.round_number, d, m.all_server_ids, m.shape)
  BY DEF IsSubmission
<1> DEFINE T == {Content(m.signer, m.round_number, d)}
                  \cup PadSet({m.signer}, m.all_server_ids, m.round_number)
<1>2. m = [round_number |-> m.round_number, all_server_ids |-> m.all_server_ids,
           shape |-> m.shape, auction_vector |-> Sum(T), message_vector |-> T,
           signer |-> m.signer]
  BY <1>1 DEF Blind
<1>3. \A x \in T : x[2] = m.signer
  BY DEF Content, PadSet, Pad
<1> HIDE DEF T
<1>4. m.auction_vector = Sum(T) /\ m.message_vector = T
  BY <1>2
<1> QED BY <1>3, <1>4

\* Two stretches that follow each other share no term, and together have the
\* terms of the whole.
LEMMA StretchesApart ==
  ASSUME NEW ms, Submissions(ms), NEW lo \in Nat, NEW mid \in Nat, NEW hi \in Nat,
         lo <= mid, mid <= hi, hi <= Len(ms)
  PROVE  /\ StretchTerms(ms, lo, mid) \cap StretchTerms(ms, mid, hi) = {}
         /\ StretchTerms(ms, lo, mid) \cup StretchTerms(ms, mid, hi)
              = StretchTerms(ms, lo, hi)
<1>1. DOMAIN ms = 1..Len(ms) /\ Len(ms) \in Nat
  BY DEF Submissions
<1>2. lo + 1 .. hi = (lo + 1 .. mid) \cup (mid + 1 .. hi)
  OBVIOUS
<1>3. ASSUME NEW i \in lo + 1 .. mid, NEW j \in mid + 1 .. hi,
             NEW x, x \in ms[i].message_vector, x \in ms[j].message_vector
      PROVE  FALSE
  <2>1. i \in DOMAIN ms /\ j \in DOMAIN ms /\ i # j
    BY <1>1
  <2>2. x[2] = ms[i].signer /\ x[2] = ms[j].signer
    BY <1>3, <2>1, OwnTerms DEF Submissions
  <2>3. ms[i].signer = ms[j].signer
    BY <2>2
  <2>4. Uniform(ms)
    BY DEF Submissions
  <2>5. i = j
    BY <2>1, <2>3, <2>4 DEF Uniform
  <2> QED BY <2>1, <2>5
<1>4. StretchTerms(ms, lo, mid) \cap StretchTerms(ms, mid, hi) = {}
  BY <1>3 DEF StretchTerms
<1>5. StretchTerms(ms, lo, mid) \cup StretchTerms(ms, mid, hi) = StretchTerms(ms, lo, hi)
  BY <1>2 DEF StretchTerms
<1> QED BY <1>4, <1>5

\* The signers of a stretch, in the order of its messages.
Pks(ms, lo, hi) == [i \in 1 .. hi - lo |-> ms[lo + i].signer]

LEMMA StretchPks ==
  ASSUME NEW ms, Submissions(ms), NEW lo \in Nat, NEW hi \in Nat,
         lo <= hi, hi <= Len(ms)
  PROVE  /\ Pks(ms, lo, hi) \in Seq(Clients) /\ Len(Pks(ms, lo, hi)) = hi - lo
         /\ NoDuplicates(Pks(ms, lo, hi))
         /\ \A x \in Signers(Pks(ms, lo, hi)) : \E i \in lo + 1 .. hi : x = ms[i].signer
<1>1. DOMAIN ms = 1..Len(ms) /\ Len(ms) \in Nat
  BY DEF Submissions
<1>2. \A i \in 1 .. hi - lo : lo + i \in DOMAIN ms
  BY <1>1
<1>3. hi - lo \in Nat
  OBVIOUS
<1>4. \A i \in 1 .. hi - lo : ms[lo + i].signer \in Clients
  BY <1>2 DEF Submissions, IsSubmission
<1>5. Pks(ms, lo, hi) \in [1 .. hi - lo -> Clients]
  BY <1>4 DEF Pks
<1>6. Pks(ms, lo, hi) \in Seq(Clients) /\ Len(Pks(ms, lo, hi)) = hi - lo
  BY <1>3, <1>5
<1>7. NoDuplicates(Pks(ms, lo, hi))
  <2> SUFFICES ASSUME NEW i \in 1 .. hi - lo, NEW j \in 1 .. hi - lo,
                      ms[lo + i].signer = ms[lo + j].signer
               PROVE  i = j
    BY <1>5 DEF NoDuplicates, Pks
  <2>1. lo + i = lo + j
    BY <1>2 DEF Submissions, Uniform
  <2> QED BY <2>1
<1>8. \A i \in 1 .. hi - lo : lo + i \in lo + 1 .. hi
  OBVIOUS
<1>9. \A x \in Signers(Pks(ms, lo, hi)) : \E i \in lo + 1 .. hi : x = ms[i].signer
  BY <1>5, <1>8 DEF Signers, Pks
<1> QED BY <1>6, <1>7, <1>9

LEMMA WholePks ==
  ASSUME NEW ms, Submissions(ms)
  PROVE  /\ Pks(ms, 0, Len(ms)) \in Seq(Clients) /\ NoDuplicates(Pks(ms, 0, Len(ms)))
         /\ \A x \in Signers(Pks(ms, 0, Len(ms))) :
              \E i \in DOMAIN ms : x = ms[i].signer
<1>1. Len(ms) \in Nat /\ DOMAIN ms = 1..Len(ms)
  BY DEF Submissions
<1>2. \A lo, hi \in Nat : lo <= hi /\ hi <= Len(ms) =>
        /\ Pks(ms, lo, hi) \in Seq(Clients) /\ NoDuplicates(Pks(ms, lo, hi))
        /\ \A x \in Signers(Pks(ms, lo, hi)) : \E i \in lo + 1 .. hi : x = ms[i].signer
  BY StretchPks
<1>3. \A hi \in Nat : hi <= Len(ms) =>
        /\ Pks(ms, 0, hi) \in Seq(Clients) /\ NoDuplicates(Pks(ms, 0, hi))
        /\ \A x \in Signers(Pks(ms, 0, hi)) : \E i \in 1 .. hi : x = ms[i].signer
  BY <1>2
<1> QED BY <1>1, <1>3

\* Lists are equal when they have the same length and the same entries.
LEMMA SameList ==
  ASSUME NEW S, NEW p \in Seq(S), NEW q \in Seq(S), NEW n \in Nat,
         Len(p) = n, Len(q) = n, \A i \in 1..n : p[i] = q[i]
  PROVE  p = q
<1>1. p \in [1..n -> S] /\ q \in [1..n -> S]
  OBVIOUS
<1> QED BY <1>1

\* Fold, field by field.
LEMMA FoldFields ==
  ASSUME NEW r, NEW ro, NEW sh, NEW a, NEW x, NEW p, NEW m
  PROVE  Fold([round_number |-> r, all_server_ids |-> ro, shape |-> sh,
               auction_vector |-> a, message_vector |-> x, user_pks |-> p], m)
           = [round_number |-> r, all_server_ids |-> ro, shape |-> sh,
              auction_vector |-> Add(a, m.auction_vector),
              message_vector |-> Xor(x, m.message_vector),
              user_pks |-> Append(p, m.signer)]
BY DEF Fold

\* union_inplace of two stretches that follow each other is allowed, and is
\* the stretch of both.
LEMMA UnionOfStretches ==
  ASSUME NEW ms, Submissions(ms), NEW lo \in Nat, NEW mid \in Nat, NEW hi \in Nat,
         lo <= mid, mid <= hi, hi <= Len(ms)
  PROVE  /\ CanUnion(Stretch(ms, lo, mid), Stretch(ms, mid, hi))
         /\ Union(Stretch(ms, lo, mid), Stretch(ms, mid, hi)) = Stretch(ms, lo, hi)
<1> DEFINE p == Pks(ms, lo, mid)
           q == Pks(ms, mid, hi)
           X == StretchTerms(ms, lo, mid)
           Y == StretchTerms(ms, mid, hi)
           Z == StretchTerms(ms, lo, hi)
<1>m. mid <= Len(ms) /\ lo <= hi
  BY DEF Submissions
<1>1. p \in Seq(Clients) /\ Len(p) = mid - lo /\ q \in Seq(Clients) /\ Len(q) = hi - mid
  BY <1>m, StretchPks
<1>2. /\ NoDuplicates(Pks(ms, lo, hi)) /\ Pks(ms, lo, hi) \in Seq(Clients)
      /\ Len(Pks(ms, lo, hi)) = hi - lo
  BY <1>m, StretchPks
<1>3. \A i \in 1 .. mid - lo : p[i] = Pks(ms, lo, hi)[i]
  BY DEF Pks
<1>4. \A i \in 1 .. hi - mid : q[i] = Pks(ms, lo, hi)[(mid - lo) + i]
  <2> SUFFICES ASSUME NEW i \in 1 .. hi - mid
               PROVE  q[i] = Pks(ms, lo, hi)[(mid - lo) + i]
    OBVIOUS
  <2>1. (mid - lo) + i \in 1 .. hi - lo /\ lo + ((mid - lo) + i) = mid + i
    OBVIOUS
  <2> QED BY <2>1 DEF Pks
<1> DEFINE w == Pks(ms, lo, hi)
<1> HIDE DEF p, q, w
<1>5. p \o q = w
  <2>1. /\ p \o q \in Seq(Clients) /\ Len(p \o q) = (mid - lo) + (hi - mid)
        /\ \A i \in 1 .. Len(p) : (p \o q)[i] = p[i]
        /\ \A i \in 1 .. Len(q) : (p \o q)[Len(p) + i] = q[i]
    BY <1>1, SMTT(30)
  <2>2. w \in Seq(Clients) /\ Len(w) = hi - lo
    BY <1>2 DEF w
  <2>3. Len(p \o q) = Len(w)
    BY <2>1, <2>2
  <2>4. ASSUME NEW i \in 1 .. hi - lo
        PROVE  (p \o q)[i] = w[i]
    <3>1. CASE i \in 1 .. mid - lo
      BY <1>1, <1>3, <2>1, <3>1 DEF w
    <3>2. CASE i \notin 1 .. mid - lo
      <4>1. i - (mid - lo) \in 1 .. hi - mid /\ (mid - lo) + (i - (mid - lo)) = i
        BY <3>2
      <4> DEFINE j == i - (mid - lo)
      <4>2. j \in 1 .. hi - mid /\ (mid - lo) + j = i
        BY <4>1
      <4> HIDE DEF j
      <4>3. (p \o q)[Len(p) + j] = q[j]
        BY <1>1, <2>1, <4>2
      <4>4. Len(p) + j = i
        BY <1>1, <4>2
      <4>5. q[j] = w[i]
        BY <1>4, <4>2 DEF w
      <4> QED BY <4>3, <4>4, <4>5
    <3> QED BY <3>1, <3>2
  <2>5. hi - lo \in Nat
    OBVIOUS
  <2> QED BY <2>1, <2>2, <2>3, <2>4, <2>5, SameList
<1>6. X \cap Y = {} /\ X \cup Y = Z
  BY StretchesApart
<1> HIDE DEF X, Y, Z
<1>7. Add(Sum(X), Sum(Y)) = Sum(Z) /\ Xor(X, Y) = Z
  BY <1>6, SumOfDisjoint, XorOfDisjoint
<1>8. /\ Stretch(ms, lo, mid)
           = [round_number |-> ms[1].round_number, all_server_ids |-> ms[1].all_server_ids,
              shape |-> ms[1].shape, auction_vector |-> Sum(X), message_vector |-> X,
              user_pks |-> p]
      /\ Stretch(ms, mid, hi)
           = [round_number |-> ms[1].round_number, all_server_ids |-> ms[1].all_server_ids,
              shape |-> ms[1].shape, auction_vector |-> Sum(Y), message_vector |-> Y,
              user_pks |-> q]
      /\ Stretch(ms, lo, hi)
           = [round_number |-> ms[1].round_number, all_server_ids |-> ms[1].all_server_ids,
              shape |-> ms[1].shape, auction_vector |-> Sum(Z), message_vector |-> Z,
              user_pks |-> w]
  BY DEF Stretch, X, Y, Z, p, q, w, Pks
<1>9. NoDuplicates(p \o q)
  BY <1>2, <1>5 DEF w
<1>10. /\ CanUnion(Stretch(ms, lo, mid), Stretch(ms, mid, hi))
       /\ Union(Stretch(ms, lo, mid), Stretch(ms, mid, hi))
            = [round_number |-> ms[1].round_number, all_server_ids |-> ms[1].all_server_ids,
               shape |-> ms[1].shape, auction_vector |-> Add(Sum(X), Sum(Y)),
               message_vector |-> Xor(X, Y), user_pks |-> p \o q]
  <2> DEFINE r == ms[1].round_number
             ro == ms[1].all_server_ids
             sh == ms[1].shape
             s == Stretch(ms, lo, mid)
             t == Stretch(ms, mid, hi)
  <2>1. /\ s = [round_number |-> r, all_server_ids |-> ro, shape |-> sh,
                auction_vector |-> Sum(X), message_vector |-> X, user_pks |-> p]
        /\ t = [round_number |-> r, all_server_ids |-> ro, shape |-> sh,
                auction_vector |-> Sum(Y), message_vector |-> Y, user_pks |-> q]
    BY <1>8
  <2> HIDE DEF r, ro, sh, s, t
  <2>2. /\ CanUnion(s, t)
        /\ Union(s, t)
             = [round_number |-> r, all_server_ids |-> ro, shape |-> sh,
                auction_vector |-> Add(Sum(X), Sum(Y)),
                message_vector |-> Xor(X, Y), user_pks |-> p \o q]
    BY <1>9, <2>1 DEF CanUnion, Union
  <2> QED BY <2>2 DEF r, ro, sh, s, t
<1> QED BY <1>5, <1>7, <1>8, <1>10

\* Folding the next message into a stretch extends it.
LEMMA FoldExtends ==
  ASSUME NEW ms, Submissions(ms), NEW lo \in Nat, NEW hi \in Nat,
         lo <= hi, hi < Len(ms)
  PROVE  Fold(Stretch(ms, lo, hi), ms[hi + 1]) = Stretch(ms, lo, hi + 1)
<1> DEFINE m == ms[hi + 1]
           one == Stretch(ms, hi, hi + 1)
           X == StretchTerms(ms, lo, hi)
           Z == StretchTerms(ms, lo, hi + 1)
<1>1. DOMAIN ms = 1..Len(ms) /\ Len(ms) \in Nat /\ hi + 1 \in DOMAIN ms
  BY DEF Submissions
<1>h. hi + 1 \in Nat /\ hi <= Len(ms) /\ hi + 1 <= Len(ms) /\ lo <= hi + 1
  BY <1>1
<1>2. m.auction_vector = Sum(m.message_vector) /\ m.signer \in Clients
  BY <1>1, OwnTerms DEF Submissions, IsSubmission
<1>3. StretchTerms(ms, hi, hi + 1) = m.message_vector
  BY DEF StretchTerms
<1>4. X \cap m.message_vector = {} /\ X \cup m.message_vector = Z
  BY <1>h, <1>3, StretchesApart
<1>5. Pks(ms, lo, hi) \in Seq(Clients) /\ Len(Pks(ms, lo, hi)) = hi - lo
  BY <1>h, StretchPks
<1>6. Pks(ms, lo, hi + 1) \in Seq(Clients) /\ Len(Pks(ms, lo, hi + 1)) = hi + 1 - lo
  <2>1. \A h \in Nat : lo <= h /\ h <= Len(ms) =>
          Pks(ms, lo, h) \in Seq(Clients) /\ Len(Pks(ms, lo, h)) = h - lo
    BY StretchPks
  <2> QED BY <1>h, <2>1
<1> DEFINE p == Pks(ms, lo, hi)
           w == Pks(ms, lo, hi + 1)
<1>7. \A i \in 1 .. hi - lo : w[i] = p[i]
  BY DEF Pks
<1>8. w[hi + 1 - lo] = m.signer
  <2>1. hi + 1 - lo \in 1 .. hi + 1 - lo /\ lo + (hi + 1 - lo) = hi + 1
    OBVIOUS
  <2> QED BY <2>1 DEF Pks
<1>9. Stretch(ms, lo, hi)
        = [round_number |-> ms[1].round_number, all_server_ids |-> ms[1].all_server_ids,
           shape |-> ms[1].shape, auction_vector |-> Sum(X), message_vector |-> X,
           user_pks |-> p]
  BY DEF Stretch, Pks
<1>10. Stretch(ms, lo, hi + 1)
        = [round_number |-> ms[1].round_number, all_server_ids |-> ms[1].all_server_ids,
           shape |-> ms[1].shape, auction_vector |-> Sum(Z), message_vector |-> Z,
           user_pks |-> w]
  BY DEF Stretch, Pks
<1> HIDE DEF m, one, X, Z, p, w
<1>11. Append(p, m.signer) = w
  <2>1. p \in Seq(Clients) /\ Len(p) = hi - lo /\ w \in Seq(Clients) /\ Len(w) = hi - lo + 1
    BY <1>5, <1>6 DEF p, w
  <2>2. w[hi - lo + 1] = m.signer
    BY <1>8
  <2>3. \A i \in 1 .. hi - lo + 1 : Append(p, m.signer)[i] = w[i]
    BY <1>2, <1>7, <2>1, <2>2
  <2>4. Append(p, m.signer) \in Seq(Clients) /\ Len(Append(p, m.signer)) = hi - lo + 1
    BY <1>2, <2>1
  <2>5. hi - lo + 1 \in Nat
    OBVIOUS
  <2> QED BY <2>1, <2>3, <2>4, <2>5, SameList
<1>12. Add(Sum(X), m.auction_vector) = Sum(Z) /\ Xor(X, m.message_vector) = Z
  BY <1>2, <1>4, SumOfDisjoint, XorOfDisjoint
<1>13. Fold(Stretch(ms, lo, hi), m) = Stretch(ms, lo, hi + 1)
  BY <1>9, <1>10, <1>11, <1>12, FoldFields
<1> QED BY <1>13 DEF m

\* The zero-filled aggregate is the empty stretch.
LEMMA ZeroIsStretch ==
  ASSUME NEW ms, NEW lo \in Nat
  PROVE  EmptyFor(ms[1]) = Stretch(ms, lo, lo)
<1>1. lo + 1 .. lo = {} /\ lo - lo = 0
  OBVIOUS
<1>2. StretchTerms(ms, lo, lo) = {}
  BY <1>1 DEF StretchTerms
<1>3. Sum({}) = ZeroVector
  BY DEF Sum, ZeroVector
<1>4. [i \in 1 .. lo - lo |-> ms[lo + i].signer] = <<>>
  BY <1>1
<1> QED BY <1>2, <1>3, <1>4 DEF EmptyFor, Stretch

\* The stretch of all messages is what SplitsAgree compares with.
LEMMA WholeStretch ==
  ASSUME NEW ms, Submissions(ms)
  PROVE  Stretch(ms, 0, Len(ms)) = SumOf(ms)
<1>1. DOMAIN ms = 1..Len(ms) /\ Len(ms) \in Nat
  BY DEF Submissions
<1>2. StretchTerms(ms, 0, Len(ms)) = UNION {ms[i].message_vector : i \in DOMAIN ms}
  BY <1>1 DEF StretchTerms
<1>3. [i \in 1 .. Len(ms) - 0 |-> ms[0 + i].signer] = [i \in DOMAIN ms |-> ms[i].signer]
  BY <1>1
<1> QED BY <1>2, <1>3 DEF Stretch, SumOf

-----------------------------------------------------------------------------
(***************************************************************************)
(* What the invariants say of the batch.                                   *)
(***************************************************************************)
\* No aggregation is the empty aggregate: its round is not round 0.
LEMMA AggregationNotEmpty ==
  ASSUME NEW a, IsAggregation(a)
  PROVE  a # Empty
<1>1. a.round_number \in 1..MaxRound
  BY DEF IsAggregation, Rounds
<1>2. Empty.round_number = 0
  BY DEF Empty
<1> QED BY <1>1, <1>2, RoundAssumption

LEMMA KeptType ==
  ASSUME NEW a, IsKept(a)
  PROVE  a \in {Empty} \cup AggregatedClientMessages
BY AggregationType DEF IsKept

\* The lengths and fields of a batch in progress.
LEMMA BatchFacts ==
  ASSUME NEW c, InBatch(c)
  PROVE  /\ c.todo \in Seq(SignedMessages)
         /\ c.fresh \in Seq(ClientRoundMessage)
         /\ c.folded \in Nat
         /\ c.parts \in Seq(AggregatedClientMessages)
         /\ Len(c.fresh) \in Nat /\ DOMAIN c.fresh = 1..Len(c.fresh)
         /\ Len(c.parts) \in Nat /\ DOMAIN c.parts = 1..Len(c.parts)
         /\ c = [todo |-> c.todo, fresh |-> c.fresh, folded |-> c.folded, parts |-> c.parts]
         /\ Submissions(c.fresh)
<1>1. c \in Calls
  BY DEF InBatch
<1>2. /\ c.todo \in Seq(SignedMessages) /\ c.fresh \in Seq(ClientRoundMessage)
      /\ c.folded \in Nat /\ c.parts \in Seq(AggregatedClientMessages)
      /\ c = [todo |-> c.todo, fresh |-> c.fresh, folded |-> c.folded, parts |-> c.parts]
  BY <1>1 DEF Calls
<1>3. Submissions(c.fresh)
  BY <1>2 DEF InBatch, Submissions, Admitted
<1> QED BY <1>2, <1>3

\* The steps of a cut.
LEMMA CutFacts ==
  ASSUME NEW c, InBatch(c)
  PROVE  \E b \in Cuts(c) :
           /\ IsCut(b, c.fresh, c.folded, c.parts)
           /\ \A k \in 0..Len(c.parts) : b[k] \in Nat /\ b[k] <= Len(c.fresh)
           /\ \A k \in 1..Len(c.parts) :
                /\ b[k - 1] \in Nat /\ b[k - 1] <= Len(c.fresh) /\ b[k - 1] < b[k]
                /\ c.parts[k] = Stretch(c.fresh, b[k - 1], b[k])
<1>1. PICK b \in Cuts(c) : IsCut(b, c.fresh, c.folded, c.parts)
  BY DEF InBatch
<1>2. Len(c.parts) \in Nat /\ Len(c.fresh) \in Nat
  BY BatchFacts
<1>3. \A k \in 0..Len(c.parts) : b[k] \in Nat /\ b[k] <= Len(c.fresh)
  BY <1>1, <1>2 DEF Cuts
<1>4. \A k \in 1..Len(c.parts) : k - 1 \in 0..Len(c.parts)
  BY <1>2
<1>5. \A k \in 1..Len(c.parts) :
        /\ b[k - 1] \in Nat /\ b[k - 1] <= Len(c.fresh) /\ b[k - 1] < b[k]
        /\ c.parts[k] = Stretch(c.fresh, b[k - 1], b[k])
  BY <1>1, <1>3, <1>4 DEF IsCut
<1> QED BY <1>1, <1>3, <1>5

\* Two neighbours can be united, and are then the stretch of both.
LEMMA NeighboursUnite ==
  ASSUME NEW c, InBatch(c), NEW b \in Cuts(c), IsCut(b, c.fresh, c.folded, c.parts),
         NEW k \in 1 .. Len(c.parts) - 1
  PROVE  /\ CanUnion(c.parts[k], c.parts[k + 1])
         /\ Union(c.parts[k], c.parts[k + 1]) = Stretch(c.fresh, b[k - 1], b[k + 1])
<1>1. /\ Len(c.parts) \in Nat /\ Len(c.fresh) \in Nat /\ Submissions(c.fresh)
  BY BatchFacts
<1>2. k - 1 \in 0..Len(c.parts) /\ k \in 0..Len(c.parts) /\ k + 1 \in 0..Len(c.parts)
      /\ k \in 1..Len(c.parts) /\ k + 1 \in 1..Len(c.parts) /\ (k + 1) - 1 = k
  BY <1>1
<1>3. b[k - 1] \in Nat /\ b[k] \in Nat /\ b[k + 1] \in Nat /\ b[k + 1] <= Len(c.fresh)
  <2>1. \A j \in 0..Len(c.parts) : b[j] \in 0..Len(c.fresh)
    BY DEF Cuts
  <2> QED BY <1>1, <1>2, <2>1
<1>4. /\ b[k - 1] < b[k] /\ b[k] < b[k + 1]
      /\ c.parts[k] = Stretch(c.fresh, b[k - 1], b[k])
      /\ c.parts[k + 1] = Stretch(c.fresh, b[k], b[k + 1])
  <2>1. b[k - 1] < b[k] /\ c.parts[k] = Stretch(c.fresh, b[k - 1], b[k])
    BY <1>2 DEF IsCut
  <2>2. b[(k + 1) - 1] < b[k + 1]
        /\ c.parts[k + 1] = Stretch(c.fresh, b[(k + 1) - 1], b[k + 1])
    BY <1>2 DEF IsCut
  <2> QED BY <1>2, <2>1, <2>2
<1>5. b[k - 1] <= b[k] /\ b[k] <= b[k + 1]
  BY <1>3, <1>4
<1> QED BY <1>1, <1>3, <1>4, <1>5, UnionOfStretches

\* Lists without duplicates and without a common signer are, one after the
\* other, a list without duplicates.
LEMMA ConcatNoDuplicates ==
  ASSUME NEW p \in Seq(Clients), NEW q \in Seq(Clients),
         NoDuplicates(p), NoDuplicates(q), Signers(p) \cap Signers(q) = {}
  PROVE  NoDuplicates(p \o q)
<1>1. /\ DOMAIN (p \o q) = 1..(Len(p) + Len(q))
      /\ DOMAIN p = 1..Len(p) /\ DOMAIN q = 1..Len(q)
      /\ \A i \in 1..Len(p) : (p \o q)[i] = p[i]
      /\ \A i \in 1..(Len(p) + Len(q)) : i \notin 1..Len(p) =>
           i - Len(p) \in 1..Len(q) /\ (p \o q)[i] = q[i - Len(p)]
      /\ Len(p) \in Nat /\ Len(q) \in Nat
  OBVIOUS
<1>2. \A i \in 1..Len(p), j \in 1..Len(q) : p[i] # q[j]
  BY <1>1 DEF Signers
<1> SUFFICES ASSUME NEW i \in 1..(Len(p) + Len(q)), NEW j \in 1..(Len(p) + Len(q)),
                    (p \o q)[i] = (p \o q)[j]
             PROVE  i = j
  BY <1>1 DEF NoDuplicates
<1>3. CASE i \in 1..Len(p) /\ j \in 1..Len(p)
  BY <1>1, <1>3 DEF NoDuplicates
<1>4. CASE i \in 1..Len(p) /\ j \notin 1..Len(p)
  BY <1>1, <1>2, <1>4
<1>5. CASE i \notin 1..Len(p) /\ j \in 1..Len(p)
  BY <1>1, <1>2, <1>5
<1>6. CASE i \notin 1..Len(p) /\ j \notin 1..Len(p)
  <2>1. i - Len(p) = j - Len(p)
    <3>1. /\ i - Len(p) \in DOMAIN q /\ j - Len(p) \in DOMAIN q
          /\ q[i - Len(p)] = q[j - Len(p)]
      BY <1>1, <1>6
    <3> QED BY <3>1 DEF NoDuplicates
  <2> QED BY <1>1, <2>1
<1> QED BY <1>3, <1>4, <1>5, <1>6

\* When all parts are united, the one that is left is the sum of all messages,
\* and can be united with what was kept.
LEMMA FoldedFacts ==
  ASSUME Settled, InBatch(call), Folded
  PROVE  /\ call.parts[1] = Stretch(call.fresh, 0, Len(call.fresh))
         /\ 1 \in DOMAIN call.fresh
         /\ IsAggregation(call.parts[1])
         /\ call.parts[1].round_number = current_round
         /\ Signers(call.parts[1].user_pks) \subseteq authorized
         /\ CanUnionInplace(Previous, call.parts[1])
<1> DEFINE ms == call.fresh
           p  == call.parts[1]
<1>1. /\ Len(call.parts) = 1 /\ call.folded = Len(ms) /\ Len(ms) \in Nat
      /\ DOMAIN ms = 1..Len(ms) /\ Submissions(ms) /\ DOMAIN call.parts = 1..1
  BY BatchFacts DEF Folded
<1>2. PICK b \in Cuts(call) :
        /\ IsCut(b, ms, call.folded, call.parts)
        /\ \A k \in 1..Len(call.parts) :
             b[k - 1] < b[k] /\ call.parts[k] = Stretch(ms, b[k - 1], b[k])
  BY CutFacts
<1>3. b[0] = 0 /\ b[1] = Len(ms) /\ b[1 - 1] < b[1] /\ p = Stretch(ms, b[1 - 1], b[1])
  BY <1>1, <1>2 DEF IsCut
<1>4. p = Stretch(ms, 0, Len(ms)) /\ 1 \in DOMAIN ms
  BY <1>1, <1>3
<1>5. IsAggregation(p)
  BY <1>1 DEF InBatch
<1>6. /\ p.round_number = ms[1].round_number /\ p.all_server_ids = ms[1].all_server_ids
      /\ p.shape = ms[1].shape /\ p.user_pks = Pks(ms, 0, Len(ms))
  BY <1>4 DEF Stretch, Pks
<1>7. \A i \in DOMAIN ms : Admitted(ms[i])
  BY DEF InBatch
<1>8. p.round_number = current_round
  BY <1>4, <1>6, <1>7 DEF Admitted
<1>9. /\ p.user_pks \in Seq(Clients) /\ NoDuplicates(p.user_pks)
      /\ \A x \in Signers(p.user_pks) : \E i \in DOMAIN ms : x = ms[i].signer
  <2>1. /\ Pks(ms, 0, Len(ms)) \in Seq(Clients) /\ NoDuplicates(Pks(ms, 0, Len(ms)))
        /\ \A x \in Signers(Pks(ms, 0, Len(ms))) :
             \E i \in DOMAIN ms : x = ms[i].signer
    BY <1>1, WholePks
  <2> QED BY <1>1, <1>6, <2>1
<1>10. Signers(p.user_pks) \subseteq authorized
  BY <1>1, <1>7, <1>9 DEF Admitted
<1>11. CanUnionInplace(Previous, p)
  <2>1. CASE Previous = Empty
    BY <1>9, <2>1 DEF CanUnionInplace
  <2>2. CASE Previous # Empty
    <3>1. IsAggregation(Previous) /\ Previous.round_number = current_round
      BY <2>2 DEF Settled, Previous, IsKept
    <3>2. /\ Previous.all_server_ids = p.all_server_ids
          /\ Previous.shape = p.shape
      BY <1>4, <1>6, <1>7, <2>2 DEF Admitted
    <3>3. Signers(Previous.user_pks) \cap Signers(p.user_pks) = {}
      BY <1>1, <1>7, <1>9 DEF Admitted
    <3>4. Previous.user_pks \in Seq(Clients) /\ NoDuplicates(Previous.user_pks)
      BY <3>1 DEF IsAggregation
    <3>5. NoDuplicates(Previous.user_pks \o p.user_pks)
      BY <1>9, <3>3, <3>4, ConcatNoDuplicates
    <3>6. CanUnion(Previous, p)
      BY <1>8, <3>1, <3>2, <3>5 DEF CanUnion
    <3> QED BY <2>2, <3>6 DEF CanUnionInplace
  <2> QED BY <2>1, <2>2
<1> QED BY <1>4, <1>5, <1>8, <1>10, <1>11

-----------------------------------------------------------------------------
(***************************************************************************)
(* The filter.                                                             *)
(***************************************************************************)
\* What is left of a batch after one more message.
LEMMA TailOfRest ==
  ASSUME NEW S, NEW s \in Seq(S), NEW n \in Nat, n < Len(s)
  PROVE  Tail(SubSeq(s, n + 1, Len(s))) = SubSeq(s, (n + 1) + 1, Len(s))
<1> DEFINE r == SubSeq(s, n + 1, Len(s))
           u == SubSeq(s, (n + 1) + 1, Len(s))
           k == Len(s) - (n + 1)
<1>1. Len(s) \in Nat /\ k \in Nat
  OBVIOUS
<1>2. /\ r \in Seq(S) /\ Len(r) = k + 1
      /\ \A i \in 1 .. k + 1 : r[i] = s[n + i]
  <2>1. \A i \in n + 1 .. Len(s) : s[i] \in S
    OBVIOUS
  <2>2. r = [i \in 1 .. k + 1 |-> s[n + i]]
    BY <1>1
  <2>3. \A i \in 1 .. k + 1 : n + i \in n + 1 .. Len(s)
    BY <1>1
  <2>4. r \in [1 .. k + 1 -> S]
    BY <2>1, <2>2, <2>3
  <2> QED BY <1>1, <2>2, <2>4
<1>3. /\ u \in Seq(S) /\ Len(u) = k
      /\ \A i \in 1 .. k : u[i] = s[(n + 1) + i]
  <2>1. \A i \in n + 1 .. Len(s) : s[i] \in S
    OBVIOUS
  <2>2. u = [i \in 1 .. k |-> s[(n + 1) + i]]
    BY <1>1
  <2>3. \A i \in 1 .. k : (n + 1) + i \in n + 1 .. Len(s)
    BY <1>1
  <2>4. u \in [1 .. k -> S]
    BY <2>1, <2>2, <2>3
  <2> QED BY <1>1, <2>2, <2>4
<1> DEFINE t == Tail(r)
<1> HIDE DEF r, u, k
<1>4. t \in Seq(S) /\ Len(t) = k /\ \A i \in 1 .. k : t[i] = r[i + 1]
  BY <1>1, <1>2
<1>5. \A i \in 1 .. k : t[i] = u[i]
  <2> SUFFICES ASSUME NEW i \in 1 .. k
               PROVE  t[i] = u[i]
    OBVIOUS
  <2>1. i + 1 \in 1 .. k + 1 /\ n + (i + 1) = (n + 1) + i
    BY <1>1
  <2> QED BY <1>2, <1>3, <1>4, <2>1
<1> HIDE DEF t
<1>6. t = u
  BY <1>1, <1>3, <1>4, <1>5, SameList
<1> QED BY <1>6 DEF t, r, u

\* While nothing else changes, a batch is judged by what it was judged by.
LEMMA BatchStays ==
  ASSUME UNCHANGED <<current_round, aggregate, authorized>>, InBatch(call')
  PROVE  InBatch(call)'
<1>1. Previous' = Previous
  BY DEF Previous
<1>2. ASSUME NEW i \in DOMAIN call'.fresh
      PROVE  Admitted(call.fresh[i])'
  <2>1. Admitted(call'.fresh[i])
    BY DEF InBatch
  <2> QED BY <1>1, <2>1 DEF Admitted
<1>3. (\E b \in Cuts(call) : IsCut(b, call.fresh, call.folded, call.parts))'
  BY DEF InBatch
<1> QED BY <1>2, <1>3 DEF InBatch

\* A batch that is taken up has lost nothing yet.
LEMMA BatchBegins ==
  ASSUME NEW b \in Batches, process_client_messages(b)
  PROVE  Batched'
<1> DEFINE c == [todo |-> b, fresh |-> <<>>, folded |-> 0, parts |-> <<>>]
<1>1. call' = c
  BY DEF process_client_messages
<1>2. b \in Seq(SignedMessages)
  BY BatchAssumption
<1>3. c.todo = b /\ c.fresh = <<>> /\ c.folded = 0 /\ c.parts = <<>>
  OBVIOUS
<1>4. c \in Calls
  BY <1>2 DEF Calls
<1> HIDE DEF c
<1>5. \E e \in Batches : \E n \in 0..Len(e) : c.todo = SubSeq(e, n + 1, Len(e))
  <2>1. b = SubSeq(b, 0 + 1, Len(b)) /\ 0 \in 0..Len(b)
    BY <1>2
  <2> QED BY <1>3, <2>1
<1>6. \E e \in Cuts(c) : IsCut(e, c.fresh, c.folded, c.parts)
  <2> DEFINE e == [k \in {0} |-> 0]
  <2>1. Len(<<>>) = 0 /\ 0 .. 0 = {0}
    OBVIOUS
  <2>2. e \in Cuts(c)
    BY <1>3, <2>1 DEF Cuts
  <2>3. IsCut(e, c.fresh, c.folded, c.parts)
    BY <1>3, <2>1 DEF IsCut
  <2> QED BY <2>2, <2>3
<1>7. Len(c.fresh) = 0 /\ DOMAIN c.fresh = {} /\ DOMAIN c.parts = {}
  BY <1>3
<1>8. InBatch(c)'
  BY <1>3, <1>4, <1>5, <1>6, <1>7 DEF InBatch, Uniform
<1> QED BY <1>1, <1>8 DEF Batched

\* A message that is let through fits those before it, and one of its signer
\* is not among them.
LEMMA FreshFits ==
  ASSUME Settled, InBatch(call), NEW m, IsSubmission(m), Fresh(m)
  PROVE  /\ Admitted(m)
         /\ \A i \in DOMAIN call.fresh :
              /\ call.fresh[i].round_number = m.round_number
              /\ call.fresh[i].all_server_ids = m.all_server_ids
              /\ call.fresh[i].shape = m.shape
              /\ call.fresh[i].signer # m.signer
<1>1. Previous # Empty => Previous \in Latched
  BY DEF Latched
<1>2. Admitted(m)
  BY <1>1 DEF Admitted, Fresh, Counted
<1>3. ASSUME NEW i \in DOMAIN call.fresh
      PROVE  /\ call.fresh[i].round_number = m.round_number
             /\ call.fresh[i].all_server_ids = m.all_server_ids
             /\ call.fresh[i].shape = m.shape
             /\ call.fresh[i].signer # m.signer
  <2>1. Admitted(call.fresh[i])
    BY DEF InBatch
  <2>2. call.fresh[i].round_number \in 1..MaxRound
    BY <2>1 DEF Admitted, IsSubmission, Rounds
  <2>3. Empty.round_number = 0
    BY DEF Empty
  <2>4. call.fresh[i] # Empty
    BY <2>2, <2>3, RoundAssumption
  <2>5. call.fresh[i] \in Latched
    BY <2>4 DEF Latched
  <2>6. m.signer # call.fresh[i].signer
    BY DEF Fresh, Counted
  <2> QED BY <2>1, <2>5, <2>6 DEF Fresh, Admitted
<1> QED BY <1>2, <1>3

\* The filter keeps what it lets through uniform.
LEMMA FilterKeepsBatch ==
  ASSUME Settled, InBatch(call), filter_message
  PROVE  InBatch(call)'
<1> DEFINE m  == Head(call.todo).message
           ms == IF Fresh(m) THEN Append(call.fresh, m) ELSE call.fresh
           c  == [todo |-> Tail(call.todo), fresh |-> ms, folded |-> 0, parts |-> <<>>]
<1>1. /\ call.todo \in Seq(SignedMessages) /\ call.todo # <<>>
      /\ call.fresh \in Seq(ClientRoundMessage)
      /\ call.folded = 0 /\ call.parts = <<>>
      /\ call = [todo |-> call.todo, fresh |-> call.fresh,
                 folded |-> call.folded, parts |-> call.parts]
  BY BatchFacts DEF filter_message, InBatch
<1>2. call' = c
  <2>1. call' = [call EXCEPT !.todo = Tail(@), !.fresh = IF Fresh(m) THEN Append(@, m) ELSE @]
    BY DEF filter_message
  <2> QED BY <1>1, <2>1
<1>3. c.todo = Tail(call.todo) /\ c.fresh = ms /\ c.folded = 0 /\ c.parts = <<>>
  OBVIOUS
<1>4. PICK b \in Batches : \E n \in 0..Len(b) : call.todo = SubSeq(b, n + 1, Len(b))
  BY DEF InBatch
<1>5. PICK n \in 0..Len(b) : call.todo = SubSeq(b, n + 1, Len(b))
  BY <1>4
<1>6. b \in Seq(SignedMessages) /\ Len(b) \in Nat /\ \A i \in 1..Len(b) : IsSubmission(b[i].message)
  BY BatchAssumption
<1>7. n < Len(b) /\ Head(call.todo) = b[n + 1] /\ n + 1 \in 1..Len(b)
  BY <1>1, <1>5, <1>6
<1>8. Tail(call.todo) = SubSeq(b, (n + 1) + 1, Len(b)) /\ n + 1 \in 0..Len(b)
  <2>1. Tail(SubSeq(b, n + 1, Len(b))) = SubSeq(b, (n + 1) + 1, Len(b))
    BY <1>6, <1>7, TailOfRest
  <2> QED BY <1>5, <1>6, <1>7, <2>1
<1>9. IsSubmission(m)
  BY <1>6, <1>7
<1>10. m \in ClientRoundMessage
  BY <1>9, SubmissionType
<1> HIDE DEF m
<1>11. ms \in Seq(ClientRoundMessage)
  BY <1>1, <1>10
<1>12. Tail(call.todo) \in Seq(SignedMessages)
  BY <1>1
<1>13. \A i \in DOMAIN call.fresh : Admitted(call.fresh[i])
  BY DEF InBatch
<1>14. Uniform(call.fresh)
  BY DEF InBatch
<1>15. \A i \in DOMAIN ms : Admitted(ms[i])
  <2>1. CASE Fresh(m)
    <3>1. Admitted(m)
      BY <1>9, <2>1, FreshFits
    <3> QED BY <1>1, <1>13, <2>1, <3>1
  <2>2. CASE ~ Fresh(m)
    BY <1>13, <2>2
  <2> QED BY <2>1, <2>2
<1>16. Uniform(ms)
  <2>1. CASE Fresh(m)
    <3>1. \A i \in DOMAIN call.fresh :
            /\ call.fresh[i].round_number = m.round_number
            /\ call.fresh[i].all_server_ids = m.all_server_ids
            /\ call.fresh[i].shape = m.shape
            /\ call.fresh[i].signer # m.signer
      BY <1>9, <2>1, FreshFits
    <3> DEFINE L == Len(call.fresh)
    <3>2. /\ DOMAIN call.fresh = 1..L /\ DOMAIN ms = 1..L + 1 /\ L \in Nat
          /\ ms[L + 1] = m /\ \A i \in 1..L : ms[i] = call.fresh[i]
      BY <1>1, <1>10, <2>1
    <3> HIDE DEF ms, L
    <3>3. \A i \in DOMAIN ms : i \in 1..L \/ i = L + 1
      BY <3>2
    <3> QED BY <1>14, <3>1, <3>2, <3>3 DEF Uniform
  <2>2. CASE ~ Fresh(m)
    BY <1>14, <2>2
  <2> QED BY <2>1, <2>2
<1> HIDE DEF ms
<1>17. c \in Calls
  BY <1>11, <1>12 DEF Calls
<1> HIDE DEF c
<1>18. \E e \in Cuts(c) : IsCut(e, c.fresh, c.folded, c.parts)
  <2> DEFINE e == [k \in {0} |-> 0]
  <2>1. Len(<<>>) = 0 /\ 0 .. 0 = {0} /\ Len(ms) \in Nat
    BY <1>11
  <2>2. e \in Cuts(c)
    BY <1>3, <2>1 DEF Cuts
  <2>3. IsCut(e, c.fresh, c.folded, c.parts)
    BY <1>3, <2>1 DEF IsCut
  <2> QED BY <2>2, <2>3
<1>19. \E e \in Batches : \E k \in 0..Len(e) : c.todo = SubSeq(e, k + 1, Len(e))
  BY <1>3, <1>8
<1>20. Len(c.fresh) \in Nat /\ DOMAIN c.parts = {}
  BY <1>3, <1>11
<1>21. InBatch(c)
  <2>1. /\ \A i \in DOMAIN c.fresh : Admitted(c.fresh[i])
        /\ Uniform(c.fresh)
    BY <1>3, <1>15, <1>16
  <2>2. c.folded <= Len(c.fresh) /\ c.parts = <<>> /\ c.folded = 0
    BY <1>3, <1>20
  <2> QED BY <1>17, <1>18, <1>19, <1>20, <2>1, <2>2 DEF InBatch
<1> QED BY <1>2, <1>21, BatchStays DEF filter_message

-----------------------------------------------------------------------------
(***************************************************************************)
(* The parallel fold and its reduce.                                       *)
(***************************************************************************)
\* A batch whose messages are filtered, with other parts.
LEMMA PartsChange ==
  ASSUME InBatch(call), call.todo = <<>>, NEW n \in Nat, n <= Len(call.fresh),
         NEW ps \in Seq(AggregatedClientMessages),
         \A k \in DOMAIN ps : IsAggregation(ps[k]),
         NEW e \in [0 .. Len(ps) -> 0 .. Len(call.fresh)],
         IsCut(e, call.fresh, n, ps),
         call' = [call EXCEPT !.folded = n, !.parts = ps],
         UNCHANGED <<current_round, aggregate, authorized>>
  PROVE  InBatch(call)'
<1> DEFINE c == [todo |-> <<>>, fresh |-> call.fresh, folded |-> n, parts |-> ps]
<1>1. /\ call = [todo |-> call.todo, fresh |-> call.fresh, folded |-> call.folded,
                 parts |-> call.parts]
      /\ call.fresh \in Seq(ClientRoundMessage)
      /\ <<>> \in Seq(SignedMessages)
  BY BatchFacts
<1>2. call' = c
  BY <1>1
<1>3. c.todo = <<>> /\ c.fresh = call.fresh /\ c.folded = n /\ c.parts = ps
  OBVIOUS
<1>4. c \in Calls
  BY <1>1 DEF Calls
<1> HIDE DEF c
<1>5. e \in Cuts(c) /\ IsCut(e, c.fresh, c.folded, c.parts)
  BY <1>3 DEF Cuts
<1>6. \E b \in Batches : \E k \in 0..Len(b) : c.todo = SubSeq(b, k + 1, Len(b))
  BY <1>3 DEF InBatch
<1>7. InBatch(c)
  BY <1>3, <1>4, <1>5, <1>6 DEF InBatch
<1> QED BY <1>2, <1>7, BatchStays

\* Every message that is folded can be folded into a part that ends before it.
LEMMA NextFits ==
  ASSUME NEW ms, Submissions(ms), NEW lo \in Nat, NEW hi \in Nat,
         lo <= hi, hi < Len(ms), IsAggregation(Stretch(ms, lo, hi))
  PROVE  IsAggregation(Stretch(ms, lo, hi + 1))
<1> DEFINE m == ms[hi + 1]
           a == Stretch(ms, lo, hi)
<1>1. DOMAIN ms = 1..Len(ms) /\ Len(ms) \in Nat /\ hi + 1 \in DOMAIN ms /\ 1 \in DOMAIN ms
  BY DEF Submissions
<1>2. IsSubmission(m)
  BY <1>1 DEF Submissions
<1>3. /\ a.round_number = ms[1].round_number
      /\ a.all_server_ids = ms[1].all_server_ids
      /\ a.user_pks = Pks(ms, lo, hi)
  BY DEF Stretch, Pks
<1>4. a.round_number = m.round_number /\ a.all_server_ids = m.all_server_ids
  BY <1>1, <1>3 DEF Submissions, Uniform
<1>5. \A x \in Signers(Pks(ms, lo, hi)) : \E i \in lo + 1 .. hi : x = ms[i].signer
  <2>1. hi <= Len(ms)
    BY <1>1
  <2> QED BY <2>1, StretchPks
<1>6. \A i \in lo + 1 .. hi : ms[i].signer # m.signer
  <2>1. \A i \in lo + 1 .. hi : i \in DOMAIN ms /\ i # hi + 1
    BY <1>1
  <2> QED BY <1>1, <2>1 DEF Submissions, Uniform
<1>7. m.signer \notin Signers(a.user_pks)
  BY <1>3, <1>5, <1>6
<1>8. Fold(a, m) = Stretch(ms, lo, hi + 1)
  BY FoldExtends
<1> HIDE DEF a, m
<1>9. IsAggregation(a)
  BY DEF a
<1>10. IsAggregation(Fold(a, m))
  BY <1>2, <1>4, <1>7, <1>9, FoldIsAggregation
<1> QED BY <1>8, <1>10

\* The first message of a stretch.
LEMMA BeginKeepsBatch ==
  ASSUME InBatch(call), begin_stretch
  PROVE  InBatch(call)'
<1> DEFINE ms == call.fresh
           n  == call.folded
           L  == Len(call.parts)
           new == Stretch(ms, n, n + 1)
           ps == Append(call.parts, new)
<1>1. /\ call.todo = <<>> /\ n < Len(ms)
      /\ call' = [call EXCEPT !.folded = n + 1,
                    !.parts = Append(call.parts, Fold(EmptyFor(ms[1]), ms[n + 1]))]
      /\ UNCHANGED <<current_round, aggregate, authorized>>
  BY DEF begin_stretch, fold_message, NextToFold
<1>2. /\ n \in Nat /\ Len(ms) \in Nat /\ DOMAIN ms = 1..Len(ms) /\ Submissions(ms)
      /\ L \in Nat /\ DOMAIN call.parts = 1..L /\ call.parts \in Seq(AggregatedClientMessages)
  BY BatchFacts
<1>3. PICK b \in Cuts(call) : IsCut(b, ms, n, call.parts)
  BY DEF InBatch
<1>4. Fold(EmptyFor(ms[1]), ms[n + 1]) = new
  BY <1>1, <1>2, ZeroIsStretch, FoldExtends
<1>5. IsAggregation(new)
  <2>1. 1 \in DOMAIN ms
    BY <1>1, <1>2
  <2>2. IsAggregation(Stretch(ms, n, n))
    BY <1>2, <2>1, EmptyForIsAggregation, ZeroIsStretch DEF Submissions
  <2> QED BY <1>1, <1>2, <2>2, NextFits
<1>6. new \in AggregatedClientMessages
  BY <1>5, AggregationType
<1> HIDE DEF new
<1>7. /\ ps \in Seq(AggregatedClientMessages) /\ Len(ps) = L + 1 /\ DOMAIN ps = 1 .. L + 1
      /\ ps[L + 1] = new /\ \A k \in 1..L : ps[k] = call.parts[k]
  BY <1>2, <1>6
<1> DEFINE e == [k \in 0 .. L + 1 |-> IF k = L + 1 THEN n + 1 ELSE b[k]]
<1>8. \A k \in 0..L : b[k] \in 0 .. Len(ms)
  BY <1>3 DEF Cuts
<1>9. e \in [0 .. L + 1 -> 0 .. Len(ms)]
  BY <1>1, <1>2, <1>8
<1>10. e[0] = 0 /\ e[L] = n /\ e[L + 1] = n + 1 /\ \A k \in 0..L : e[k] = b[k]
  BY <1>2, <1>3 DEF IsCut
<1> HIDE DEF e, ps, L
<1>11. \A k \in 1 .. L + 1 : e[k - 1] < e[k] /\ ps[k] = Stretch(ms, e[k - 1], e[k])
  <2> SUFFICES ASSUME NEW k \in 1 .. L + 1
               PROVE  e[k - 1] < e[k] /\ ps[k] = Stretch(ms, e[k - 1], e[k])
    OBVIOUS
  <2>1. CASE k = L + 1
    <3>1. k - 1 = L
      BY <1>2, <2>1
    <3> QED BY <1>2, <1>7, <1>10, <2>1, <3>1 DEF new
  <2>2. CASE k # L + 1
    <3>1. k \in 1..L /\ k \in 0..L /\ k - 1 \in 0..L
      BY <1>2, <2>2
    <3> QED BY <1>3, <1>7, <1>10, <3>1 DEF IsCut, L
  <2> QED BY <2>1, <2>2
<1>12. IsCut(e, ms, n + 1, ps)
  BY <1>7, <1>10, <1>11 DEF IsCut
<1>13. \A k \in DOMAIN ps : IsAggregation(ps[k])
  <2>1. \A k \in 1..L : IsAggregation(call.parts[k])
    BY <1>2 DEF InBatch
  <2>2. \A k \in 1 .. L + 1 : k \in 1..L \/ k = L + 1
    BY <1>2
  <2> QED BY <1>5, <1>7, <2>1, <2>2
<1>14. n + 1 \in Nat /\ n + 1 <= Len(ms)
  BY <1>1, <1>2
<1>15. call' = [call EXCEPT !.folded = n + 1, !.parts = ps]
  BY <1>1, <1>4 DEF ps
<1>16. e \in [0 .. Len(ps) -> 0 .. Len(ms)]
  BY <1>7, <1>9
<1> HIDE DEF ms, n
<1> QED BY <1>1, <1>7, <1>12, <1>13, <1>14, <1>15, <1>16, PartsChange DEF ms

\* One more message of a stretch.
LEMMA ExtendKeepsBatch ==
  ASSUME InBatch(call), extend_stretch
  PROVE  InBatch(call)'
<1> DEFINE ms == call.fresh
           n  == call.folded
           L  == Len(call.parts)
<1>1. /\ call.todo = <<>> /\ n < Len(ms) /\ call.parts # <<>>
      /\ call' = [call EXCEPT !.folded = n + 1,
                    !.parts = [call.parts EXCEPT ![L] = Fold(@, ms[n + 1])]]
      /\ UNCHANGED <<current_round, aggregate, authorized>>
  BY DEF extend_stretch, fold_message, NextToFold
<1>2. /\ n \in Nat /\ Len(ms) \in Nat /\ DOMAIN ms = 1..Len(ms) /\ Submissions(ms)
      /\ L \in Nat /\ DOMAIN call.parts = 1..L /\ call.parts \in Seq(AggregatedClientMessages)
  BY BatchFacts
<1>3. L \in 1..L
  BY <1>1, <1>2
<1>4. PICK b \in Cuts(call) :
        /\ IsCut(b, ms, n, call.parts)
        /\ \A k \in 0..L : b[k] \in Nat /\ b[k] <= Len(ms)
        /\ \A k \in 1..L :
             /\ b[k - 1] \in Nat /\ b[k - 1] <= Len(ms) /\ b[k - 1] < b[k]
             /\ call.parts[k] = Stretch(ms, b[k - 1], b[k])
  BY CutFacts
<1> DEFINE lo == b[L - 1]
           new == Stretch(ms, lo, n + 1)
<1>5. b[0] = 0 /\ b[L] = n /\ lo \in Nat /\ lo < n /\ call.parts[L] = Stretch(ms, lo, n)
  BY <1>3, <1>4 DEF IsCut
<1>6. Fold(call.parts[L], ms[n + 1]) = new
  <2>1. lo <= n
    BY <1>2, <1>5
  <2> QED BY <1>1, <1>2, <1>5, <2>1, FoldExtends
<1>7. IsAggregation(new)
  <2>1. IsAggregation(Stretch(ms, lo, n))
    BY <1>2, <1>3, <1>5 DEF InBatch
  <2>2. lo <= n
    BY <1>2, <1>5
  <2> QED BY <1>1, <1>2, <1>5, <2>1, <2>2, NextFits
<1>8. new \in AggregatedClientMessages
  BY <1>7, AggregationType
<1> HIDE DEF new
<1> DEFINE ps == [call.parts EXCEPT ![L] = new]
           e  == [k \in 0..L |-> IF k = L THEN n + 1 ELSE b[k]]
<1>9. /\ ps \in Seq(AggregatedClientMessages) /\ Len(ps) = L /\ DOMAIN ps = 1..L
      /\ ps[L] = new /\ \A k \in 1..L : k # L => ps[k] = call.parts[k]
  BY <1>2, <1>3, <1>8
<1>10. e \in [0..L -> 0..Len(ms)]
  BY <1>1, <1>2, <1>4
<1>11. e[0] = 0 /\ e[L] = n + 1 /\ \A k \in 0..L : k # L => e[k] = b[k]
  BY <1>2, <1>3, <1>5
<1>12. call' = [call EXCEPT !.folded = n + 1, !.parts = ps]
  BY <1>1, <1>6
<1> HIDE DEF e, ps, L
<1>13. \A k \in 1..L : e[k - 1] < e[k] /\ ps[k] = Stretch(ms, e[k - 1], e[k])
  <2> SUFFICES ASSUME NEW k \in 1..L
               PROVE  e[k - 1] < e[k] /\ ps[k] = Stretch(ms, e[k - 1], e[k])
    OBVIOUS
  <2>1. k - 1 \in 0..L /\ k \in 0..L /\ k - 1 # L
    BY <1>2
  <2>2. CASE k = L
    <3>1. e[k - 1] = lo
      BY <1>11, <2>1, <2>2
    <3> QED BY <1>2, <1>5, <1>9, <1>11, <2>2, <3>1 DEF new
  <2>3. CASE k # L
    BY <1>4, <1>9, <1>11, <2>1, <2>3
  <2> QED BY <2>2, <2>3
<1>14. IsCut(e, ms, n + 1, ps)
  BY <1>9, <1>11, <1>13 DEF IsCut
<1>15. \A k \in DOMAIN ps : IsAggregation(ps[k])
  BY <1>2, <1>7, <1>9 DEF InBatch
<1>16. n + 1 \in Nat /\ n + 1 <= Len(ms)
  BY <1>1, <1>2
<1>17. e \in [0 .. Len(ps) -> 0 .. Len(ms)]
  BY <1>9, <1>10
<1> HIDE DEF ms, n
<1> QED BY <1>1, <1>9, <1>12, <1>14, <1>15, <1>16, <1>17, PartsChange DEF ms

\* Where the entries of two lists stand in the list of both.
LEMMA ConcatFacts ==
  ASSUME NEW S, NEW p \in Seq(S), NEW q \in Seq(S)
  PROVE  /\ p \o q \in Seq(S) /\ Len(p \o q) = Len(p) + Len(q)
         /\ \A j \in 1..Len(p) : (p \o q)[j] = p[j]
         /\ \A j \in 1..Len(q) : (p \o q)[Len(p) + j] = q[j]
OBVIOUS

\* Which part stands where after one union of the reduce.
LEMMA ReducedParts ==
  ASSUME NEW S, NEW ps \in Seq(S), NEW k \in 1 .. Len(ps) - 1,
         Union(ps[k], ps[k + 1]) \in S
  PROVE  /\ Reduced(ps, k) \in Seq(S) /\ Len(Reduced(ps, k)) = Len(ps) - 1
         /\ \A j \in 1 .. k - 1 : Reduced(ps, k)[j] = ps[j]
         /\ Reduced(ps, k)[k] = Union(ps[k], ps[k + 1])
         /\ \A j \in k + 1 .. Len(ps) - 1 : Reduced(ps, k)[j] = ps[j + 1]
<1> DEFINE L == Len(ps)
           u == Union(ps[k], ps[k + 1])
           l == SubSeq(ps, 1, k - 1)
           r == SubSeq(ps, k + 2, L)
<1>1. L \in Nat /\ k \in Nat /\ k + 1 <= L /\ 1 <= k
  OBVIOUS
<1>2. /\ l \in Seq(S) /\ Len(l) = k - 1 /\ \A j \in 1 .. k - 1 : l[j] = ps[j]
  BY <1>1
<1>3. /\ r \in Seq(S) /\ Len(r) = L - (k + 1)
      /\ \A j \in 1 .. L - (k + 1) : r[j] = ps[k + 1 + j]
  <2>1. r = [j \in 1 .. L - (k + 1) |-> ps[k + 1 + j]]
    BY <1>1
  <2>2. \A j \in 1 .. L - (k + 1) : k + 1 + j \in 1..L
    BY <1>1
  <2>3. \A i \in 1..L : ps[i] \in S
    OBVIOUS
  <2>4. r \in [1 .. L - (k + 1) -> S]
    BY <2>1, <2>2, <2>3
  <2>5. L - (k + 1) \in Nat
    BY <1>1
  <2> QED BY <2>1, <2>4, <2>5
<1> HIDE DEF l, r, u, L
<1>4. <<u>> \in Seq(S) /\ Len(<<u>>) = 1 /\ <<u>>[1] = u
  BY DEF u
<1> DEFINE m == l \o <<u>>
<1>5. /\ m \in Seq(S) /\ Len(m) = k /\ m[k] = u
      /\ \A j \in 1 .. k - 1 : m[j] = ps[j]
  BY <1>1, <1>2, <1>4
<1> HIDE DEF m
<1>6. /\ m \o r \in Seq(S) /\ Len(m \o r) = L - 1
      /\ \A j \in 1..k : (m \o r)[j] = m[j]
      /\ \A j \in 1 .. L - (k + 1) : (m \o r)[k + j] = r[j]
  <2>1. /\ m \o r \in Seq(S) /\ Len(m \o r) = Len(m) + Len(r)
        /\ \A j \in 1..Len(m) : (m \o r)[j] = m[j]
        /\ \A j \in 1..Len(r) : (m \o r)[Len(m) + j] = r[j]
    <3>1. m \in Seq(S) /\ r \in Seq(S)
      BY <1>3, <1>5
    <3> QED BY <3>1, ConcatFacts
  <2>2. k + (L - (k + 1)) = L - 1
    BY <1>1
  <2> QED BY <1>3, <1>5, <2>1, <2>2
<1>7. \A j \in k + 1 .. L - 1 : (m \o r)[j] = ps[j + 1]
  <2> SUFFICES ASSUME NEW j \in k + 1 .. L - 1
               PROVE  (m \o r)[j] = ps[j + 1]
    OBVIOUS
  <2>1. j - k \in 1 .. L - (k + 1) /\ k + (j - k) = j /\ k + 1 + (j - k) = j + 1
    BY <1>1
  <2> QED BY <1>3, <1>6, <2>1
<1>8. Reduced(ps, k) = m \o r
  BY DEF Reduced, m, l, r, u, L
<1>9. k \in 1..k /\ \A j \in 1 .. k - 1 : j \in 1..k
  BY <1>1
<1> QED BY <1>5, <1>6, <1>7, <1>8, <1>9 DEF u, L

\* One union of the reduce joins two stretches that follow each other.
LEMMA ReduceKeepsBatch ==
  ASSUME InBatch(call), NEW k, reduce(k)
  PROVE  InBatch(call)'
<1> DEFINE ms == call.fresh
           n  == call.folded
           L  == Len(call.parts)
           ps == Reduced(call.parts, k)
           new == Union(call.parts[k], call.parts[k + 1])
<1>1. /\ k \in 1 .. L - 1 /\ CanUnion(call.parts[k], call.parts[k + 1])
      /\ n = Len(ms)
      /\ call' = [call EXCEPT !.parts = ps]
      /\ UNCHANGED <<current_round, aggregate, authorized>>
  BY DEF reduce
<1>2. /\ n \in Nat /\ Len(ms) \in Nat /\ Submissions(ms)
      /\ L \in Nat /\ DOMAIN call.parts = 1..L /\ call.parts \in Seq(AggregatedClientMessages)
      /\ call = [todo |-> call.todo, fresh |-> call.fresh, folded |-> call.folded,
                 parts |-> call.parts]
  BY BatchFacts
<1>3. call.todo = <<>>
  BY <1>1, <1>2 DEF InBatch
<1>4. PICK b \in Cuts(call) :
        /\ IsCut(b, ms, n, call.parts)
        /\ \A j \in 0..L : b[j] \in Nat /\ b[j] <= Len(ms)
        /\ \A j \in 1..L :
             /\ b[j - 1] \in Nat /\ b[j - 1] <= Len(ms) /\ b[j - 1] < b[j]
             /\ call.parts[j] = Stretch(ms, b[j - 1], b[j])
  BY CutFacts
<1>5. new = Stretch(ms, b[k - 1], b[k + 1])
  BY <1>1, <1>4, NeighboursUnite
<1>6. k \in 1..L /\ k + 1 \in 1..L /\ k \in Nat
  BY <1>1, <1>2
<1>7. IsAggregation(new)
  BY <1>1, <1>2, <1>6, UnionIsAggregation DEF InBatch
<1>8. new \in AggregatedClientMessages
  BY <1>7, AggregationType
<1>9. /\ ps \in Seq(AggregatedClientMessages) /\ Len(ps) = L - 1
      /\ \A j \in 1 .. k - 1 : ps[j] = call.parts[j]
      /\ ps[k] = new
      /\ \A j \in k + 1 .. L - 1 : ps[j] = call.parts[j + 1]
  BY <1>1, <1>2, <1>8, ReducedParts
<1> DEFINE e == [j \in 0 .. L - 1 |-> IF j < k THEN b[j] ELSE b[j + 1]]
<1>10. \A j \in 0 .. L - 1 : j \in 0..L /\ j + 1 \in 0..L
  BY <1>2
<1>11. e \in [0 .. L - 1 -> 0 .. Len(ms)]
  BY <1>2, <1>4, <1>10
<1>12. /\ \A j \in 0 .. L - 1 : j < k => e[j] = b[j]
       /\ \A j \in 0 .. L - 1 : ~ (j < k) => e[j] = b[j + 1]
  OBVIOUS
<1>13. call' = [call EXCEPT !.folded = n, !.parts = ps]
  BY <1>1, <1>2
<1> HIDE DEF e, ps, L, new
<1>14. e[0] = 0 /\ e[L - 1] = n
  <2>1. 0 < k /\ 0 \in 0 .. L - 1 /\ L - 1 \in 0 .. L - 1 /\ ~ (L - 1 < k) /\ (L - 1) + 1 = L
    BY <1>1, <1>2
  <2> QED BY <1>4, <1>12, <2>1 DEF IsCut, L
<1>15. \A j \in 1 .. L - 1 : e[j - 1] < e[j] /\ ps[j] = Stretch(ms, e[j - 1], e[j])
  <2> SUFFICES ASSUME NEW j \in 1 .. L - 1
               PROVE  e[j - 1] < e[j] /\ ps[j] = Stretch(ms, e[j - 1], e[j])
    OBVIOUS
  <2>1. /\ j - 1 \in 0 .. L - 1 /\ j \in 0 .. L - 1 /\ j \in 1..L /\ j + 1 \in 1..L
        /\ (j + 1) - 1 = j /\ (j - 1) + 1 = j /\ j \in Nat
    BY <1>2
  <2>2. CASE j < k
    <3>1. j \in 1 .. k - 1 /\ j - 1 < k
      BY <1>6, <2>1, <2>2
    <3>2. e[j - 1] = b[j - 1] /\ e[j] = b[j]
      BY <1>12, <2>1, <2>2, <3>1
    <3> QED BY <1>4, <1>9, <2>1, <3>1, <3>2
  <2>3. CASE j = k
    <3>1. j - 1 < k /\ ~ (j < k)
      BY <1>6, <2>1, <2>3
    <3>2. e[j - 1] = b[k - 1] /\ e[j] = b[k + 1]
      BY <1>12, <2>1, <2>3, <3>1
    <3>3. b[k - 1] < b[k] /\ b[k] < b[k + 1]
      BY <1>4, <2>1, <2>3
    <3>4. b[k - 1] \in Nat /\ b[k] \in Nat /\ b[k + 1] \in Nat
      BY <1>4, <1>10, <2>1, <2>3
    <3>5. b[k - 1] < b[k + 1]
      BY <3>3, <3>4
    <3> QED BY <1>5, <1>9, <2>3, <3>2, <3>5
  <2>4. CASE k < j
    <3>1. j \in k + 1 .. L - 1 /\ ~ (j < k) /\ ~ (j - 1 < k)
      BY <1>2, <1>6, <2>1, <2>4, SMTT(30)
    <3>2. e[j - 1] = b[j] /\ e[j] = b[j + 1]
      BY <1>12, <2>1, <3>1
    <3>3. b[(j + 1) - 1] < b[j + 1]
          /\ call.parts[j + 1] = Stretch(ms, b[(j + 1) - 1], b[j + 1])
      BY <1>4, <2>1
    <3> QED BY <1>9, <2>1, <3>1, <3>2, <3>3
  <2> QED BY <1>6, <2>1, <2>2, <2>3, <2>4
<1>16. IsCut(e, ms, n, ps)
  BY <1>9, <1>14, <1>15 DEF IsCut
<1>17. \A j \in DOMAIN ps : IsAggregation(ps[j])
  <2>1. \A j \in 1..L : IsAggregation(call.parts[j])
    BY <1>2 DEF InBatch
  <2>2. DOMAIN ps = 1 .. L - 1
    BY <1>9
  <2>3. \A j \in 1 .. L - 1 :
          \/ j \in 1 .. k - 1 /\ j \in 1..L
          \/ j = k
          \/ j \in k + 1 .. L - 1 /\ j + 1 \in 1..L
    BY <1>2, <1>6
  <2> QED BY <1>7, <1>9, <2>1, <2>2, <2>3
<1>18. e \in [0 .. Len(ps) -> 0 .. Len(ms)] /\ n <= Len(ms)
  BY <1>1, <1>2, <1>9, <1>11
<1> HIDE DEF ms, n
<1> QED BY <1>1, <1>2, <1>3, <1>9, <1>13, <1>16, <1>17, <1>18, PartsChange DEF ms

-----------------------------------------------------------------------------
(***************************************************************************)
(* The end of a batch, and the merges.                                     *)
(***************************************************************************)
\* union_inplace, the left aggregate empty or not, gives an aggregation.
LEMMA UnionInplaceKept ==
  ASSUME NEW a, IsKept(a), NEW o, IsAggregation(o), CanUnionInplace(a, o)
  PROVE  /\ IsAggregation(UnionInplace(a, o))
         /\ UnionInplace(a, o).round_number = o.round_number
         /\ Signers(UnionInplace(a, o).user_pks)
              = Signers(a.user_pks) \cup Signers(o.user_pks)
<1>1. CASE a = Empty
  <2>1. Signers(Empty.user_pks) = {}
    BY DEF Empty, Signers
  <2> QED BY <1>1, <2>1 DEF UnionInplace
<1>2. CASE a # Empty
  <2>1. IsAggregation(a) /\ CanUnion(a, o)
    BY <1>2 DEF IsKept, CanUnionInplace
  <2>2. IsAggregation(Union(a, o))
    BY <2>1, UnionIsAggregation
  <2>3. /\ Union(a, o).round_number = o.round_number
        /\ Union(a, o).user_pks = a.user_pks \o o.user_pks
    BY <2>1 DEF Union, CanUnion
  <2>4. a.user_pks \in Seq(Clients) /\ o.user_pks \in Seq(Clients)
    BY <2>1 DEF IsAggregation
  <2> QED BY <1>2, <2>2, <2>3, <2>4, SignersOfConcat DEF UnionInplace
<1> QED BY <1>1, <1>2

\* Whatever leaves the aggregator's state alone leaves it settled.
LEMMA SettledStays ==
  ASSUME Settled, UNCHANGED <<current_round, aggregate, authorized, returned, merged>>
  PROVE  Settled'
BY DEF Settled, Previous

LEMMA PreviousKept ==
  ASSUME Settled
  PROVE  IsKept(Previous)
BY DEF Settled, Previous, IsKept

\* What a batch adds to the running aggregate.
LEMMA FinishSettles ==
  ASSUME Settled, InBatch(call), finish_batch
  PROVE  /\ Settled' /\ call' = None
         /\ aggregate' = UnionInplace(Previous, call.parts[1])
         /\ Signers(aggregate'.user_pks) \ Signers(Previous.user_pks) \subseteq authorized
<1> DEFINE p == call.parts[1]
<1>1. /\ Folded /\ call' = None
      /\ UNCHANGED <<current_round, authorized, merged>>
  BY DEF finish_batch
<1>2. /\ IsAggregation(p) /\ p.round_number = current_round
      /\ Signers(p.user_pks) \subseteq authorized
      /\ CanUnionInplace(Previous, p)
  BY <1>1, FoldedFacts
<1> DEFINE u == UnionInplace(Previous, p)
<1>3. aggregate' = u /\ returned' = returned \cup {u}
  BY <1>2 DEF finish_batch, UnionWithPrevious
<1>4. /\ IsAggregation(u) /\ u.round_number = current_round
      /\ Signers(u.user_pks) = Signers(Previous.user_pks) \cup Signers(p.user_pks)
  BY <1>2, PreviousKept, UnionInplaceKept
<1> HIDE DEF u, p
<1>5. Settled'
  <2>1. IsKept(u)
    BY <1>4 DEF IsKept
  <2>2. \A a \in returned' : IsKept(a)
    BY <1>3, <2>1 DEF Settled
  <2>3. (Previous # Empty => aggregate.round_number = current_round)'
    BY <1>1, <1>3, <1>4 DEF Previous
  <2>4. (aggregate # None => IsKept(aggregate))'
    BY <1>3, <2>1
  <2> QED BY <1>1, <2>2, <2>3, <2>4 DEF Settled
<1> QED BY <1>1, <1>2, <1>3, <1>4, <1>5 DEF u, p

LEMMA FinishEmptySettles ==
  ASSUME Settled, finish_without_messages
  PROVE  /\ Settled' /\ call' = None /\ aggregate' = Previous
<1>1. /\ aggregate' = Previous /\ returned' = returned \cup {Previous}
      /\ call' = None /\ UNCHANGED <<current_round, authorized, merged>>
  BY DEF finish_without_messages
<1>2. IsKept(Previous)
  BY PreviousKept
<1>3. (aggregate # None => IsKept(aggregate))'
  BY <1>1, <1>2
<1>4. (Previous # Empty => aggregate.round_number = current_round)'
  BY <1>1 DEF Previous, Settled
<1>5. \A a \in returned' : IsKept(a)
  BY <1>1, <1>2 DEF Settled
<1> QED BY <1>1, <1>3, <1>4, <1>5 DEF Settled

\* One aggregate of aggregate_aggregates.
LEMMA MergeStepKept ==
  ASSUME NEW r, NEW a, NEW o, IsKept(a), IsKept(o),
         a # Empty => a.round_number = r,
         NEW u, u = MergeStep(r, a, o), u # None
  PROVE  IsKept(u) /\ (u # Empty => u.round_number = r)
<1>1. /\ o.round_number = r /\ CanUnionInplace(a, o) /\ u = UnionInplace(a, o)
  BY DEF MergeStep
<1>2. CASE IsAggregation(o)
  BY <1>1, <1>2, UnionInplaceKept DEF IsKept
<1>3. CASE o = Empty /\ a = Empty
  BY <1>1, <1>3 DEF UnionInplace, IsKept
<1>4. CASE o = Empty /\ a # Empty
  <2>1. a.round_number \in 1..MaxRound
    BY <1>4 DEF IsKept, IsAggregation, Rounds
  <2>2. o.round_number = 0
    BY <1>4 DEF Empty
  <2>3. a.round_number = o.round_number
    BY <1>1, <1>4
  <2> QED BY <2>1, <2>2, <2>3, RoundAssumption
<1> QED BY <1>2, <1>3, <1>4 DEF IsKept

LEMMA MergeSettles ==
  ASSUME Settled, NEW r, NEW a \in Mergeable, NEW o \in Mergeable,
         aggregate_aggregates(r, a, o)
  PROVE  Settled'
<1> DEFINE first  == MergeStep(r, Empty, a)
           result == MergeStep(r, first, o)
           m == [round |-> r, result |-> result]
<1>1. /\ result # None /\ merged' = m
      /\ UNCHANGED <<current_round, aggregate, authorized, returned>>
  BY DEF aggregate_aggregates
<1>2. IsKept(a) /\ IsKept(o)
  <2> SUFFICES ASSUME NEW x \in Mergeable
               PROVE  IsKept(x)
    OBVIOUS
  <2>1. CASE x \in returned
    BY <2>1 DEF Settled
  <2>2. CASE x \in Leaves
    BY <2>2, LeafAssumption DEF IsKept
  <2>3. CASE x \in {y.result : y \in {merged} \ {None}}
    BY <2>3 DEF Settled
  <2> QED BY <2>1, <2>2, <2>3 DEF Mergeable
<1>3. first # None
  BY <1>1 DEF MergeStep
<1>4. IsKept(Empty)
  BY DEF IsKept
<1> HIDE DEF first
<1>5. IsKept(first) /\ (first # Empty => first.round_number = r)
  BY <1>2, <1>3, <1>4, MergeStepKept DEF first
<1>6. IsKept(result) /\ (result # Empty => result.round_number = r)
  BY <1>1, <1>2, <1>5, MergeStepKept
<1>7. m.result = result /\ m.round = r
  OBVIOUS
<1> HIDE DEF result, m
<1> QED BY <1>1, <1>6, <1>7 DEF Settled, Previous

-----------------------------------------------------------------------------
(***************************************************************************)
(* The invariant.                                                          *)
(***************************************************************************)
LEMMA InitInvariant == Init => IInv
<1> SUFFICES ASSUME Init
             PROVE  IInv
  OBVIOUS
<1>1. 0 \in 0..MaxRound
  BY RoundAssumption
<1>2. Settled
  BY <1>1 DEF Init, Settled, Previous
<1> QED BY <1>2 DEF Init, IInv, Batched

\* A record of a batch in progress is not None.
LEMMA CallIsCall ==
  ASSUME InBatch(call)'
  PROVE  call' # None
BY CallAssumption DEF InBatch

LEMMA AdvanceStep ==
  ASSUME IInv, NEW r \in Rounds, advance_to_round(r)
  PROVE  IInv'
<1>1. call' = None /\ UNCHANGED <<authorized, returned, merged>>
      /\ current_round' = r /\ aggregate' = None
  BY DEF advance_to_round
<1>2. r \in 0..MaxRound
  BY DEF Rounds
<1>3. Settled'
  BY <1>1, <1>2 DEF IInv, Settled, Previous
<1> QED BY <1>1, <1>3 DEF IInv, Batched

LEMMA RegisterStep ==
  ASSUME IInv, NEW c \in Clients, register_client(c) \/ deregister_client(c)
  PROVE  IInv'
<1>1. /\ call' = None /\ authorized' \subseteq Clients
      /\ UNCHANGED <<current_round, aggregate, returned, merged>>
  BY DEF register_client, deregister_client, IInv, Settled
<1>2. Settled'
  BY <1>1 DEF IInv, Settled, Previous
<1> QED BY <1>1, <1>2 DEF IInv, Batched

\* The steps of a batch that are not its last.
BatchStep ==
  \/ filter_message
  \/ begin_stretch
  \/ extend_stretch
  \/ \E k : reduce(k)

LEMMA BatchStepKeeps ==
  ASSUME IInv, BatchStep
  PROVE  /\ call # None /\ InBatch(call) /\ InBatch(call)'
         /\ UNCHANGED <<current_round, aggregate, authorized, returned, merged>>
<1>1. call # None /\ UNCHANGED <<current_round, aggregate, authorized, returned, merged>>
  BY DEF BatchStep, filter_message, begin_stretch, extend_stretch, fold_message, reduce
<1>2. Settled /\ InBatch(call)
  BY <1>1 DEF IInv, Batched
<1>3. InBatch(call)'
  BY <1>2, FilterKeepsBatch, BeginKeepsBatch, ExtendKeepsBatch, ReduceKeepsBatch
     DEF BatchStep
<1> QED BY <1>1, <1>2, <1>3

LEMMA NextInvariant == IInv /\ [Next]_vars => IInv'
<1> SUFFICES ASSUME IInv, [Next]_vars
             PROVE  IInv'
  OBVIOUS
<1>1. CASE \E r \in Rounds : advance_to_round(r)
  BY <1>1, AdvanceStep
<1>2. CASE \E c \in Clients : register_client(c)
  BY <1>2, RegisterStep
<1>3. CASE \E c \in Clients : deregister_client(c)
  BY <1>3, RegisterStep
<1>4. CASE \E b \in Batches : process_client_messages(b)
  <2>1. Batched'
    BY <1>4, BatchBegins
  <2>2. UNCHANGED <<current_round, aggregate, authorized, returned, merged>>
    BY <1>4 DEF process_client_messages
  <2> QED BY <2>1, <2>2, SettledStays DEF IInv
<1>5. CASE BatchStep
  BY <1>5, BatchStepKeeps, SettledStays DEF IInv, Batched
<1>6. CASE finish_without_messages
  BY <1>6, FinishEmptySettles DEF IInv, Batched
<1>7. CASE finish_batch
  <2>1. InBatch(call)
    BY <1>7 DEF finish_batch, Folded, IInv, Batched
  <2> QED BY <1>7, <2>1, FinishSettles DEF IInv, Batched
<1>8. CASE \E r \in 0..MaxRound, a, o \in Mergeable : aggregate_aggregates(r, a, o)
  <2>1. Settled'
    BY <1>8, MergeSettles DEF IInv
  <2>2. call' = None
    BY <1>8 DEF aggregate_aggregates
  <2> QED BY <2>1, <2>2 DEF IInv, Batched
<1>9. CASE UNCHANGED vars
  <2>1. UNCHANGED <<current_round, aggregate, authorized, returned, merged>> /\ call' = call
    BY <1>9 DEF vars
  <2>2. Settled'
    BY <2>1, SettledStays DEF IInv
  <2>3. Batched'
    <3> SUFFICES ASSUME call' # None
                 PROVE  InBatch(call)'
      BY DEF Batched
    <3>1. InBatch(call')
      BY <2>1 DEF IInv, Batched
    <3> QED BY <2>1, <3>1, BatchStays
  <2> QED BY <2>2, <2>3 DEF IInv
<1> QED BY <1>1, <1>2, <1>3, <1>4, <1>5, <1>6, <1>7, <1>8, <1>9 DEF Next, BatchStep

\* The invariant holds of every state.
THEOREM Invariant == Spec => []IInv
<1>1. Init => IInv
  BY InitInvariant
<1>2. IInv /\ [Next]_vars => IInv'
  BY NextInvariant
<1> QED BY <1>1, <1>2, PTL DEF Spec

-----------------------------------------------------------------------------
(***************************************************************************)
(* The properties.                                                         *)
(***************************************************************************)
\* Every state has its type: what a batch still holds is a rest of a batch
\* that was passed, and what is kept has the type of the wire.
THEOREM TypeCorrect == Spec => []TypeOK
<1>1. IInv => TypeOK
  <2> SUFFICES ASSUME IInv
               PROVE  TypeOK
    OBVIOUS
  <2>1. aggregate \in {None, Empty} \cup AggregatedClientMessages
    BY KeptType DEF IInv, Settled
  <2>2. returned \subseteq {Empty} \cup AggregatedClientMessages
    BY KeptType DEF IInv, Settled
  <2>3. merged # None => merged.result \in {Empty} \cup AggregatedClientMessages
    BY KeptType DEF IInv, Settled
  <2>4. call # None =>
          /\ call \in Calls /\ call.folded <= Len(call.fresh)
          /\ \E b \in Batches : \E n \in 0..Len(b) : call.todo = SubSeq(b, n + 1, Len(b))
    BY DEF IInv, Batched, InBatch
  <2> QED BY <2>1, <2>2, <2>3, <2>4 DEF IInv, Settled, TypeOK
<1> QED BY <1>1, Invariant, PTL

\* An aggregate that is returned (process_verified_messages) counts one message
\* of each client it lists, whatever the batches hold and however often they
\* are passed again: what ServerService assumes of its Aggregations.
THEOREM OneMessageEach == Spec => []ReturnsAggregations
<1>1. IInv => ReturnsAggregations
  BY DEF IInv, Settled, IsKept, ReturnsAggregations
<1> QED BY <1>1, Invariant, PTL

\* No union of a batch fails: neither the expect of the parallel reduce nor
\* the last one, with what was kept.
THEOREM NoUnionFails == Spec => []BatchNeverFails
<1>1. IInv => BatchNeverFails
  <2> SUFFICES ASSUME IInv, call # None
               PROVE  /\ \A k \in 1 .. Len(call.parts) - 1 :
                           CanUnion(call.parts[k], call.parts[k + 1])
                      /\ Folded => CanUnionInplace(Previous, call.parts[1])
    BY DEF BatchNeverFails, Folded
  <2>1. Settled /\ InBatch(call)
    BY DEF IInv, Batched
  <2>2. PICK b \in Cuts(call) : IsCut(b, call.fresh, call.folded, call.parts)
    BY <2>1 DEF InBatch
  <2>3. \A k \in 1 .. Len(call.parts) - 1 : CanUnion(call.parts[k], call.parts[k + 1])
    BY <2>1, <2>2, NeighboursUnite
  <2>4. Folded => CanUnionInplace(Previous, call.parts[1])
    BY <2>1, FoldedFacts
  <2> QED BY <2>3, <2>4
<1> QED BY <1>1, Invariant, PTL

\* However rayon splits a batch and whichever neighbours it unites first, the
\* sum is the same, and lists the clients in the order of their messages.
THEOREM SplitsMakeNoDifference == Spec => []SplitsAgree
<1>1. IInv => SplitsAgree
  <2> SUFFICES ASSUME IInv, Folded
               PROVE  call.parts[1] = SumOf(call.fresh)
    BY DEF SplitsAgree
  <2>1. Settled /\ InBatch(call)
    BY DEF IInv, Batched, Folded
  <2>2. call.parts[1] = Stretch(call.fresh, 0, Len(call.fresh)) /\ Submissions(call.fresh)
    BY <2>1, FoldedFacts, BatchFacts
  <2> QED BY <2>2, WholeStretch
<1> QED BY <1>1, Invariant, PTL

\* What aggregate_aggregates makes of aggregates of other aggregators, or of
\* its own results, counts one message of each client, and is of the round
\* that was asked for.
THEOREM MergesCountOnce == Spec => []MergesAreAggregations
<1>1. IInv => MergesAreAggregations
  BY DEF IInv, Settled, IsKept, MergesAreAggregations
<1> QED BY <1>1, Invariant, PTL

\* The first list is where it was in the list of both.
LEMMA PrefixOfConcat ==
  ASSUME NEW S, NEW p \in Seq(S), NEW q \in Seq(S)
  PROVE  Len(p) <= Len(p \o q) /\ SubSeq(p \o q, 1, Len(p)) = p
<1>1. /\ p \o q \in Seq(S) /\ Len(p \o q) = Len(p) + Len(q)
      /\ \A j \in 1..Len(p) : (p \o q)[j] = p[j]
  BY ConcatFacts
<1>2. Len(p) \in Nat /\ Len(q) \in Nat
  OBVIOUS
<1> DEFINE w == p \o q
           s == SubSeq(w, 1, Len(p))
<1> HIDE DEF w
<1>3. w \in Seq(S) /\ Len(w) = Len(p) + Len(q) /\ \A j \in 1..Len(p) : w[j] = p[j]
  BY <1>1 DEF w
<1>4. s \in Seq(S) /\ Len(s) = Len(p) /\ \A j \in 1..Len(p) : s[j] = w[j]
  BY <1>2, <1>3
<1> HIDE DEF s
<1>5. s = p
  BY <1>2, <1>3, <1>4, SameList
<1> QED BY <1>2, <1>3, <1>5 DEF s, w

\* Which steps change the running aggregate, and which end a batch.
LEMMA StepKinds ==
  ASSUME IInv, [Next]_vars
  PROVE  \/ aggregate' = aggregate /\ (call = None \/ call' # None \/ call' = call)
         \/ current_round' # current_round /\ call = None
         \/ finish_without_messages
         \/ finish_batch
<1>1. CASE \E r \in Rounds : advance_to_round(r)
  BY <1>1 DEF advance_to_round, IInv, Settled, Rounds
<1>2. CASE \/ \E c \in Clients : register_client(c) \/ deregister_client(c)
           \/ \E b \in Batches : process_client_messages(b)
           \/ \E r \in 0..MaxRound, a, o \in Mergeable : aggregate_aggregates(r, a, o)
  BY <1>2 DEF register_client, deregister_client, process_client_messages,
              aggregate_aggregates
<1>3. CASE BatchStep
  BY <1>3, BatchStepKeeps, CallIsCall
<1>4. CASE UNCHANGED vars
  BY <1>4 DEF vars
<1> QED BY <1>1, <1>2, <1>3, <1>4 DEF Next, BatchStep

\* Within a round the running aggregate only grows, at its end: a client that
\* was counted keeps its place.
THEOREM Growth == Spec => GrowsWithinRound
<1> DEFINE old == aggregate.user_pks
           new == aggregate'.user_pks
<1>1. ASSUME IInv, [Next]_vars, aggregate # None, current_round' = current_round
      PROVE  Len(old) <= Len(new) /\ SubSeq(new, 1, Len(old)) = old
  <2>1. IsKept(aggregate) /\ Previous = aggregate
    BY <1>1 DEF IInv, Settled, Previous
  <2>2. old \in Seq(Clients)
    <3>1. Empty.user_pks = <<>> /\ <<>> \in Seq(Clients)
      BY DEF Empty
    <3> QED BY <2>1, <3>1 DEF IsKept, IsAggregation
  <2>3. CASE aggregate' = aggregate
    <3>1. /\ Len(old) \in Nat /\ SubSeq(old, 1, Len(old)) \in Seq(Clients)
          /\ Len(SubSeq(old, 1, Len(old))) = Len(old)
          /\ \A i \in 1..Len(old) : SubSeq(old, 1, Len(old))[i] = old[i]
      BY <2>2
    <3> HIDE DEF old
    <3>2. SubSeq(old, 1, Len(old)) = old
      BY <2>2, <3>1, SameList
    <3> QED BY <2>3, <3>1, <3>2 DEF old
  <2>4. CASE finish_batch
    <3> DEFINE p == call.parts[1]
    <3>1. Settled /\ InBatch(call)
      BY <1>1, <2>4 DEF IInv, Batched, finish_batch, Folded
    <3>2. aggregate' = UnionInplace(aggregate, p) /\ IsAggregation(p)
      BY <2>1, <2>4, <3>1, FinishSettles, FoldedFacts DEF finish_batch
    <3>3. p.user_pks \in Seq(Clients)
      BY <3>2 DEF IsAggregation
    <3>4. CASE aggregate = Empty
      <4>1. old = <<>>
        BY <3>4 DEF Empty
      <4>2. new = p.user_pks
        BY <3>2, <3>4 DEF UnionInplace
      <4> HIDE DEF old, new, p
      <4>3. <<>> \o new = new /\ <<>> \in Seq(Clients)
        BY <3>3, <4>2
      <4> QED BY <3>3, <4>1, <4>2, <4>3, PrefixOfConcat
    <3>5. CASE aggregate # Empty
      <4>1. new = old \o p.user_pks
        BY <3>2, <3>5 DEF UnionInplace, Union
      <4> HIDE DEF old, new, p
      <4> QED BY <2>2, <3>3, <4>1, PrefixOfConcat
    <3> QED BY <3>4, <3>5
  <2>5. CASE finish_without_messages
    BY <2>1, <2>3, <2>5 DEF finish_without_messages
  <2> QED BY <1>1, <2>3, <2>4, <2>5, StepKinds
<1>2. IInv /\ [Next]_vars =>
        [aggregate # None /\ current_round' = current_round =>
           Len(old) <= Len(new) /\ SubSeq(new, 1, Len(old)) = old]_vars
  BY <1>1
<1> QED BY <1>2, Invariant, PTL DEF Spec, GrowsWithinRound

\* A client that is not registered when process_verified_messages returns is
\* not one of those it added: no deregistration slips in behind the check.
THEOREM OnlyRegistered == Spec => AddsRegisteredOnly
<1>1. ASSUME IInv, [Next]_vars, call # None, call' = None
      PROVE  Signers(aggregate'.user_pks) \ Signers(Previous.user_pks)
               \subseteq authorized'
  <2>1. CASE finish_batch
    <3>1. Settled /\ InBatch(call)
      BY <1>1 DEF IInv, Batched
    <3>2. authorized' = authorized
      BY <2>1 DEF finish_batch
    <3> QED BY <2>1, <3>1, <3>2, FinishSettles
  <2>2. CASE finish_without_messages
    BY <2>2 DEF finish_without_messages
  <2> QED BY <1>1, <2>1, <2>2, StepKinds
<1>2. IInv /\ [Next]_vars =>
        [call # None /\ call' = None =>
           Signers(aggregate'.user_pks) \ Signers(Previous.user_pks)
             \subseteq authorized']_vars
  BY <1>1
<1> QED BY <1>2, Invariant, PTL DEF Spec, AddsRegisteredOnly
=============================================================================
