-------------------------- MODULE AggregatesProofs --------------------------
(***************************************************************************)
(* Lemmas about the vectors of Blinding and the operations of Aggregates,  *)
(* for every set of clients, servers and drafts.                           *)
(***************************************************************************)
EXTENDS Aggregates, TLAPS

-----------------------------------------------------------------------------
(***************************************************************************)
(* Vectors.                                                                *)
(***************************************************************************)

\* Adding the vectors of two disjoint sets of terms (add_mod_slice) gives the
\* vector of their union: no coefficient grows past one.
LEMMA SumOfDisjoint ==
  ASSUME NEW A, NEW B, A \cap B = {}
  PROVE  Add(Sum(A), Sum(B)) = Sum(A \cup B)
<1> SUFFICES ASSUME NEW x \in Term
             PROVE  Sum(A)[x] + Sum(B)[x] = Sum(A \cup B)[x]
  BY DEF Add, Sum
<1> QED BY DEF Sum

\* Subtracting the vector of a subset (sub_mod_slice) leaves the rest.
LEMMA SumOfRest ==
  ASSUME NEW A, NEW B, B \subseteq A
  PROVE  Sub(Sum(A), Sum(B)) = Sum(A \ B)
<1> SUFFICES ASSUME NEW x \in Term
             PROVE  Sum(A)[x] - Sum(B)[x] = Sum(A \ B)[x]
  BY DEF Sub, Sum
<1> QED BY DEF Sum

\* The same two facts for xor_inplace.
LEMMA XorOfDisjoint ==
  ASSUME NEW A, NEW B, A \cap B = {}
  PROVE  Xor(A, B) = A \cup B
BY DEF Xor

LEMMA XorOfRest ==
  ASSUME NEW A, NEW B, B \subseteq A
  PROVE  Xor(A, B) = A \ B
BY DEF Xor

\* Vectors have the type of vectors.
LEMMA VectorTypes ==
  /\ ZeroVector \in AuctionVector
  /\ \A S : Sum(S) \in AuctionVector
  /\ \A u, v \in AuctionVector : Add(u, v) \in AuctionVector /\ Sub(u, v) \in AuctionVector
  /\ \A u, v \in MessageVector : Xor(u, v) \in MessageVector
BY DEF ZeroVector, Sum, Add, Sub, Xor, AuctionVector, MessageVector

\* Contents and pads of known clients, servers, rounds and drafts are terms.
LEMMA TermTypes ==
  ASSUME NEW r \in Rounds
  PROVE  /\ \A c \in Clients, d \in Drafts : Content(c, r, d) \in Term
         /\ \A cs \in SUBSET Clients, ss \in SUBSET Servers :
              PadSet(cs, ss, r) \in SUBSET Term
BY DEF Term, Contents, Pads, PadSet

-----------------------------------------------------------------------------
(***************************************************************************)
(* Types of the messages and of what is made from them.                    *)
(***************************************************************************)

\* A client message has the wire type.
LEMMA SubmissionType ==
  ASSUME NEW m, IsSubmission(m)
  PROVE  m \in ClientRoundMessage
<1>1. PICK d \in Drafts :
        m = Blind(m.signer, m.round_number, d, m.all_server_ids, m.shape)
  BY DEF IsSubmission
<1>2. /\ m.signer \in Clients /\ m.round_number \in Rounds
      /\ m.all_server_ids \in SUBSET Servers /\ m.shape \in Shapes
  BY DEF IsSubmission
<1> DEFINE terms == {Content(m.signer, m.round_number, d)}
                      \cup PadSet({m.signer}, m.all_server_ids, m.round_number)
<1>3. terms \in MessageVector
  BY <1>2, TermTypes DEF MessageVector
<1>4. Sum(terms) \in AuctionVector
  BY VectorTypes
<1>5. m = [round_number |-> m.round_number, all_server_ids |-> m.all_server_ids,
           shape |-> m.shape, auction_vector |-> Sum(terms),
           message_vector |-> terms, signer |-> m.signer]
  BY <1>1 DEF Blind
<1> QED BY <1>2, <1>3, <1>4, <1>5 DEF ClientRoundMessage

\* An aggregate of client messages has the wire type.
LEMMA AggregationType ==
  ASSUME NEW a, IsAggregation(a)
  PROVE  a \in AggregatedClientMessages
<1>1. PICK draft \in [Clients -> Drafts] :
        a = AggregateOf(a.user_pks, a.round_number, draft, a.all_server_ids, a.shape)
  BY DEF IsAggregation
<1>2. /\ a.user_pks \in Seq(Clients) /\ a.round_number \in Rounds
      /\ a.all_server_ids \in SUBSET Servers /\ a.shape \in Shapes
  BY DEF IsAggregation
<1> DEFINE cs    == Signers(a.user_pks)
           terms == {Content(c, a.round_number, draft[c]) : c \in cs}
                      \cup PadSet(cs, a.all_server_ids, a.round_number)
<1>3. cs \in SUBSET Clients
  BY <1>2 DEF Signers
<1>4. terms \in MessageVector
  <2>1. PadSet(cs, a.all_server_ids, a.round_number) \in SUBSET Term
    BY <1>2, <1>3, TermTypes
  <2>2. {Content(c, a.round_number, draft[c]) : c \in cs} \in SUBSET Term
    BY <1>1, <1>2, <1>3, TermTypes
  <2> QED BY <2>1, <2>2 DEF MessageVector
<1>5. Sum(terms) \in AuctionVector
  BY VectorTypes
<1>6. a = [round_number |-> a.round_number, all_server_ids |-> a.all_server_ids,
           shape |-> a.shape, auction_vector |-> Sum(terms),
           message_vector |-> terms, user_pks |-> a.user_pks]
  BY <1>1 DEF AggregateOf
<1> HIDE DEF terms
<1> QED BY <1>2, <1>4, <1>5, <1>6 DEF AggregatedClientMessages

\* Folding, uniting and unblinding stay within the wire types.
LEMMA FoldType ==
  ASSUME NEW a \in AggregatedClientMessages, NEW m \in ClientRoundMessage
  PROVE  Fold(a, m) \in AggregatedClientMessages
<1>1. /\ Add(a.auction_vector, m.auction_vector) \in AuctionVector
      /\ Xor(a.message_vector, m.message_vector) \in MessageVector
      /\ Append(a.user_pks, m.signer) \in Seq(Clients)
  BY VectorTypes DEF AggregatedClientMessages, ClientRoundMessage
<1> QED BY <1>1 DEF Fold, AggregatedClientMessages

LEMMA EmptyForType ==
  ASSUME NEW m \in ClientRoundMessage
  PROVE  EmptyFor(m) \in AggregatedClientMessages
BY VectorTypes DEF EmptyFor, AggregatedClientMessages, ClientRoundMessage,
                   MessageVector

LEMMA UnionType ==
  ASSUME NEW a \in AggregatedClientMessages, NEW o \in AggregatedClientMessages
  PROVE  Union(a, o) \in AggregatedClientMessages
<1>1. /\ Add(a.auction_vector, o.auction_vector) \in AuctionVector
      /\ Xor(a.message_vector, o.message_vector) \in MessageVector
      /\ a.user_pks \o o.user_pks \in Seq(Clients)
  BY VectorTypes DEF AggregatedClientMessages
<1> QED BY <1>1 DEF Union, AggregatedClientMessages

LEMMA UnblindType ==
  ASSUME NEW s \in Servers, NEW a \in AggregatedClientMessages
  PROVE  UnblindAggregate(s, a.round_number, a) \in ServerPartialDecryptionMessage
<1> DEFINE pads == PadSet(Signers(a.user_pks), {s}, a.round_number)
<1>1. a.user_pks \in Seq(Clients) /\ a.round_number \in Rounds
  BY DEF AggregatedClientMessages
<1>2. Signers(a.user_pks) \in SUBSET Clients
  BY <1>1 DEF Signers
<1>3. pads \in MessageVector /\ Sum(pads) \in AuctionVector
  BY <1>1, <1>2, TermTypes, VectorTypes DEF MessageVector
<1> QED BY <1>1, <1>3 DEF UnblindAggregate, ServerPartialDecryptionMessage

-----------------------------------------------------------------------------
(***************************************************************************)
(* What the operations compute.                                            *)
(***************************************************************************)

\* The pads of different clients, and of different servers, are different.
LEMMA PadsApart ==
  ASSUME NEW r
  PROVE  /\ \A A, B, ss : A \cap B = {} =>
              PadSet(A, ss, r) \cap PadSet(B, ss, r) = {}
         /\ \A cs, S, T : S \cap T = {} =>
              PadSet(cs, S, r) \cap PadSet(cs, T, r) = {}
         /\ \A A, B, ss : PadSet(A \cup B, ss, r) = PadSet(A, ss, r) \cup PadSet(B, ss, r)
         /\ \A cs, S, T : PadSet(cs, S \ T, r) = PadSet(cs, S, r) \ PadSet(cs, T, r)
<1>1. \A c, s, d, t : Pad(c, s, r) = Pad(d, t, r) => c = d /\ s = t
  BY DEF Pad
<1>2. \A cs, ss, x : x \in PadSet(cs, ss, r) <=> \E c \in cs, s \in ss : x = Pad(c, s, r)
  BY DEF PadSet
<1>3. \A A, B, ss : A \cap B = {} => PadSet(A, ss, r) \cap PadSet(B, ss, r) = {}
  BY <1>1, <1>2
<1>4. \A cs, S, T : S \cap T = {} => PadSet(cs, S, r) \cap PadSet(cs, T, r) = {}
  BY <1>1, <1>2
<1>5. ASSUME NEW A, NEW B, NEW ss
      PROVE  PadSet(A \cup B, ss, r) = PadSet(A, ss, r) \cup PadSet(B, ss, r)
  BY <1>2
<1>6. ASSUME NEW cs, NEW S, NEW T
      PROVE  PadSet(cs, S \ T, r) = PadSet(cs, S, r) \ PadSet(cs, T, r)
  BY <1>1, <1>2
<1> QED BY <1>3, <1>4, <1>5, <1>6

\* The signers of a list with one more entry, and of two lists in a row.
LEMMA SignersOfAppend ==
  ASSUME NEW p \in Seq(Clients), NEW c \in Clients
  PROVE  Signers(Append(p, c)) = Signers(p) \cup {c}
<1>1. /\ DOMAIN Append(p, c) = 1..Len(p) + 1
      /\ DOMAIN p = 1..Len(p)
      /\ \A i \in 1..Len(p) : Append(p, c)[i] = p[i]
      /\ Append(p, c)[Len(p) + 1] = c
      /\ Len(p) \in Nat
  OBVIOUS
<1> QED BY <1>1 DEF Signers

LEMMA SignersOfConcat ==
  ASSUME NEW p \in Seq(Clients), NEW q \in Seq(Clients)
  PROVE  Signers(p \o q) = Signers(p) \cup Signers(q)
<1>1. /\ DOMAIN (p \o q) = 1..(Len(p) + Len(q))
      /\ DOMAIN p = 1..Len(p) /\ DOMAIN q = 1..Len(q)
      /\ \A i \in 1..Len(p) : (p \o q)[i] = p[i]
      /\ \A i \in 1..Len(q) : (p \o q)[Len(p) + i] = q[i]
      /\ Len(p) \in Nat /\ Len(q) \in Nat
  OBVIOUS
<1>2. \A i \in 1..(Len(p) + Len(q)) :
        i \in 1..Len(p) \/ \E j \in 1..Len(q) : i = Len(p) + j
  <2> SUFFICES ASSUME NEW i \in 1..(Len(p) + Len(q)), i \notin 1..Len(p)
               PROVE  \E j \in 1..Len(q) : i = Len(p) + j
    OBVIOUS
  <2>1. i - Len(p) \in 1..Len(q) /\ i = Len(p) + (i - Len(p))
    BY <1>1
  <2> QED BY <2>1
<1>3. \A j \in 1..Len(q) : Len(p) + j \in 1..(Len(p) + Len(q))
  BY <1>1
<1>4. \A i \in 1..Len(p) : i \in 1..(Len(p) + Len(q))
  BY <1>1
<1>5. Signers(p \o q) \subseteq Signers(p) \cup Signers(q)
  <2> SUFFICES ASSUME NEW i \in DOMAIN (p \o q)
               PROVE  (p \o q)[i] \in Signers(p) \cup Signers(q)
    BY DEF Signers
  <2>1. CASE i \in 1..Len(p)
    BY <1>1, <2>1 DEF Signers
  <2>2. CASE \E j \in 1..Len(q) : i = Len(p) + j
    BY <1>1, <2>2 DEF Signers
  <2> QED BY <1>1, <1>2, <2>1, <2>2
<1>6. Signers(p) \subseteq Signers(p \o q)
  BY <1>1, <1>4 DEF Signers
<1>7. Signers(q) \subseteq Signers(p \o q)
  <2> SUFFICES ASSUME NEW j \in 1..Len(q)
               PROVE  q[j] \in Signers(p \o q)
    BY <1>1 DEF Signers
  <2> QED BY <1>1, <1>3 DEF Signers
<1> QED BY <1>5, <1>6, <1>7

\* Two lists that pass the duplicate check of union_inplace have no signer in
\* common.
LEMMA ConcatApart ==
  ASSUME NEW p \in Seq(Clients), NEW q \in Seq(Clients), NoDuplicates(p \o q)
  PROVE  Signers(p) \cap Signers(q) = {}
<1> SUFFICES ASSUME NEW i \in DOMAIN p, NEW j \in DOMAIN q, p[i] = q[j]
             PROVE  FALSE
  BY DEF Signers
<1>1. i \in 1..Len(p) /\ j \in 1..Len(q) /\ Len(p) \in Nat /\ Len(q) \in Nat
  OBVIOUS
<1>2. /\ i \in DOMAIN (p \o q) /\ Len(p) + j \in DOMAIN (p \o q)
      /\ (p \o q)[i] = p[i] /\ (p \o q)[Len(p) + j] = q[j]
  BY <1>1
<1>3. i # Len(p) + j
  BY <1>1
<1> QED BY <1>2, <1>3 DEF NoDuplicates

LEMMA AppendNoDuplicates ==
  ASSUME NEW p \in Seq(Clients), NEW c \in Clients,
         NoDuplicates(p), c \notin Signers(p)
  PROVE  NoDuplicates(Append(p, c))
<1>1. /\ DOMAIN Append(p, c) = 1..Len(p) + 1
      /\ DOMAIN p = 1..Len(p)
      /\ \A i \in 1..Len(p) : Append(p, c)[i] = p[i]
      /\ Append(p, c)[Len(p) + 1] = c
      /\ Len(p) \in Nat
  OBVIOUS
<1>2. \A i \in 1..Len(p) : p[i] # c
  BY <1>1 DEF Signers
<1> QED BY <1>1, <1>2 DEF NoDuplicates

-----------------------------------------------------------------------------
\* The terms of an aggregate of the clients cs.
Terms(cs, r, draft, roster) ==
  {Content(c, r, draft[c]) : c \in cs} \cup PadSet(cs, roster, r)

\* The drafts of the clients in A from da, of the others from db.
Merge(A, da, db) == [c \in Clients |-> IF c \in A THEN da[c] ELSE db[c]]

TermsUnite(A, B, r, da, db, roster) ==
  /\ Terms(A, r, da, roster) \cap Terms(B, r, db, roster) = {}
  /\ Terms(A \cup B, r, Merge(A, da, db), roster)
       = Terms(A, r, da, roster) \cup Terms(B, r, db, roster)

\* The terms of two disjoint sets of clients are disjoint, and together are
\* the terms of the union, each client keeping its content.
LEMMA TermsOfUnion ==
  ASSUME NEW A \in SUBSET Clients, NEW B \in SUBSET Clients, A \cap B = {},
         NEW r, NEW roster,
         NEW da \in [Clients -> Drafts], NEW db \in [Clients -> Drafts]
  PROVE  TermsUnite(A, B, r, da, db, roster)
<1> DEFINE d == Merge(A, da, db)
<1>1. d \in [Clients -> Drafts]
  BY DEF Merge
<1>2. \A c \in A : d[c] = da[c]
  BY DEF Merge
<1>3. \A c \in B : d[c] = db[c]
  BY DEF Merge
<1> HIDE DEF d
<1>4. \A c, e, x, y : Content(c, r, x) = Content(e, r, y) => c = e
  BY DEF Content
<1>5. \A c, x, e, s : Content(c, r, x) # Pad(e, s, r)
  BY DEF Content, Pad
<1>6. PadSet(A, roster, r) \cap PadSet(B, roster, r) = {}
  BY PadsApart
<1>7. PadSet(A \cup B, roster, r) = PadSet(A, roster, r) \cup PadSet(B, roster, r)
  BY PadsApart
<1>8. \A C, dd : {Content(c, r, dd[c]) : c \in C} \cap PadSet(A, roster, r) = {}
  BY <1>5 DEF PadSet
<1>9. \A C, dd : {Content(c, r, dd[c]) : c \in C} \cap PadSet(B, roster, r) = {}
  BY <1>5 DEF PadSet
<1>10. {Content(c, r, da[c]) : c \in A} \cap {Content(c, r, db[c]) : c \in B} = {}
  BY <1>4
<1>11. {Content(c, r, d[c]) : c \in A \cup B}
         = {Content(c, r, da[c]) : c \in A} \cup {Content(c, r, db[c]) : c \in B}
  BY <1>2, <1>3
<1>12. Terms(A, r, da, roster) \cap Terms(B, r, db, roster) = {}
  BY <1>6, <1>8, <1>9, <1>10 DEF Terms
<1>13. Terms(A \cup B, r, d, roster)
         = Terms(A, r, da, roster) \cup Terms(B, r, db, roster)
  BY <1>7, <1>11 DEF Terms
<1> QED BY <1>12, <1>13 DEF d, TermsUnite

\* So the vectors of the two add up, and XOR up, to the vectors of the union.
VectorsAddUp(A, B, r, da, db, roster) ==
  LET T == Terms(A \cup B, r, Merge(A, da, db), roster)
  IN  /\ Add(Sum(Terms(A, r, da, roster)), Sum(Terms(B, r, db, roster))) = Sum(T)
      /\ Xor(Terms(A, r, da, roster), Terms(B, r, db, roster)) = T

LEMMA VectorsOfUnion ==
  ASSUME NEW A \in SUBSET Clients, NEW B \in SUBSET Clients, A \cap B = {},
         NEW r, NEW roster,
         NEW da \in [Clients -> Drafts], NEW db \in [Clients -> Drafts]
  PROVE  VectorsAddUp(A, B, r, da, db, roster)
<1> DEFINE X == Terms(A, r, da, roster)
           Y == Terms(B, r, db, roster)
           T == Terms(A \cup B, r, Merge(A, da, db), roster)
<1>1. X \cap Y = {} /\ T = X \cup Y
  <2>1. TermsUnite(A, B, r, da, db, roster)
    BY TermsOfUnion
  <2> QED BY <2>1 DEF TermsUnite
<1> HIDE DEF X, Y, T
<1>3. Add(Sum(X), Sum(Y)) = Sum(T) /\ Xor(X, Y) = T
  BY <1>1, SumOfDisjoint, XorOfDisjoint
<1> QED BY <1>3 DEF X, Y, T, VectorsAddUp

\* What IsAggregation says, with the terms named.
LEMMA AggregationTerms ==
  ASSUME NEW a, IsAggregation(a)
  PROVE  /\ Signers(a.user_pks) \in SUBSET Clients
         /\ \E draft \in [Clients -> Drafts] :
              LET T == Terms(Signers(a.user_pks), a.round_number, draft,
                             a.all_server_ids)
              IN  a.auction_vector = Sum(T) /\ a.message_vector = T
<1>1. Signers(a.user_pks) \in SUBSET Clients
  BY DEF IsAggregation, Signers
<1>2. PICK draft \in [Clients -> Drafts] :
        a = AggregateOf(a.user_pks, a.round_number, draft, a.all_server_ids, a.shape)
  BY DEF IsAggregation
<1> DEFINE T == Terms(Signers(a.user_pks), a.round_number, draft, a.all_server_ids)
<1>3. a = [round_number |-> a.round_number, all_server_ids |-> a.all_server_ids,
           shape |-> a.shape, auction_vector |-> Sum(T), message_vector |-> T,
           user_pks |-> a.user_pks]
  BY <1>2 DEF AggregateOf, Terms
<1>4. a.auction_vector = Sum(T) /\ a.message_vector = T
  <2> HIDE DEF T
  <2> QED BY <1>3
<1> QED BY <1>1, <1>4

\* And the converse, to show that something is an aggregation.
LEMMA MakeAggregation ==
  ASSUME NEW pks \in Seq(Clients), NoDuplicates(pks), NEW r \in Rounds,
         NEW roster \in SUBSET Servers, NEW shape \in Shapes,
         NEW draft \in [Clients -> Drafts],
         NEW T, T = Terms(Signers(pks), r, draft, roster)
  PROVE  IsAggregation([round_number |-> r, all_server_ids |-> roster,
                        shape |-> shape, auction_vector |-> Sum(T),
                        message_vector |-> T, user_pks |-> pks])
<1> DEFINE a == [round_number |-> r, all_server_ids |-> roster,
                 shape |-> shape, auction_vector |-> Sum(T),
                 message_vector |-> T, user_pks |-> pks]
<1>1. a = AggregateOf(pks, r, draft, roster, shape)
  BY DEF AggregateOf, Terms
<1>2. /\ a.user_pks = pks /\ a.round_number = r
      /\ a.all_server_ids = roster /\ a.shape = shape
  OBVIOUS
<1> HIDE DEF a
<1>3. IsAggregation(a)
  BY <1>1, <1>2 DEF IsAggregation
<1> QED BY <1>3 DEF a

\* The zero-filled aggregate lists nobody and sums nothing.
LEMMA EmptyForIsAggregation ==
  ASSUME NEW m, IsSubmission(m)
  PROVE  IsAggregation(EmptyFor(m))
<1>1. PICK d \in Drafts : TRUE
  BY DEF IsSubmission
<1> DEFINE draft == [c \in Clients |-> d]
           T     == Terms(Signers(<<>>), m.round_number, draft, m.all_server_ids)
<1>2. draft \in [Clients -> Drafts] /\ <<>> \in Seq(Clients) /\ NoDuplicates(<<>>)
  BY DEF NoDuplicates
<1>3. T = {}
  BY DEF Terms, Signers, PadSet
<1>4. Sum(T) = ZeroVector
  BY <1>3 DEF Sum, ZeroVector
<1> HIDE DEF T, draft
<1>5. IsAggregation([round_number |-> m.round_number,
                     all_server_ids |-> m.all_server_ids, shape |-> m.shape,
                     auction_vector |-> Sum(T), message_vector |-> T,
                     user_pks |-> <<>>])
  BY <1>2, MakeAggregation DEF T, IsSubmission
<1> QED BY <1>3, <1>4, <1>5 DEF EmptyFor

\* Folding the message of a client that is not listed yet, of the same round,
\* roster and shape, keeps an aggregation an aggregation.
LEMMA FoldIsAggregation ==
  ASSUME NEW a, IsAggregation(a), NEW m, IsSubmission(m),
         a.round_number = m.round_number,
         a.all_server_ids = m.all_server_ids,
         m.signer \notin Signers(a.user_pks)
  PROVE  IsAggregation(Fold(a, m))
<1> DEFINE r  == a.round_number
           ro == a.all_server_ids
           A  == Signers(a.user_pks)
           B  == {m.signer}
<1>1. PICK da \in [Clients -> Drafts] :
        /\ a.auction_vector = Sum(Terms(A, r, da, ro))
        /\ a.message_vector = Terms(A, r, da, ro)
  BY AggregationTerms
<1>2. PICK e \in Drafts :
        m = Blind(m.signer, m.round_number, e, m.all_server_ids, m.shape)
  BY DEF IsSubmission
<1>3. m.signer \in Clients
  BY DEF IsSubmission
<1>b. PICK db \in [Clients -> Drafts] : db[m.signer] = e
  <2> WITNESS [c \in Clients |-> e] \in [Clients -> Drafts]
  <2> QED BY <1>3
<1>4. /\ m.auction_vector = Sum(Terms(B, r, db, ro))
      /\ m.message_vector = Terms(B, r, db, ro)
  <2>1. {Content(c, r, db[c]) : c \in B} = {Content(m.signer, r, e)}
    BY <1>b
  <2>2. Terms(B, r, db, ro)
          = {Content(m.signer, m.round_number, e)}
              \cup PadSet({m.signer}, m.all_server_ids, m.round_number)
    BY <2>1 DEF Terms
  <2> DEFINE T == {Content(m.signer, m.round_number, e)}
                    \cup PadSet({m.signer}, m.all_server_ids, m.round_number)
  <2>3. m = [round_number |-> m.round_number, all_server_ids |-> m.all_server_ids,
             shape |-> m.shape, auction_vector |-> Sum(T), message_vector |-> T,
             signer |-> m.signer]
    BY <1>2 DEF Blind
  <2>4. m.auction_vector = Sum(T) /\ m.message_vector = T
    <3> HIDE DEF T
    <3> QED BY <2>3
  <2> QED BY <2>2, <2>4
<1>5. A \in SUBSET Clients /\ B \in SUBSET Clients /\ A \cap B = {}
  BY <1>3, AggregationTerms
<1> DEFINE d == Merge(A, da, db)
           T == Terms(A \cup B, r, d, ro)
<1>6. d \in [Clients -> Drafts]
  BY DEF Merge
<1>7. /\ Add(a.auction_vector, m.auction_vector) = Sum(T)
      /\ Xor(a.message_vector, m.message_vector) = T
  <2>1. VectorsAddUp(A, B, r, da, db, ro)
    BY <1>5, VectorsOfUnion
  <2> QED BY <1>1, <1>4, <2>1 DEF VectorsAddUp
<1>8. /\ a.user_pks \in Seq(Clients) /\ NoDuplicates(a.user_pks)
      /\ r \in Rounds /\ ro \in SUBSET Servers /\ a.shape \in Shapes
  BY DEF IsAggregation
<1> DEFINE pks == Append(a.user_pks, m.signer)
<1>9. pks \in Seq(Clients) /\ NoDuplicates(pks) /\ Signers(pks) = A \cup B
  BY <1>3, <1>8, AppendNoDuplicates, SignersOfAppend
<1>10. T = Terms(Signers(pks), r, d, ro)
  BY <1>9
<1> HIDE DEF T, d, pks
<1>11. IsAggregation([round_number |-> r, all_server_ids |-> ro, shape |-> a.shape,
                      auction_vector |-> Sum(T), message_vector |-> T,
                      user_pks |-> pks])
  BY <1>8, <1>9, <1>10, <1>6, MakeAggregation
<1> QED BY <1>7, <1>11 DEF Fold, pks

\* The union that union_inplace allows keeps an aggregation an aggregation.
LEMMA UnionIsAggregation ==
  ASSUME NEW a, IsAggregation(a), NEW o, IsAggregation(o), CanUnion(a, o)
  PROVE  IsAggregation(Union(a, o))
<1> DEFINE r  == a.round_number
           ro == a.all_server_ids
           A  == Signers(a.user_pks)
           B  == Signers(o.user_pks)
<1>1. PICK da \in [Clients -> Drafts] :
        /\ a.auction_vector = Sum(Terms(A, r, da, ro))
        /\ a.message_vector = Terms(A, r, da, ro)
  BY AggregationTerms
<1>2. PICK db \in [Clients -> Drafts] :
        /\ o.auction_vector = Sum(Terms(B, r, db, ro))
        /\ o.message_vector = Terms(B, r, db, ro)
  BY AggregationTerms DEF CanUnion
<1>3. /\ a.user_pks \in Seq(Clients) /\ o.user_pks \in Seq(Clients)
      /\ r \in Rounds /\ ro \in SUBSET Servers /\ a.shape \in Shapes
  BY DEF IsAggregation
<1> DEFINE pks == a.user_pks \o o.user_pks
<1>4. pks \in Seq(Clients) /\ NoDuplicates(pks) /\ Signers(pks) = A \cup B
  BY <1>3, SignersOfConcat DEF CanUnion
<1>5. A \in SUBSET Clients /\ B \in SUBSET Clients /\ A \cap B = {}
  BY <1>3, AggregationTerms, ConcatApart DEF CanUnion
<1> DEFINE d == Merge(A, da, db)
           T == Terms(A \cup B, r, d, ro)
<1>6. d \in [Clients -> Drafts]
  BY DEF Merge
<1>7. /\ Add(a.auction_vector, o.auction_vector) = Sum(T)
      /\ Xor(a.message_vector, o.message_vector) = T
  <2>1. VectorsAddUp(A, B, r, da, db, ro)
    BY <1>5, VectorsOfUnion
  <2> QED BY <1>1, <1>2, <2>1 DEF VectorsAddUp
<1>8. T = Terms(Signers(pks), r, d, ro)
  BY <1>4
<1> HIDE DEF T, d, pks
<1>9. IsAggregation([round_number |-> r, all_server_ids |-> ro, shape |-> a.shape,
                     auction_vector |-> Sum(T), message_vector |-> T,
                     user_pks |-> pks])
  BY <1>3, <1>4, <1>8, <1>6, MakeAggregation
<1> QED BY <1>7, <1>9 DEF Union, pks
=============================================================================
