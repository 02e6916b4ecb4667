------------------------------ MODULE IbltRound ------------------------------
(***************************************************************************)
(* A round of lookup tables, in numbers: every client encodes a table with *)
(* one entry or none, adds its pads, the vectors are summed up, the shares *)
(* of the servers are taken off, and what is left is decoded and peeled.   *)
(* This is what Iblt takes for granted when it inserts the entries of all  *)
(* clients into one table.  The client's side is auction_iblt.rs or        *)
(* iblt_msg.rs with field_round.rs; the rest is src/primitives.            *)
(*                                                                         *)
(* Client i shares the secret <<i, s>> with server s, and a secret is the  *)
(* keystream it gives for this round.                                      *)
(***************************************************************************)
EXTENDS Iblt, VectorSums

CONSTANTS
  Servers,          \* how many
  Keystream,        \* [secrets -> sequences of words]
  Contributions,    \* the entries a client may have
  MaxClients,       \* bound on the vectors of a round
  Threads           \* what rayon::current_num_threads may be

VARIABLES
  vectors           \* the blinded vectors, of clients 1, 2, ...

roundVars == <<vars, vectors>>

Secrets == (1 .. MaxClients) \X (1 .. Servers)

\* Elements of an encoded table: the counters, the keys, the values.
NCells     == Gamma * Delta
EncodedLen == 3 * NCells

ASSUME RoundAssumption ==
  /\ Servers \in Nat /\ MaxClients \in Nat /\ Threads \subseteq Nat \ {0}
  /\ Contributions \subseteq Entries
  /\ Keystream \in [Secrets -> Seq(Words)]
  /\ \A x \in Secrets : Suffices(Keystream[x], EncodedLen)

-----------------------------------------------------------------------------
\* cell_idx and back, counted from one.
CellAt(i) == <<(i - 1) \div Delta, (i - 1) % Delta>>
CellIdx(c) == c[1] * Delta + c[2] + 1

EncodeAsFieldElements(t) ==
  [i \in 1 .. NCells |-> t[CellAt(i)].counter]
    \o [i \in 1 .. NCells |-> t[CellAt(i)].key]
    \o [i \in 1 .. NCells |-> t[CellAt(i)].value]

Decoded(elements) ==
  [c \in Cells |-> [counter |-> elements[CellIdx(c)],
                    key     |-> elements[NCells + CellIdx(c)],
                    value   |-> elements[2 * NCells + CellIdx(c)]]]

FieldPad == [x \in Secrets |-> SingleFieldPad(Keystream[x], EncodedLen)]

\* The pads of client i, and the share of server s for n clients.
ClientPad == [i \in 1 .. MaxClients |-> [avx2 \in BOOLEAN |->
  DeriveBlindingVector([s \in 1 .. Servers |-> FieldPad[<<i, s>>]], EncodedLen, avx2)]]

ServerShare == [s \in 1 .. Servers |-> [n \in 1 .. MaxClients |-> [avx2 \in BOOLEAN |->
  DeriveBlindingVector([i \in 1 .. n |-> FieldPad[<<i, s>>]], EncodedLen, avx2)]]]

ClientBlind(i, contents, avx2) == AddModSlice(contents, ClientPad[i][avx2], avx2)

\* The partial sums of the chunks are added to dst in order.
AggregateInto(dst, sources, n_threads, avx2) ==
  LET zero   == [i \in DOMAIN dst |-> 0]
      chunks == Chunked(sources, n_threads)
  IN  IF InParallel(sources, n_threads)
      THEN AddAll(dst, [k \in DOMAIN chunks |-> AddAll(zero, chunks[k], avx2)], avx2)
      ELSE AddAll(dst, sources, avx2)

CombinePartials(agg, partials, avx2) == SubAll(agg, partials, avx2)

-----------------------------------------------------------------------------
RoundInit == Init /\ vectors = <<>>

\* A client with no entry, or with e.
client_contribute(entries, avx2) ==
  /\ working = None /\ ~poisoned
  /\ vectors = <<>> => inserted = <<>>
  /\ Len(vectors) < MaxClients /\ Len(inserted \o entries) <= MaxInserts
  /\ vectors'  = Append(vectors,
       ClientBlind(Len(vectors) + 1, EncodeAsFieldElements(Encoded(entries)), avx2))
  /\ inserted' = inserted \o entries
  /\ UNCHANGED <<chunk_index, poisoned, table, working, queue, head, recovered, result>>

\* The leader sums up and opens; the shares come from the servers' machines.
combine_partials(n_threads, avx2, hosts) ==
  LET agg == AggregateInto([i \in 1 .. EncodedLen |-> 0], vectors, n_threads, avx2)
      shares == [s \in 1 .. Servers |-> ServerShare[s][Len(vectors)][hosts[s]]]
  IN  /\ vectors # <<>>
      /\ table'   = Decoded(CombinePartials(agg, shares, avx2))
      /\ vectors' = <<>>
      /\ UNCHANGED <<chunk_index, inserted, poisoned, working, queue, head, recovered, result>>

\* Whether the host has AVX2 is for each participant to find out.
RoundNext ==
  \/ \E avx2 \in BOOLEAN :
       \/ client_contribute(<<>>, avx2)
       \/ \E e \in Contributions : client_contribute(<<e>>, avx2)
       \/ \E n \in Threads, hosts \in [1 .. Servers -> BOOLEAN] :
            combine_partials(n, avx2, hosts)
  \/ vectors = <<>> /\ Next /\ UNCHANGED vectors

RoundSpec == RoundInit /\ [][RoundNext]_roundVars

-----------------------------------------------------------------------------
\* The table that comes out of a round is that of all entries together: lanes
\* and scalar tails, one machine's sums and another's, chunked or not, agree,
\* and every pad a client added is taken off by the share of one server.  The
\* elements stay canonical, as those of a table have to be.
RoundCarriesTables ==
  vectors = <<>> /\ ~poisoned => table = Encoded(inserted)

\* The pads of the client that has blinded last are its keystreams, word by
\* word, without those that were rejected: no word is used for two elements,
\* however often the buffer is refilled.
PadsUseFreshWords ==
  vectors # <<>> =>
    \A s \in 1 .. Servers : \A n \in 0 .. EncodedLen :
      LET stream == Keystream[<<Len(vectors), s>>]
      IN  SingleFieldPad(stream, n) = SubSeq(Candidates(stream), 1, n)

\* "Accept an exact multiple of P so each residue has equally many preimages":
\* with uniform words, a vector that has been blinded is uniform.
CandidatesAreUniform ==
  LET Preimages(x) == {w \in Words : IsCandidate(w) /\ w % P = x}
  IN  vectors # <<>> =>
        \A x \in Field : Cardinality(Preimages(x)) = Cardinality(Preimages(0))
=============================================================================
