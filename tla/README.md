# A TLA+ model of adcnet

TLA+ modules, TLC configurations and TLAPS proofs about the anonymous broadcast
protocol in this repository (`src/protocol`, `src/crypto`, `src/auction`). Paths below are
relative to the repository root.

## 1. The system

| Component | State | Operations | What makes it correct |
|---|---|---|---|
| `ServerService` (`services.rs`) | per round: running aggregate of direct mode, own share, partials by server id, broadcast; registries of clients and peers; three mutexes | `register_*`, `deregister_client`, `advance_to_round`, `process_client_message`, `finalize_partial_for_direct_aggregate`, `process_aggregate_message`, `process_[signed_]partial_decryption_message` | a client is counted once; a share fits the aggregate it is sent with; a broadcast is plaintext, of its round, and needs every share; a round with every share ends |
| `ServerMessager` (`messager.rs`) | none | `unblind_aggregate`, `unblind_partial_messages` | the checks above |
| `AggregatorService`, `AggregatorMessager` | round, aggregate, registry | `advance_to_round`, `register/deregister_client`, `process_client_messages`, `process_verified_messages`, `aggregate_aggregates` | returns aggregates of one message per client; a bad message never spoils a batch; how the batch is split does not matter; an aggregate only grows |
| messages (`messages.rs`) | none | `union_inplace`, `Signed` | disjoint signers, equal shapes |
| pads (`blinding.rs`, `fields.rs`) | none | pad derivation, field add/sub, XOR | pads cancel exactly, on every machine; their elements are uniform and come from fresh words |
| `ClientService`, `ClientMessager` | pending, scheduled, last broadcast | `schedule_message_for_next_round`, `messages_for_current_round`, `process_round_broadcast`, `advance_to_round` | a message is written into the slot it won, once |
| `AuctionEngine` (`auction.rs`), slots (`message_slots.rs`) | none | `run_auction`, `write_slot`, `read_slots` | best weight within the bandwidth, disjoint slots that carry what is written |
| `IbltVector` (`iblt.rs`), encoders | cells | `insert`, `recover`, encode/decode | recovers what was inserted, or says so |
| `one_round`, primitives | none | `client_contribute`, `server_contribute`, `combine_round` | a round opens only if it is whole, and then yields what was put in |

Clients, aggregator and servers exchange messages through callers the library
does not contain ("The caller supplies transport, scheduling, and threading"):
signed client messages go to the aggregator or to every server, aggregates to
every server, partials from every server to a leader. Within a service threads
share the state behind mutexes; a call may take the same mutex several times,
and what it read under the first lock it uses under the last. That, the order
and repetition of messages, and calls that fail half-way are the hard part of
this system. Nothing is persisted.

## 2. Modules

| Module | Models |
|---|---|
| `Blinding` | vectors as formal sums of contents and pads; field sums with integer coefficients, XOR sums as sets |
| `Aggregates` | the message types and the stateless operations: `Blind`, `Fold`, `Union`, `UnblindAggregate`, `CanCombine` |
| `ServerService` | every server, every thread that calls it, one action per critical section |
| `AggregatorService` | the aggregator and its batches: verification, filter, the parallel fold in any cut and order, the merge of aggregates |
| `AnonymousBroadcast` | the abstract specification of a server |
| `Auction` | `run_auction`: filter, knapsack table, trace-back and slots, as recursive functions and folds |
| `ClientService` | every client and the broadcast they share; `EXTENDS Auction` |
| `OneRound` | the one-round session with its payload framing; `EXTENDS Blinding` |
| `VectorSums` | the chunked sums of `field_round.rs` and `xor_round.rs` |
| `FieldVectors` | field vectors in machine words, AVX2 lanes and scalar tails, the sampling of pads |
| `Iblt` | the lookup table: insertion, decoding, one turn of the peeling loop per action; `EXTENDS FieldVectors` |
| `IbltRound` | a field-additive round of tables in numbers, from every client's table to the one that is peeled; `EXTENDS Iblt, VectorSums` |
| `MessageRound` | from the bids to the payloads read: auction, slots, XOR pads and sums; `EXTENDS Auction, VectorSums` |
| `MCServerService`, `MCAggregatorService`, `MCAuction`, `MCClientService`, `MCIblt`, `MCOneRound` | instances for TLC |
| `Round` | the phases of a round and their order (`round.rs`; the services use the number only) |
| `AggregatesProofs` | lemmas about sums and aggregates |
| `ServerServiceProofs` | types, safety, rounds and history of the servers; partials that agree are opened; they implement `AnonymousBroadcast`; the order of rounds |
| `AggregatorServiceProofs` | sums of one message per client, however a batch is split |
| `AuctionProofs` | no selection of the bids is worth more, the slots follow each other, what one bid more changes; its first sections, on induction, recursion, sums and folds, serve `IbltProofs` too |
| `MessageRoundProofs` | the auction's theorems in the round; the payloads read are those written |
| `ClientServiceProofs` | what becomes of a message that was bid for, what is written where, and when it arrives |
| `IbltProofs` | lanes agree with scalars, a pad is its keystream, and a round carries the tables; what `recover` returns, and when it stalls |
| `OneRoundProofs` | a round opens only if it is whole, and yields what was put in |

**Vectors.** Ciphertexts are not numbers here but the sums they were computed
as: `Content(c, r, d)` is what client `c` put in, `Pad(c, s, r)` the pad of the
secret `c` and `s` share. Two sums that differ as formal sums differ as vectors
unless independent PRF outputs collide. Adding a message twice gives
coefficient 2 in the auction vector and removes it from the message vector,
which is what double folding does in the code. `RoundWrap` is the 2^32 of the
`as u32` casts.

**Lengths.** `Shapes` stands for the pair of vector lengths, as far as the code
compares them; `ConfigShapes` are those with the configured auction length and
canonical field elements.

**Signatures.** A signed message is a message with its signer; in the batches of
the aggregator it is a message and whether it verifies. The peer registry maps an
id to the identity of the key's owner and may be wrong: the proofs allow any
registry, the runs use the right one.

**Threads.** `activity[t]` is the program counter and the locals of thread `t`.
Each action is what happens between a lock and its unlock. Where two actions of
one thread touch no shared state in between, they are one action.
`process_verified_messages` holds both of its mutexes throughout, so
`AggregatorService` has one call at a time. Rayon's part in that call is
`begin_stretch` and `extend_stretch` (the batch is cut anywhere, a message is folded
per step) and `reduce` (neighbours are joined in any order, at any time);
`SplitsAgree` compares with the sum of the messages in their order, which is what
the sequential build folds.

**Callers.** `sent` holds every partial a server returned; any of them may be
delivered to any server, signed or not, any number of times or never. The
same holds of `Submissions` and `Aggregations`, which are constants:
`InputAssumption` says that clients blind with `ClientMessager` and that
aggregates are sums of one such message per client. `AggregatorService`
(`ReturnsAggregations`) shows the aggregator returns only those.

**Clients and the rest.** Every operation of `ClientService` holds its one
mutex throughout, so it is one action. In `ClientService` the aggregator and the
servers together are the action `Publish`: the sum of one submission of each of
some clients, all of one round, roster and vector length. That is what
`OutputIsPlaintext` and `ReturnsAggregations` say of them, so submissions are
kept there as they are before blinding. Which submissions arrive, whether the
auction's IBLT decodes, in which order it yields the bids, and which broadcast
a client is given when, is left open.

**Auction.** A message is the number its truncated hash is; `AuctionData` keeps
weight and size. Weights are `u32` summed in `u64` and cannot overflow.

**IBLT.** The hash (`chunk_index`) is a constant of the instance, any function of
key and row; field elements are numbers below `P`, packed ones below `Packed`.
Tables of several clients add up to the table of all their entries, so one table
stands for the sum; a table that is no sum of entries is one with a cell altered.
That the sum is that table is what `IbltRound` checks, in numbers: each client
adds its pads to its own table, the vectors are added up in chunks, each server's
share is taken off. Whether a machine has AVX2 is its own affair, so each
participant may or may not use lanes. `Half` stands for 2^63 and `LANES` for 4.
The keystream is a constant of the instance, any sequence of words per secret. That
of the code has no end; a finite one must be as long as the rejected words require
(`Suffices`), the surplus of the last pass included. Pads of several secrets are
added in their order; in the code Rayon may join them in any other, which for these
sums makes no difference.

**One round.** Everybody in `OneRound` is called with keys and a configuration of
its own, and `combine_round` with any slices of what they returned. A vector with
a pad left in it does not decode, and all configurations have the same
`estimated_messages`, which is agreed for the session. Whether colliding keys keep a full table from
peeling is left open, since `Iblt` says when they do.

**Bytes.** In `MessageRound` a byte is the set of unknowns it is the XOR of:
payload bytes and pad bytes. A client whose payload does not fit sends zeros.
Callers give the vectors the allocated length, the whole bandwidth, or a byte
too few.

## 3. Runs

| Run | Question | Result |
|---|---|---|
| `server_leader_race` | two threads on the leader, two rounds, races with `advance_to_round`, with the registration of the other server and with clients that come and go there | types; a broadcast is plaintext, and there is none without every share; nothing from a future round |
| `server_batches` | two clients, two threads: matching, mismatching, repeated messages and disjoint, overlapping, cumulative aggregates; a client deregistered while a message is folded; pads repeat in round 2 | each client once; shares fit |
| `server_serial` | one thread at a time per server, persistent callers, peers registered at any time, two rounds | round state is current; agreed partials open; implements `AnonymousBroadcast`; a round with all shares completes |
| `aggregator` | all batches of up to two messages, some of three, one with a bad signature, in every split; aggregates of other aggregators; two rounds | see 4 |
| `auction` | every list of up to three bids, sizes on and off the chunk boundary, and the message round of its winners | best selection; slots partition the vector and carry the payloads; earlier bids preferred |
| `clients` | two clients with messages of their own, two rounds, one call per round | winning messages appear; slots keep clients apart; a client that is asked answers |
| `client_rounds` | one client, three rounds, registrations, repeated calls in round 2 | writes what it won, once; keeps what it bid for |
| `iblt` | every table of up to 4 entries under every hash of 3 keys into 2 x 2 cells; tables of up to 1 entry with any cell replaced; rounds of up to five clients | see 4 |
| `one_round` | two clients, two servers; lost, repeated, foreign and mismatching contributions and shares | see 4 |
| `clients_same` | two clients with the same message | **violated** |
| `server_stale_round` | `RoundStateIsCurrent` with a second thread | **violated** |
| `server_arrival_order` | direct mode, messages in different orders at two servers | **violated** |

Bounds. Two servers are enough for a missing, foreign or wrong share; one client
where the property is about servers, two where it is about clients; two rounds
where data of one round can meet the next; two threads on one server are the
smallest race. `MaxRound` bounds the round numbers in `advance_to_round`;
`MaxInserts` and `MaxAltered` the tables of `Iblt`, `MaxClients` the vectors of
`IbltRound`, `MaxBids` the bids of `MessageRound`, `MaxContributions` and `MaxShares`
the slices of `OneRound`, `AgainIn` the rounds in which a client may be asked again. Nothing else grows without bound. No state constraint
and no symmetry are used. In the auction and client runs two chunks or three and
messages of one and two chunks give every way to fit, to overflow and to round.
In `iblt` two rows are enough for a cell to become pure after its neighbour in
the other row, and four entries for a stall beside a way on; `AllBuckets` leaves
out only renamings of columns. The field (`P` = 5, `Packed` = 3) has elements that
are and that are not packed; words have four bits (`Half` = 8), so a sum of two
elements reaches the sign bit, as two of 61 bits do not, and one word in sixteen
is rejected. A table has 12 elements, two registers of five (`LANES`) and a tail
of two. Up to five vectors on one or two threads are summed in a row, in one
chunk, and in two, the second of which is shorter if there are five. The pads of the first two clients cancel, so that sums are `P`
itself. In `one_round` two entries already collide or not; three contributions
are one more than there are clients.

Fairness. The library has no scheduler. `RoundCompletes` assumes that a thread
inside a call goes on (weak fairness of `Continue`: the mutexes are not held
across blocking operations), and that the caller offers each partial of the
current round until the call has begun (strong fairness of `Offer`, since other
calls on the same server may come in between, as in `tests/e2e.rs`, which
delivers every partial in a loop). It also needs that the servers agree on the
aggregate: the run has one per round, so that in it no combining of partials fails
(`server_arrival_order` shows one that does). `EveryRoundIsAnswered` assumes a caller that
goes on delivering the broadcast of the round before and goes on asking (strong
fairness of both, since late broadcasts may come between the two); it assumes
this of one client only, and nothing of the others, of rounds or of broadcasts.

## 4. What the properties say

* `EachClientOnce`, `SharesFitTheirAggregates`: what a server keeps and returns
  is a sum of one message per listed client, and the share is exactly its pads
  for these clients, whatever is delivered twice, overlaps or races.
* `OutputIsPlaintext`, `OutputNeedsEveryShare`: the README's "With every
  server's share, the pads cancel" and "Recovery requires every server's share".
* `NothingFromTheFuture`, `RoundStateIsCurrent`: what races with
  `advance_to_round` can and cannot do. The first holds with any number of
  threads, the second only when a server is driven by one thread at a time.
* `ImplementsBroadcast`: driven so, a server implements `AnonymousBroadcast`.
* `ReturnsAggregations`, `BatchNeverFails`, `GrowsWithinRound`,
  `AddsRegisteredOnly`: what the aggregator returns is such a sum, a bad message
  does not spoil a batch, and an aggregate only grows, by registered clients.
* `SplitsAgree`, `MergesAreAggregations`: neither the number of threads nor the
  order of joining shows in the aggregate, `user_pks` included; merged aggregates
  of other aggregators are sums of one message per client as well.
* `Optimal`, `SlotsPartitionVector`, `EarlierBidsPreferred`: the knapsack against
  all subsets of the bids; the slots one after the other within the bandwidth.
* `SlotsCarryPayloads`: what is read in a slot is what its winner wrote.
* `EveryRoundIsAnswered`: a broadcast that comes late or twice delays a client's
  message and does not prevent it.
* `WritesOnlyWhatItWon`, `BidsAreHonoured`, `TransmittedOnce`: between the bid and
  its transmission. The first also shows that the error of `prepare_message`
  that would lose a message is never reached.
* `SlotsKeepClientsApart`, `WinningMessagesAppear`: of all clients together.
* `RecoversInserted`, `StallsOnlyOnCore`: of tables that come through a round,
  `OkExplainsTable`, `PeelsWhatIsCounted`: also of tables in which one cell holds any
  three field elements (the bound on the queue and on the entries is why the loop
  ends). `decode_from_elements` takes any vector: such tables the model does not
  reach, though the invariants behind `OkExplains` and `PeelsNoMore` never use that
  the rest of the table is a sum.
* `RoundCarriesTables`: lanes, tails, chunks and pads leave the sum of the tables,
  in canonical elements. `PadsUseFreshWords`, `CandidatesAreUniform`: a pad is the
  keystream without the rejected words, each used once, and no element of the
  field is likelier than another.
* `OpensOnlyWhole`, `PayloadsArrive`, `CompleteRoundOpens` (and `TypeOK`, which says
  that the assertions of the primitives hold): `combine_round` knows no registry,
  so pads alone tell that a client is missing or there twice; what opens yields
  the payloads of its round, and a round in which all did what they should opens.

### Disagreements found

1. `server_stale_round`: the round of a message is checked under one lock of
   `state` and its data written under a later one (`services.rs` 210/232,
   312/320, 343/353). After an `advance_to_round` in between, a share, partial
   or broadcast of the old round sits in the new round's state, where it is
   returned, blocks its server's entry, or answers every call.
2. `clients_same`: a client finds its slot by the hash of its message, so two
   clients with equal messages write into the same slot and XOR removes both.
3. `server_arrival_order`: partials are compared with the order of `user_pks`,
   which the doc of `unblind_partial_messages` does not list; in direct mode
   that order is the order of arrival, and two servers rarely agree on it.

Also seen, and not counted as a disagreement: a client asked twice in a round,
with a message scheduled in between, bids twice and keeps the second message
only (`BidsAreHonoured` says one of them is kept); and a server forgets in
`finalize_partial_for_direct_aggregate` whom it has folded, so that it folds a
replay once more in the same round (`SharesFitTheirAggregates` says the check of
`union_inplace` keeps it out of the share).

## 5. Proofs

`TypeCorrect` (`ServerServiceProofs`): `Spec => []TypeOK` for any constants that
satisfy the named assumptions. `TypeOK` alone is not inductive: `subtract_share`
takes a share out of the table a thread holds, and that it is there is
`SharesAtHand`. The proof has one lemma for the calls that begin, one for the
steps that go on, one for the administration, and rests on the lemmas of
`AggregatesProofs` about sums (`SumOfDisjoint`, `XorOfRest`, ...) and about
aggregates (`FoldIsAggregation`, `UnionIsAggregation`: folding or uniting sums
of one message per client gives such a sum).

`CountedOnce`, `SharesFit` and `PublishesPlaintext` prove
`EachClientOnce`, `SharesFitTheirAggregates` and `OutputIsPlaintext` for any
number of threads. None of them is inductive, since a thread writes late what it
computed early. The invariant `IInv` is `TypeOK`, `SharesAtHand` and `Sound`,
which says of each place a value can wait that it is right there:

* the state of a server and the partials sent (`RunningSound`, `KeptSound`,
  `SentSound`, `TablesSound`): sums of one message per listed client, shares of exactly these;
* a thread between two critical sections (`ThreadsSound`): the message it folds,
  the partial it stores, the table it combines;
* the subtraction (`Subtracting`, `Remaining`): what is left of the aggregate is
  the contents and the shares of the servers not yet subtracted. When none are
  left it is plaintext, which is what `set_output` writes.

The step of each critical section is a lemma of its own.

`NothingEarly` proves `NothingFromTheFuture` for any interleaving. `Timely` adds to it
what threads carry: an aggregate or partial that has passed the check of its round
is of a round that its server has reached, and `current_round` never falls.
`EveryShareNeeded` proves `OutputNeedsEveryShare`: `OutputsAttested` and
`AttestedActivity` say that a table being subtracted holds, for each server of the
roster, a partial that this server has returned for the same aggregate.
`NothingStale` (`RoundStateIsCurrent`) and `Refinement` (`ImplementsBroadcast`) are
theorems of `SerialSpec`, in which a server is driven from one thread at a time;
without that both fail (`server_stale_round`). The refinement is a simulation: each
action is a lemma that says which step of `AnonymousBroadcast`, or none, it is.

`AgreedAreOpened` proves `AgreedPartialsOpen` of `SerialSpec` where servers are sent
aggregates only, and those of one round extend each other (`Cumulative`: any two
share a client, two of the same clients are equal). `GrowsWithinRound` says the
aggregator returns such aggregates, and `server_serial` is an instance;
`server_arrival_order` shows why it is needed: messages each server folds on its own
give partials that are of the same clients and do not combine. The invariant `Relaying`
says that every aggregate about, and the one in every partial, is of `Aggregations`,
and that a thread about to combine holds the table as it is.

`AggregatorServiceProofs` proves all that the run `aggregator` checks, for batches of
any length. The invariant `IInv` is `Settled` (what is kept or returned is empty or
one message per client, of its round) and `Batched`: the messages the filter let
through are of different clients, of one round, roster and shape (`Uniform`,
`Admitted`), and the parts are the sums of stretches that follow each other, at
some cut of the batch (`IsCut`). `UnionOfStretches` says two neighbours join to the
stretch of both, and that `union_inplace` lets them: so no union fails
(`NoUnionFails`), and when one part is left it is the sum of the whole batch
(`SplitsMakeNoDifference`).

`OneRoundProofs` proves all that `one_round` checks, for slices and payloads of any
length. The coefficient of a term in the sum is the number of contributions it is
in less the number of shares it is in (`Count`), at every step of `combine_round`:
a pad that is gone is in as many of the ones as of the others, and since each is in
one contribution of a client at most once, nobody is missing (`OpenMeansWhole`).

`IbltProofs` proves all that `iblt` checks, for tables of any size, any number of
entries, clients and servers, any hash and any keystreams. Of `recover` its invariant
(`PeelInv`) says

* of any table: it is, cell by cell, what is left of it plus the entries recovered
  (`Explains`), so if all that is left is zero it is their table (`OkExplains`); each
  entry recovered is one count of each row (`RowsCounted`), whence `PeelsNoMore`;
* of a table that came through unaltered: what is left is the table of some
  sequence of entries, those inserted and not yet recovered (`Remaining`), so a
  cell that counts one holds an entry at home (`PureIsEntry`), the error paths are
  not taken, and every pure cell is in the queue (`Queued`). At the end of the queue
  no cell counts one, hence the core of `StallsOnCore`.

The order in which entries were inserted is none of the table's business:
`TakeOut` says an entry anywhere may be thought of as inserted last. That and the
sums of rows are inductions over data. The library states induction with an
operator as parameter, which these provers cannot instantiate; `AuctionProofs`
states it with sets instead (`NatSetInduction`: a set of numbers with 0 and with
each number the next holds all), from the well-foundedness of inclusion on finite
sets, and recursion over a finite set likewise (`SubsetRecursion`), from the choice
of the function that satisfies the equations.

For the round (`RInv`) it adds that while vectors come in they sum up to the
encoding of all entries and the pads of those who have sent one (`BlindedSum`), and
that with no vectors about the table is that of the entries inserted (`Whole`). The
steps to it:

* vectors of one length form a group (`VecLaws`); lanes and tails compute its sum
  and its difference (`SlicesOfVec`), and neither chunks nor threads change a sum
  (`AggregateIsTotal`);
* the pads summed client by client are the pads summed server by server
  (`PadsCancel`, by induction on the clients), so what the shares take off is what
  was put on (`SubAllUndoes`);
* encoding is additive as long as no counter wraps (`EncodeSum`), and decoding is its
  inverse (`DecodeUndoesEncode`).

For `PadsAreFresh`, `RefillKeepsPad` says that the pad is at each pass the candidates
of the words drawn so far, cut to its length, and that a pass which does not fill it
draws at least one word more; so as many passes as there are words fill it. For
`CandidatesUniform`, every element is the residue of `Word \div P` accepted words
(`AsManyPreimages`).

`OneTransmission` and `BidsHonoured` (`ClientServiceProofs`) prove
`TransmittedOnce` and `BidsAreHonoured` for any clients, rounds, messages and
any auction: the proofs never expand `run_auction`. The invariant adds to
`TransmittedOnce` that no client is behind a round it has made a message for,
and that a client whose message went out in its current round has none left to
transmit (`SentIsGone`).

The other theorems of `ClientServiceProofs` follow what clients have submitted and
what was published (`History`): a broadcast is the sum of one submission per client
it lists, and what a client transmits was won in the broadcast of the round before
(`WritesAreWon`). From this and the theorems on slots,

* `SlotsAreApart` proves `SlotsKeepClientsApart` if no two clients have a message in
  common, which the code does not see to: `clients_same` shows what happens otherwise;
* `WinningMessagesArrive` proves `WinningMessagesAppear` if moreover each client is
  asked once a round (`AgainIn = {}`): asked again it may bid with another message,
  and keeps one of the two.

`Init` has no server registered and each registration is a step, so the states in
which the runs of the clients begin are among those the theorems are about.

`AuctionProofs` is about `run_auction` for any bandwidth, chunk size and bids. Row by
row, the table holds in each capacity the most that a selection of the items so far
can be worth, by induction on the items, and the trace-back selects items worth what
the last row says. The order by hash rearranges the items and no more. Slots are
whole chunks, one after the other, so they neither overlap nor leave the vector
(`RunAuctionFacts`). The bid inserted last is the first the trace-back looks at, and
it is taken only if it raises the last row; when it does not, the rest of the
trace-back is as it was without it (`RunAuctionMore`). `AuctionIsOptimal`,
`SlotsArePartitioned` and `EarlierBidsStay` (`MessageRoundProofs`) say so of the
round. The first assumes that there is a chunk to sell or that
`min_message_size` is not zero: with `total_bandwidth < chunk_bytes` the code
returns early, and leaves out a bid of no bytes that would fit.

`PayloadsAreRead` proves `SlotsCarryPayloads` for payloads of every length, fitting or
not, and any number of winners, servers and threads. The invariant `Carrying` says
what each winner has written and blinded so far. Vectors of different clients have no
unknown in common (`Apart`), nor have the shares of different servers; the XOR of such
vectors is their union, in whatever chunks it is computed (`AggregateOfApart`). Taking
off the sum of the shares (`SharesOpenSum`) leaves the payloads, and since slots do
not overlap, one slot holds nothing but what its winner wrote (`SlotIsPart`,
`ReadCarries`).

`LanesAgree` and `SubUndoesAdd` (`IbltProofs`) hold for every `P`, `Half` and
`LANES` with `P <= Half`, the code's included: `FlippedOrder` says that flipping the
sign bits turns the signed comparison into the unsigned one, and one reduction is
enough for a sum or a difference of two elements (`ModOnce`, `ModBelow`).
`AdvanceIsNext` (`ServerServiceProofs`): `advance` is the successor in the order of `is_after`,
which `IsAfterOrders` shows to be one.

The theorems rest on the named assumptions about the constants: that `None` is no
server, batch, table, draft, message, payload or broadcast (`NoneAssumption`,
`CallAssumption`, `TableAssumption`, `ClientAssumption`, `OutputAssumption` and the
`RoundAssumption` of `MessageRound`), that callers pass values of the wire's types
made by clients of this library (`InputAssumption`, `BatchAssumption`,
`LeafAssumption`), that counters do not wrap (`MaxInserts` below `P`), that keystreams
are long enough (`Suffices` in the `RoundAssumption` of `IbltRound`), and what the
code's constants satisfy. A hypothesis that only one theorem needs stands in its
statement.

Every invariant and action property of the passing runs is stated by a theorem. Only
model-checked is liveness (`RoundCompletes`, `EveryRoundIsAnswered`), which is out of
the prover's reach.

## 6. Not modelled, and the plan

Not modelled: serialisation, digests and the byte layout of messages; key
derivation, signatures, encryption and the block cipher, which are calls of other
crates; the lanes of `xor_inplace` (exclusive or has no carry, so a lane is its
bytes); mutex poisoning after a panic; the constants of `config.rs`; benches and
examples.

`finalize_partial_for_direct_aggregate` takes the running aggregate before
anything has been checked; if the share then fails, the messages folded are
gone. Callers see the error, and nothing promises that the messages survive: no
property is about it.

Built so far, in this order: `Blinding`, `Aggregates`, `ServerService` with its
abstract specification `AnonymousBroadcast`, `AggregatorService`, the safety
proofs, `Auction`, `ClientService`, `Iblt`, `OneRound`, `FieldVectors`,
`IbltRound`, `MessageRound`. To come: a composition
of `AggregatorService` and `ServerService` in which the aggregates are those the
aggregator returned, in place of the constant `Aggregations`; `Cumulative` would
then rest on `GrowsWithinRound`.
