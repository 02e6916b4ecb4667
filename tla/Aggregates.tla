----------------------------- MODULE Aggregates -----------------------------
(***************************************************************************)
(* The round's messages (src/protocol/messages.rs) and the stateless       *)
(* operations on them (src/protocol/messager.rs).                          *)
(*                                                                         *)
(* all_server_ids is the sorted list of the servers a client shares a key  *)
(* with (messager.rs blind), so the set of them says as much.  user_pks    *)
(* stays a sequence: its order is compared.  A shape stands for what the   *)
(* length and range checks see of a message's two vectors; ConfigShapes    *)
(* are the ones whose auction vector has the configured length and only    *)
(* canonical elements, and two shapes differ as their lengths do.          *)
(***************************************************************************)
EXTENDS Blinding, Sequences

CONSTANTS
  Shapes,
  ConfigShapes,
  None          \* Rust's Option::None

ASSUME ShapeAssumption == ConfigShapes \subseteq Shapes

\* None is no server's id (or key): a vacant entry is not an entry.
ASSUME NoneAssumption == None \notin Servers

Option(S) == S \cup {None}

(***************************************************************************)
(* HashMap<ServerId, V>: vacant entries are None.                          *)
(***************************************************************************)
EmptyMap  == [i \in Servers |-> None]
Keys(map) == {i \in Servers : map[i] # None}

(***************************************************************************)
(* Wire types.                                                             *)
(***************************************************************************)
ClientRoundMessage ==
  [round_number : Rounds, all_server_ids : SUBSET Servers, shape : Shapes,
   auction_vector : AuctionVector, message_vector : MessageVector,
   signer : Clients]

AggregatedClientMessages ==
  [round_number : Rounds, all_server_ids : SUBSET Servers, shape : Shapes,
   auction_vector : AuctionVector, message_vector : MessageVector,
   user_pks : Seq(Clients)]

ServerPartialDecryptionMessage ==
  [server_id : Servers, original_aggregate : AggregatedClientMessages,
   user_pks : Seq(Clients),
   auction_vector : AuctionVector, message_vector : MessageVector]

RoundBroadcast ==
  [round_number : Rounds,
   auction_vector : AuctionVector, message_vector : MessageVector]

\* The signers listed in a sequence of public keys.
Signers(pks) == {pks[i] : i \in DOMAIN pks}

NoDuplicates(pks) == \A i, j \in DOMAIN pks : pks[i] = pks[j] => i = j

(***************************************************************************)
(* ClientMessager::blind: the client's contents plus one pad per server.   *)
(***************************************************************************)
Blind(c, r, d, roster, shape) ==
  [round_number |-> r, all_server_ids |-> roster, shape |-> shape,
   auction_vector |-> Sum({Content(c, r, d)} \cup PadSet({c}, roster, r)),
   message_vector |-> {Content(c, r, d)} \cup PadSet({c}, roster, r),
   signer |-> c]

\* What a client that uses ClientMessager can have signed.
IsSubmission(m) ==
  /\ m.signer \in Clients /\ m.round_number \in Rounds
  /\ m.all_server_ids \subseteq Servers /\ m.shape \in Shapes
  /\ \E d \in Drafts :
       m = Blind(m.signer, m.round_number, d, m.all_server_ids, m.shape)

(***************************************************************************)
(* An aggregate of one message of each client listed: what folding such    *)
(* messages in the order of pks gives (AggregatorService shows it does).   *)
(***************************************************************************)
AggregateOf(pks, r, draft, roster, shape) ==
  LET terms == {Content(c, r, draft[c]) : c \in Signers(pks)}
                 \cup PadSet(Signers(pks), roster, r)
  IN  [round_number |-> r, all_server_ids |-> roster, shape |-> shape,
       auction_vector |-> Sum(terms), message_vector |-> terms,
       user_pks |-> pks]

IsAggregation(a) ==
  /\ a.user_pks \in Seq(Clients) /\ NoDuplicates(a.user_pks)
  /\ a.round_number \in Rounds
  /\ a.all_server_ids \subseteq Servers /\ a.shape \in Shapes
  /\ \E draft \in [Clients -> Drafts] :
       a = AggregateOf(a.user_pks, a.round_number, draft,
                       a.all_server_ids, a.shape)

(***************************************************************************)
(* Folding one client message into an aggregate, and the zero-filled       *)
(* aggregate the first message of a round allocates.                       *)
(***************************************************************************)
EmptyFor(m) ==
  [round_number |-> m.round_number, all_server_ids |-> m.all_server_ids,
   shape |-> m.shape, auction_vector |-> ZeroVector, message_vector |-> {},
   user_pks |-> <<>>]

Fold(agg, m) ==
  [round_number   |-> agg.round_number,
   all_server_ids |-> agg.all_server_ids,
   shape          |-> agg.shape,
   auction_vector |-> Add(agg.auction_vector, m.auction_vector),
   message_vector |-> Xor(agg.message_vector, m.message_vector),
   user_pks       |-> Append(agg.user_pks, m.signer)]

(***************************************************************************)
(* AggregatedClientMessages::union_inplace on two aggregates that are not  *)
(* empty: the checks, then the union.                                      *)
(***************************************************************************)
\* Variant for the mutation runs: no look at the signers.
CanUnionUnchecked(a, o) ==
  /\ a.round_number = o.round_number
  /\ a.all_server_ids = o.all_server_ids
  /\ a.shape = o.shape

CanUnion(a, o) ==
  /\ a.round_number = o.round_number
  /\ a.all_server_ids = o.all_server_ids
  /\ a.shape = o.shape
  /\ NoDuplicates(a.user_pks \o o.user_pks)

Union(a, o) ==
  [round_number   |-> a.round_number,
   all_server_ids |-> a.all_server_ids,
   shape          |-> a.shape,
   auction_vector |-> Add(a.auction_vector, o.auction_vector),
   message_vector |-> Xor(a.message_vector, o.message_vector),
   user_pks       |-> a.user_pks \o o.user_pks]

(***************************************************************************)
(* ServerMessager::unblind_aggregate: the checks on the aggregate and on   *)
(* the shared secrets, then the server's pads for the listed clients.  No  *)
(* client is listed twice, so each pad is summed once.                     *)
(***************************************************************************)
CanUnblindAggregate(s, r, agg, secrets) ==
  /\ agg.round_number = r
  /\ s \in agg.all_server_ids
  /\ agg.shape \in ConfigShapes
  /\ NoDuplicates(agg.user_pks)
  /\ Signers(agg.user_pks) \subseteq secrets

UnblindAggregate(s, r, agg) ==
  LET pads == PadSet(Signers(agg.user_pks), {s}, r)
  IN  [server_id |-> s, original_aggregate |-> agg, user_pks |-> agg.user_pks,
       auction_vector |-> Sum(pads), message_vector |-> pads]

(***************************************************************************)
(* ServerMessager::unblind_partial_messages: every partial, keyed by its   *)
(* server id, covers one and the same aggregate, the servers are exactly   *)
(* the aggregate's, and each share is for the aggregate's clients in its   *)
(* order.                                                                  *)
(***************************************************************************)
\* Variant for the mutation runs: the aggregates are not compared.
CanCombineAny(msgs) ==
  /\ Keys(msgs) # {}
  /\ \A i \in Keys(msgs) :
       /\ Keys(msgs) = msgs[i].original_aggregate.all_server_ids
       /\ msgs[i].user_pks = msgs[i].original_aggregate.user_pks
       /\ msgs[i].original_aggregate.shape \in ConfigShapes

CanCombine(msgs) ==
  /\ Keys(msgs) # {}
  /\ \A i, j \in Keys(msgs) :
       msgs[i].original_aggregate = msgs[j].original_aggregate
  /\ \A i \in Keys(msgs) :
       /\ Keys(msgs) = msgs[i].original_aggregate.all_server_ids
       /\ msgs[i].user_pks = msgs[i].original_aggregate.user_pks
       /\ msgs[i].original_aggregate.shape \in ConfigShapes
=============================================================================
