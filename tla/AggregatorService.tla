-------------------------- MODULE AggregatorService --------------------------
(***************************************************************************)
(* The aggregator: struct AggregatorService of src/protocol/services.rs    *)
(* and AggregatorMessager of src/protocol/messager.rs.                     *)
(*                                                                         *)
(* process_verified_messages holds both mutexes from its first line to its *)
(* last.  Here it is one step per message of the batch for the filter, one *)
(* for the fold and one per union of the reduce, and call # None says the  *)
(* mutexes are held: nothing that needs them happens meanwhile.            *)
(***************************************************************************)
EXTENDS Aggregates

CONSTANTS
  Batches,     \* the batches of signed client messages callers pass
  Leaves       \* the aggregates of other aggregators

\* A message and whether its signature verifies.
SignedMessages == [message : ClientRoundMessage, valid : BOOLEAN]

ASSUME BatchAssumption ==
  \A b \in Batches :
    /\ b \in Seq(SignedMessages)
    /\ \A i \in DOMAIN b : IsSubmission(b[i].message)

ASSUME LeafAssumption == \A a \in Leaves : IsAggregation(a)

\* A batch in progress: the messages the filter has not seen, those it let
\* through, how many of these are folded, and the sums of the stretches.
Calls ==
  [todo : Seq(SignedMessages), fresh : Seq(ClientRoundMessage),
   folded : Nat, parts : Seq(AggregatedClientMessages)]

\* No batch in progress looks like a free mutex.
ASSUME CallAssumption == None \notin Calls

VARIABLES
  current_round,   \* AggregatorState
  aggregate,
  authorized,      \* the clients registered
  call,            \* the batch in progress, or None
  returned,        \* every aggregate returned to a caller
  merged           \* the last result of aggregate_aggregates, or None

vars == <<current_round, aggregate, authorized, call, returned, merged>>

\* AggregatedClientMessages::empty.
Empty ==
  [round_number |-> 0, all_server_ids |-> {}, shape |-> None,
   auction_vector |-> ZeroVector, message_vector |-> {}, user_pks |-> <<>>]

\* `aggregate` as the batch starts from it.
Previous == IF aggregate = None THEN Empty ELSE aggregate

Init ==
  /\ current_round = 0
  /\ aggregate     = None
  /\ authorized    = {}
  /\ call          = None
  /\ returned      = {}
  /\ merged        = None

\* Variant for the mutation runs: the counter one too far.
advance_past_round(r) ==
  /\ call = None
  /\ current_round < r
  /\ current_round' = r + 1
  /\ aggregate'     = None
  /\ UNCHANGED <<authorized, call, returned, merged>>

advance_to_round(r) ==
  /\ call = None
  /\ current_round < r
  /\ current_round' = r
  /\ aggregate'     = None
  /\ UNCHANGED <<authorized, call, returned, merged>>

register_client(c) ==
  /\ call = None
  /\ authorized' = authorized \cup {c}
  /\ UNCHANGED <<current_round, aggregate, call, returned, merged>>

\* Variant for the mutation runs: the mutex is not held during a batch.
deregister_client_any_time(c) ==
  /\ authorized' = authorized \ {c}
  /\ UNCHANGED <<current_round, aggregate, call, returned, merged>>

deregister_client(c) ==
  /\ call = None
  /\ authorized' = authorized \ {c}
  /\ UNCHANGED <<current_round, aggregate, call, returned, merged>>

-----------------------------------------------------------------------------
(***************************************************************************)
(* union_inplace, where the left aggregate may be the empty one.           *)
(***************************************************************************)
CanUnionInplace(a, o) ==
  IF a = Empty THEN NoDuplicates(o.user_pks) ELSE CanUnion(a, o)

UnionInplace(a, o) == IF a = Empty THEN o ELSE Union(a, o)

-----------------------------------------------------------------------------
\* VerifyClientMessages::verify: one bad signature fails the whole batch.
AllVerify(b) == \A i \in DOMAIN b : b[i].valid

\* process_client_messages, and process_verified_messages with what it passes.
process_client_messages(b) ==
  /\ call = None
  /\ AllVerify(b)
  /\ call' = [todo |-> b, fresh |-> <<>>, folded |-> 0, parts |-> <<>>]
  /\ UNCHANGED <<current_round, aggregate, authorized, returned, merged>>

\* Variant for the mutation runs: only this batch is looked at.
CountedInBatch == {call.fresh[i].signer : i \in DOMAIN call.fresh}

\* The clients counted so far: `seen`.
Counted ==
  Signers(Previous.user_pks) \cup {call.fresh[i].signer : i \in DOMAIN call.fresh}

\* What fixes the roster and the lengths of a round: what was aggregated
\* before, or the first message let through.
Latched ==
  {a \in {Previous} \cup {call.fresh[i] : i \in DOMAIN call.fresh} : a # Empty}

\* Variant for the mutation runs: no message fixes anything for the others.
FreshOfAnyShape(m) ==
  /\ m.round_number = current_round
  /\ m.signer \in authorized
  /\ m.shape \in ConfigShapes
  /\ m.signer \notin Counted

\* The filter: bad messages and replays are skipped.
Fresh(m) ==
  /\ m.round_number = current_round
  /\ m.signer \in authorized
  /\ m.shape \in ConfigShapes
  /\ \A a \in Latched : a.all_server_ids = m.all_server_ids /\ a.shape = m.shape
  /\ m.signer \notin Counted

filter_message ==
  /\ call # None /\ call.todo # <<>>
  /\ LET m == Head(call.todo).message
     IN  call' = [call EXCEPT !.todo = Tail(@),
                              !.fresh = IF Fresh(m) THEN Append(@, m) ELSE @]
  /\ UNCHANGED <<current_round, aggregate, authorized, returned, merged>>

\* The next message to fold.
NextToFold == call.fresh[call.folded + 1]

\* rayon's fold: any of its threads takes any stretch of the messages, and a
\* stretch begins with the zero-filled aggregate.  The stretches share nothing,
\* so they are folded in order; without the feature "parallel" there is one.
fold_message(parts) ==
  /\ call # None /\ call.todo = <<>> /\ call.folded < Len(call.fresh)
  /\ call' = [call EXCEPT !.folded = @ + 1, !.parts = parts]
  /\ UNCHANGED <<current_round, aggregate, authorized, returned, merged>>

begin_stretch ==
  fold_message(Append(call.parts, Fold(EmptyFor(call.fresh[1]), NextToFold)))

extend_stretch ==
  /\ call # None /\ call.parts # <<>>
  /\ fold_message([call.parts EXCEPT ![Len(call.parts)] = Fold(@, NextToFold)])

\* Variant for the mutation runs: the later stretch goes first.
ReducedSwapped(parts, k) ==
  SubSeq(parts, 1, k - 1) \o <<Union(parts[k + 1], parts[k])>> \o SubSeq(parts, k + 2, Len(parts))

Reduced(parts, k) ==
  SubSeq(parts, 1, k - 1) \o <<Union(parts[k], parts[k + 1])>> \o SubSeq(parts, k + 2, Len(parts))

\* Its reduce: two neighbours are united, in any order.  A union that failed
\* would panic ("compatible shapes by construction") and poison the mutexes.
reduce(k) ==
  /\ call # None /\ call.folded = Len(call.fresh)
  /\ k \in 1 .. Len(call.parts) - 1
  /\ CanUnion(call.parts[k], call.parts[k + 1])
  /\ call' = [call EXCEPT !.parts = Reduced(@, k)]
  /\ UNCHANGED <<current_round, aggregate, authorized, returned, merged>>

Folded ==
  call # None /\ call.folded = Len(call.fresh) /\ Len(call.parts) = 1

\* Variant for the mutation runs: what was kept is replaced.
OnlyFolded == call.parts[1]

\* The union of what was kept and what was let through.
UnionWithPrevious == UnionInplace(Previous, call.parts[1])

\* Nothing was let through: what was kept is returned.
finish_without_messages ==
  /\ call # None /\ call.todo = <<>> /\ call.fresh = <<>>
  /\ call'      = None
  /\ aggregate' = Previous
  /\ returned'  = returned \cup {Previous}
  /\ UNCHANGED <<current_round, authorized, merged>>

\* If the union fails, the whole batch is an error.
finish_batch ==
  /\ Folded
  /\ call' = None
  /\ IF CanUnionInplace(Previous, call.parts[1])
     THEN /\ aggregate' = UnionWithPrevious
          /\ returned'  = returned \cup {UnionWithPrevious}
     ELSE UNCHANGED <<aggregate, returned>>
  /\ UNCHANGED <<current_round, authorized, merged>>

-----------------------------------------------------------------------------
(***************************************************************************)
(* aggregate_aggregates: the aggregates of several aggregators, or results *)
(* of this function, become one.  It takes no mutex and reads no state of   *)
(* the service, so it is enough to let it happen between the calls.        *)
(***************************************************************************)
\* Variant for the mutation runs: the rounds only have to agree.
MergeStepAnyRound(r, a, o) ==
  IF a # None /\ CanUnionInplace(a, o) THEN UnionInplace(a, o) ELSE None

\* The first aggregate that is of another round or does not fit ends it.
MergeStep(r, a, o) ==
  IF a # None /\ o.round_number = r /\ CanUnionInplace(a, o)
  THEN UnionInplace(a, o) ELSE None

Mergeable == returned \cup Leaves \cup {m.result : m \in {merged} \ {None}}

\* The list <<a, o>>; a longer one is <<result of all but the last, last>>.
aggregate_aggregates(r, a, o) ==
  LET result == MergeStep(r, MergeStep(r, Empty, a), o)
  IN  /\ call = None
      /\ result # None
      /\ merged' = [round |-> r, result |-> result]
      /\ UNCHANGED <<current_round, aggregate, authorized, call, returned>>

-----------------------------------------------------------------------------
Next ==
  \/ \E r \in Rounds : advance_to_round(r)
  \/ \E c \in Clients : register_client(c)
  \/ \E c \in Clients : deregister_client(c)
  \/ \E b \in Batches : process_client_messages(b)
  \/ filter_message
  \/ begin_stretch
  \/ extend_stretch
  \/ call # None /\ \E k \in DOMAIN call.parts : reduce(k)
  \/ finish_without_messages
  \/ finish_batch
  \/ \E r \in 0..MaxRound, a, o \in Mergeable : aggregate_aggregates(r, a, o)

Spec == Init /\ [][Next]_vars

-----------------------------------------------------------------------------
\* The type of the aggregator's state; a call holds what is left of its batch.
TypeOK ==
  /\ current_round \in 0..MaxRound
  /\ aggregate \in {None, Empty} \cup AggregatedClientMessages
  /\ authorized \subseteq Clients
  /\ call # None =>
       /\ call \in Calls /\ call.folded <= Len(call.fresh)
       /\ \E b \in Batches : \E n \in 0..Len(b) : call.todo = SubSeq(b, n + 1, Len(b))
  /\ returned \subseteq {Empty} \cup AggregatedClientMessages
  /\ merged # None => merged.result \in {Empty} \cup AggregatedClientMessages

\* Whatever is in the batches, in whatever order, and however often it is
\* passed again, an aggregate that is returned counts one message of each
\* client it lists: what ServerService assumes of its Aggregations.
ReturnsAggregations ==
  \A a \in returned : a = Empty \/ IsAggregation(a)

\* "Skip bad messages and replays instead of failing the whole batch": what
\* the filter lets through never makes a union fail, neither one of the
\* parallel fold nor the final one.
BatchNeverFails ==
  /\ call # None =>
       \A k \in 1 .. Len(call.parts) - 1 : CanUnion(call.parts[k], call.parts[k + 1])
  /\ Folded => CanUnionInplace(Previous, call.parts[1])

\* The sum of messages of different clients: every content and pad once.
SumOf(ms) ==
  LET terms == UNION {ms[i].message_vector : i \in DOMAIN ms}
  IN  [round_number |-> ms[1].round_number, all_server_ids |-> ms[1].all_server_ids,
       shape |-> ms[1].shape, auction_vector |-> Sum(terms), message_vector |-> terms,
       user_pks |-> [i \in DOMAIN ms |-> ms[i].signer]]

\* However rayon splits a batch, the sum is that of a single thread, and lists
\* the clients in the order of their messages: partials are compared with it.
SplitsAgree ==
  Folded => call.parts[1] = SumOf(call.fresh)

\* Within a round an aggregate only grows, in order: a client that was counted
\* is counted in every later aggregate of the round, in the same place.
GrowsWithinRound ==
  [][aggregate # None /\ current_round' = current_round =>
       LET old == aggregate.user_pks
           new == aggregate'.user_pks
       IN  Len(old) <= Len(new) /\ SubSeq(new, 1, Len(old)) = old]_vars

\* A client that is not registered when the call returns is not one of those
\* it added: a deregistration cannot slip in behind the check.
AddsRegisteredOnly ==
  [][call # None /\ call' = None =>
       Signers(aggregate'.user_pks) \ Signers(Previous.user_pks)
         \subseteq authorized']_vars

\* Aggregates that share a client or differ in roster are not merged, nor those
\* of another round than the one asked for: a result, of aggregates of other
\* aggregators or of earlier results, counts each client once.
MergesAreAggregations ==
  merged # None /\ merged.result # Empty =>
    IsAggregation(merged.result) /\ merged.result.round_number = merged.round
=============================================================================
