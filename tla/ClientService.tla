---------------------------- MODULE ClientService ----------------------------
(***************************************************************************)
(* The clients and the broadcast they share: struct ClientService of       *)
(* src/protocol/services.rs and ClientMessager of src/protocol/messager.rs *)
(* with the auction.  A message is bid for in one round and, if the bid    *)
(* won, written into its slot in the next.                                 *)
(*                                                                         *)
(* The aggregator and the servers are the one action Publish, which says   *)
(* what they have been shown to do (AnonymousBroadcast, and IsAggregation  *)
(* of Aggregates): a broadcast is the sum of one submission of each of     *)
(* some clients, all of one round, roster and length, with no pad left.    *)
(* So a submission is its content before blinding.                         *)
(*                                                                         *)
(* Every operation holds the mutex of the state throughout and is a step.  *)
(***************************************************************************)
EXTENDS Auction

CONSTANTS
  Clients,
  Servers,
  Rounds,        \* the round numbers a client can be advanced to
  Messages,      \* a message is the number its hash is, see Auction
  SizeOf,        \* [Messages -> Nat]: its length
  MessagesOf,    \* [Clients -> SUBSET Messages]: what each user may send
  BidValues,     \* the bid_value of schedule_message_for_next_round
  AgainIn,       \* bound: the rounds in which messages_for_current_round may
                 \* be called when the client has made its message already
  None

ASSUME ClientAssumption ==
  /\ Messages \subseteq Nat
  /\ None \notin Messages \cup [message : Messages, auction_round : Rounds]
  /\ SizeOf \in [Messages -> Nat \ {0}]
  /\ MessagesOf \in [Clients -> SUBSET Messages]
  /\ Rounds \subseteq Nat \ {0} /\ BidValues \subseteq Nat
  /\ min_message_size = 1        \* AuctionEngine::new(message_length, 1)

VARIABLES
  current_round,    \* ClientState
  pending,
  scheduled,
  last_broadcast,
  shared_secrets,   \* the servers each client holds a shared key for
  submitted,        \* every message returned by messages_for_current_round
  published         \* the broadcast of each round, or None

state   == <<current_round, pending, scheduled, last_broadcast>>
vars    == <<state, shared_secrets, submitted, published>>

-----------------------------------------------------------------------------
(***************************************************************************)
(* Data.                                                                   *)
(***************************************************************************)
\* AuctionData::from_message.
BidFor(m, v) == AuctionData(m, v, SizeOf[m])

\* A broadcast.  bids is what recover() yields, or None when it fails.  writes
\* is the message vector: messages with the place they begin at, equal ones
\* cancelling under XOR.  taken, the submissions in the sum, is history.
RoundBroadcast(r, bids, writes, taken) ==
  [round_number |-> r, bids |-> bids, writes |-> writes, taken |-> taken]

\* XOR of the message vectors.
Combined(taken) ==
  LET writes == UNION {x.writes : x \in taken}
  IN  {w \in writes : Cardinality({x \in taken : w \in x.writes}) % 2 = 1}

\* The bids in the sum of the auction vectors, in each order.
BidOrders(taken) ==
  LET bidders == {x \in taken : x.bid # None}
  IN  {[i \in DOMAIN q |-> q[i].bid] : q \in SetToSeqs(bidders)}

\* The broadcast users start from; there is no round before the first.
Genesis == RoundBroadcast(0, <<>>, {}, {})

InitWith(servers) ==
  /\ current_round  = [c \in Clients |-> 0]
  /\ pending        = [c \in Clients |-> None]
  /\ scheduled      = [c \in Clients |-> None]
  /\ last_broadcast = [c \in Clients |-> None]
  /\ shared_secrets = servers
  /\ submitted      = {}
  /\ published      = [r \in Rounds \cup {0} |-> IF r = 0 THEN Genesis ELSE None]

\* ClientService::new.
Init == InitWith([c \in Clients |-> {}])

-----------------------------------------------------------------------------
(***************************************************************************)
(* The client's operations.                                                *)
(***************************************************************************)
\* Variant for the mutation runs: a message is dropped at the round it was bid
\* for, not after it.
advance_to_round_dropping(c, r) ==
  /\ current_round[c] < r
  /\ scheduled' = [scheduled EXCEPT ![c] =
                     IF @ # None /\ @.auction_round < r THEN None ELSE @]
  /\ current_round' = [current_round EXCEPT ![c] = r]
  /\ UNCHANGED <<pending, last_broadcast, shared_secrets, submitted, published>>

advance_to_round(c, r) ==
  /\ current_round[c] < r
  /\ scheduled' = [scheduled EXCEPT ![c] =
                     IF @ # None /\ @.auction_round + 1 < r THEN None ELSE @]
  /\ current_round' = [current_round EXCEPT ![c] = r]
  /\ UNCHANGED <<pending, last_broadcast, shared_secrets, submitted, published>>

register_server(c, s) ==
  /\ shared_secrets' = [shared_secrets EXCEPT ![c] = @ \cup {s}]
  /\ UNCHANGED <<state, submitted, published>>

deregister_server(c, s) ==
  /\ shared_secrets' = [shared_secrets EXCEPT ![c] = @ \ {s}]
  /\ UNCHANGED <<state, submitted, published>>

schedule_message_for_next_round(c, m, v) ==
  /\ current_round[c] # 0
  /\ pending[c] = None
  /\ pending' = [pending EXCEPT ![c] = BidFor(m, v)]
  /\ UNCHANGED <<current_round, scheduled, last_broadcast, shared_secrets,
                 submitted, published>>

\* Variant for the mutation runs: the broadcast a client has is kept.
process_round_broadcast_first(c, r) ==
  /\ published[r] # None /\ last_broadcast[c] = None
  /\ last_broadcast' = [last_broadcast EXCEPT ![c] = published[r]]
  /\ UNCHANGED <<current_round, pending, scheduled, shared_secrets, submitted,
                 published>>

process_round_broadcast(c, r) ==
  /\ published[r] # None
  /\ last_broadcast' = [last_broadcast EXCEPT ![c] = published[r]]
  /\ UNCHANGED <<current_round, pending, scheduled, shared_secrets, submitted,
                 published>>

-----------------------------------------------------------------------------
(***************************************************************************)
(* messages_for_current_round.                                             *)
(***************************************************************************)
Winners(b) == IF b.bids = None THEN <<>> ELSE run_auction(b.bids)

\* Variant for the mutation runs: the slot of the first winner of all.
PlacedFirst(b, m) ==
  LET winners == Winners(b)
      ours    == {k \in DOMAIN winners : winners[k].bid.message_hash = m}
  IN  IF ours = {} THEN {} ELSE {[at |-> winners[1].slot_idx, message |-> m]}

\* process_previous_auction: where message m may be written, the slot of the
\* first winner with its hash.
Placed(b, m) ==
  LET winners == Winners(b)
      ours    == {k \in DOMAIN winners : winners[k].bid.message_hash = m}
  IN  IF ours = {} THEN {} ELSE {[at |-> winners[Min(ours)].slot_idx, message |-> m]}

\* Variant for the mutation runs: the round of the bid off by one.
TransmitAtOnce(c) ==
  IF scheduled[c] # None /\ scheduled[c].auction_round = current_round[c]
    THEN scheduled[c].message ELSE None

\* The message to transmit, or None for the empty one.
Transmit(c) ==
  IF scheduled[c] # None /\ scheduled[c].auction_round = current_round[c] - 1
    THEN scheduled[c].message ELSE None

\* Variants for the mutation runs: the message sent stays scheduled; the round
\* recorded is that of the transmission.
ScheduleNextKeeping(c) ==
  IF Transmit(c) = None /\ pending[c] # None
    THEN [message |-> pending[c].message_hash, auction_round |-> current_round[c]]
    ELSE scheduled[c]

ScheduleNextAhead(c) ==
  IF pending[c] # None
    THEN [message |-> pending[c].message_hash, auction_round |-> current_round[c] + 1]
    ELSE IF Transmit(c) # None THEN None ELSE scheduled[c]

\* What is scheduled afterwards: the message now bid for, if there is one.
ScheduleNext(c) ==
  IF pending[c] # None
    THEN [message |-> pending[c].message_hash, auction_round |-> current_round[c]]
    ELSE IF Transmit(c) # None THEN None ELSE scheduled[c]

\* prepare_message and blind.  Writing the empty message changes nothing.
ClientRoundMessage(c) ==
  [signer |-> c, round_number |-> current_round[c],
   all_server_ids |-> shared_secrets[c],
   bid |-> pending[c],
   writes |-> IF Transmit(c) = None THEN {}
              ELSE Placed(last_broadcast[c], Transmit(c)),
   message_vector_len |-> Allocated(Winners(last_broadcast[c]))]

MadeForRound(c) ==
  \E x \in submitted : x.signer = c /\ x.round_number = current_round[c]

\* Variant for the mutation runs: any broadcast will do.
HasAnyBroadcast(c) == last_broadcast[c] # None

HasPreviousBroadcast(c) ==
  /\ last_broadcast[c] # None
  /\ last_broadcast[c].round_number = current_round[c] - 1

messages_for_current_round(c) ==
  /\ HasPreviousBroadcast(c)
  /\ current_round[c] \in AgainIn \/ ~MadeForRound(c)
  /\ submitted' = submitted \cup {ClientRoundMessage(c)}
  /\ scheduled' = [scheduled EXCEPT ![c] = ScheduleNext(c)]
  /\ pending'   = [pending EXCEPT ![c] = None]
  /\ UNCHANGED <<current_round, last_broadcast, shared_secrets, published>>

-----------------------------------------------------------------------------
(***************************************************************************)
(* The servers publish a round, once and never after a later one.          *)
(***************************************************************************)
CanTake(taken, r) ==
  /\ taken # {}
  /\ \A x \in taken : x.round_number = r /\ x.all_server_ids = Servers
  /\ \A x, y \in taken : /\ x.message_vector_len = y.message_vector_len
                         /\ x.signer = y.signer => x = y

Publish(r) ==
  /\ \A q \in Rounds : q >= r => published[q] = None
  /\ \E taken \in SUBSET {x \in submitted : x.round_number = r} :
       /\ CanTake(taken, r)
       /\ \E bids \in BidOrders(taken) \cup {None} :
            published' = [published EXCEPT ![r] =
                            RoundBroadcast(r, bids, Combined(taken), taken)]
  /\ UNCHANGED <<state, shared_secrets, submitted>>

ClientStep(c) ==
  \/ \E r \in Rounds : advance_to_round(c, r)
  \/ \E s \in Servers : register_server(c, s) \/ deregister_server(c, s)
  \/ \E m \in MessagesOf[c], v \in BidValues : schedule_message_for_next_round(c, m, v)
  \/ \E r \in DOMAIN published : process_round_broadcast(c, r)
  \/ messages_for_current_round(c)

Next ==
  \/ \E c \in Clients : ClientStep(c)
  \/ \E r \in Rounds : Publish(r)

Spec == Init /\ [][Next]_vars

(***************************************************************************)
(* The transport is left to the library's caller.  This one delivers the   *)
(* broadcast of the round before and asks for messages, and tries again    *)
(* when the client had another one by then and answered                    *)
(* NoPreviousBroadcast; late broadcasts may come between the two calls any *)
(* number of times.  Both are strong fairness; that of                     *)
(* messages_for_current_round is spelled out, so that TLC need not run the *)
(* auction to find out that it is enabled.  Nobody has to advance a        *)
(* client, to give it messages, or to publish.                             *)
(***************************************************************************)
hear_previous_round(c) ==
  \E r \in DOMAIN published :
    r = current_round[c] - 1 /\ process_round_broadcast(c, r)

answer(c) == ~MadeForRound(c) /\ UNCHANGED current_round /\ MadeForRound(c)'

AskingCaller(c) ==
  /\ SF_vars(hear_previous_round(c))
  /\ []<>(HasPreviousBroadcast(c) /\ ~MadeForRound(c)) => []<><<answer(c)>>_vars

-----------------------------------------------------------------------------
(***************************************************************************)
(* Properties.                                                             *)
(***************************************************************************)
Bids      == {BidFor(m, v) : m \in Messages, v \in BidValues}
Scheduled == [message : Messages, auction_round : Rounds]
Writes    == [at : Nat, message : Messages]

TypeOKSubmission(x) ==
  /\ x.signer \in Clients /\ x.round_number \in Rounds
  /\ x.all_server_ids \subseteq Servers
  /\ x.bid \in Bids \cup {None}
  /\ x.writes \subseteq Writes /\ x.message_vector_len \in 0 .. total_bandwidth

\* Types of ClientState, of the submissions and of the broadcasts.
TypeOK ==
  /\ current_round  \in [Clients -> Rounds \cup {0}]
  /\ pending        \in [Clients -> Bids \cup {None}]
  /\ scheduled      \in [Clients -> Scheduled \cup {None}]
  /\ shared_secrets \in [Clients -> SUBSET Servers]
  /\ \A c \in Clients : last_broadcast[c] # None =>
       \E r \in DOMAIN published : last_broadcast[c] = published[r]
  /\ \A x \in submitted : TypeOKSubmission(x)
  /\ \A r \in DOMAIN published : published[r] # None =>
       /\ published[r].round_number = r
       /\ published[r].taken \subseteq submitted
       /\ published[r].bids = None \/ published[r].bids \in Seq(Bids)

\* What a client writes in a round it bid for itself in the round before, and
\* it stays inside a slot that this bid won: the check in prepare_message for
\* MessageExceedsAllocatedSlot, which would come after the message and the bid
\* have been taken from the state and lose both, never fails.
WritesOnlyWhatItWon ==
  \A x \in submitted : \A w \in x.writes :
    LET r == x.round_number - 1
    IN  /\ \E y \in submitted :
             /\ y.signer = x.signer /\ y.round_number = r
             /\ y.bid # None /\ y.bid.message_hash = w.message
        /\ r \in DOMAIN published /\ published[r] # None
        /\ LET winners == Winners(published[r])
           IN  \E k \in DOMAIN winners :
                 /\ winners[k].bid.message_hash = w.message
                 /\ winners[k].slot_idx = w.at
                 /\ SizeOf[w.message] <= winners[k].slot_size
                 /\ w.at + SizeOf[w.message] <= x.message_vector_len

\* A message bid for is at hand while it may still be sent: ClientService has
\* it in `scheduled` until it has made its message for the next round or has
\* gone past that round.  (A caller that asks twice in a round and schedules in
\* between bids twice; one of the two messages is kept.)
BidsAreHonoured ==
  \A y \in submitted : y.bid # None =>
    LET c == y.signer
        r == y.round_number
    IN  current_round[c] = r \/ (current_round[c] = r + 1 /\ ~MadeForRound(c))
          => \E z \in submitted :
               /\ z.signer = c /\ z.round_number = r /\ z.bid # None
               /\ scheduled[c] = [message |-> z.bid.message_hash, auction_round |-> r]

\* messages_for_current_round transmits a message in one of its results, even
\* if it is called again in the round.
TransmittedOnce ==
  \A x, y \in submitted :
    x.signer = y.signer /\ x.round_number = y.round_number
      /\ x.writes # {} /\ y.writes # {} => x = y

\* No byte of a broadcast is written by two messages: the slots of the previous
\* auction keep the clients apart.
Bytes(w) == w.at .. (w.at + SizeOf[w.message] - 1)

SlotsKeepClientsApart ==
  \A r \in DOMAIN published : published[r] # None =>
    \A x, y \in published[r].taken : x # y =>
      \A v \in x.writes, w \in y.writes : Bytes(v) \cap Bytes(w) = {}

\* Round r follows a round whose auction was recovered, and counts a message of
\* the bidder y of that round.
Answers(r, y) ==
  /\ r - 1 \in DOMAIN published /\ published[r - 1] # None /\ published[r] # None
  /\ y \in published[r - 1].taken /\ y.bid # None
  /\ \E x \in published[r].taken : x.signer = y.signer

\* "The two winning messages must appear somewhere in the message vector"
\* (tests/e2e.rs): if a bid wins and its bidder takes part in the next round,
\* the next broadcast carries the message.
WinningMessagesAppear ==
  \A r \in Rounds : published[r] # None /\ published[r - 1] # None =>
    LET winners == Winners(published[r - 1])
    IN  \A k \in DOMAIN winners : \A y \in published[r - 1].taken :
          /\ Answers(r, y)
          /\ y.bid.message_hash = winners[k].bid.message_hash
          => \E w \in published[r].writes : w.message = winners[k].bid.message_hash

\* A client that stays in a round whose predecessor has a broadcast makes its
\* message for it, whatever it was given before and in between: a broadcast
\* that comes late or twice keeps it from answering for a while only.
RoundsAreAnswered(c) ==
  \A r \in Rounds :
    (current_round[c] = r /\ published[r - 1] # None)
      ~> (current_round[c] # r
            \/ \E x \in submitted : x.signer = c /\ x.round_number = r)
=============================================================================
