---------------------------- MODULE ServerService ----------------------------
(***************************************************************************)
(* The servers of the protocol: struct ServerService of                    *)
(* src/protocol/services.rs, one instance per element of Servers.          *)
(*                                                                         *)
(* A ServerService guards its fields with three mutexes and is called from *)
(* any number of threads.  A step of this module is what one thread does   *)
(* between taking a mutex and releasing it, so a call that takes a mutex   *)
(* more than once is several steps and what it read before is held in      *)
(* activity[t].  A call that takes one mutex once is one step and needs no *)
(* thread.  A call that fails leaves the state as it was at the failing    *)
(* check; where nothing had changed yet, that is a stuttering step and the *)
(* guard of the action leaves it out.                                      *)
(*                                                                         *)
(* The callers are the environment: they deliver the client messages in    *)
(* Submissions, the aggregates in Aggregations and any partial a server    *)
(* has returned (sent), to any server, in any order, any number of times   *)
(* or never.                                                               *)
(***************************************************************************)
EXTENDS Aggregates

CONSTANTS
  Threads,          \* the threads that call the services
  Host,             \* Host[t] is the server whose methods thread t calls
  Submissions,      \* the signed client messages that exist
  Aggregations,     \* the aggregates an aggregator returned
  PeerKeys          \* the <<id, key>> pairs register_peer_server is given

ASSUME HostAssumption == Host \in [Threads -> Servers]

\* None is no broadcast either.
ASSUME OutputAssumption == None \notin RoundBroadcast

\* Clients blind with ClientMessager; an aggregator sums one message of each
\* client it lists.
ASSUME InputAssumption ==
  /\ \A m \in Submissions : IsSubmission(m)
  /\ \A a \in Aggregations : IsAggregation(a)

ASSUME PeerKeyAssumption == PeerKeys \subseteq Servers \X Servers

VARIABLES
  current_round,    \* ServerState.current_round; ServerState.round is None
                    \* exactly while this is 0
  direct_aggregate, \* the four fields of ServerRoundData ...
  own_partial,
  partials,
  round_output,     \* ... that advance_to_round replaces by empty ones
  shared_secrets,   \* the clients each server holds a shared key for
  peer_pubkeys,     \* server id -> signing key
  sent,             \* every partial a server has returned to its caller
  activity          \* what each thread is in the middle of

state    == <<current_round, direct_aggregate, own_partial, partials,
              round_output>>
registry == <<shared_secrets, peer_pubkeys>>
vars     == <<state, registry, sent, activity>>

Idle == [at |-> "idle"]

Become(t, a) == activity' = [activity EXCEPT ![t] = a]

(***************************************************************************)
(* ServerService::new, for every server.                                   *)
(***************************************************************************)
NewState ==
  /\ current_round    = [s \in Servers |-> 0]
  /\ direct_aggregate = [s \in Servers |-> None]
  /\ own_partial      = [s \in Servers |-> None]
  /\ partials         = [s \in Servers |-> EmptyMap]
  /\ round_output     = [s \in Servers |-> None]
  /\ sent             = {}
  /\ activity         = [t \in Threads |-> Idle]

Init ==
  /\ NewState
  /\ shared_secrets = [s \in Servers |-> {}]
  /\ peer_pubkeys   = [s \in Servers |-> [EmptyMap EXCEPT ![s] = s]]

-----------------------------------------------------------------------------
(***************************************************************************)
(* Calls of one step.                                                      *)
(***************************************************************************)
register_peer_server(s, i, key) ==
  /\ <<i, key>> \in PeerKeys
  /\ peer_pubkeys' = [peer_pubkeys EXCEPT ![s][i] = key]
  /\ UNCHANGED <<state, shared_secrets, sent, activity>>

register_client(s, c) ==
  /\ shared_secrets' = [shared_secrets EXCEPT ![s] = @ \cup {c}]
  /\ UNCHANGED <<state, peer_pubkeys, sent, activity>>

deregister_client(s, c) ==
  /\ shared_secrets' = [shared_secrets EXCEPT ![s] = @ \ {c}]
  /\ UNCHANGED <<state, peer_pubkeys, sent, activity>>

\* Variants for the mutation runs: the counter one too far; the partials of
\* the round before kept.
EnterRoundAfter(s, r) ==
  /\ current_round'    = [current_round EXCEPT ![s] = r + 1]
  /\ direct_aggregate' = [direct_aggregate EXCEPT ![s] = None]
  /\ own_partial'      = [own_partial EXCEPT ![s] = None]
  /\ partials'         = [partials EXCEPT ![s] = EmptyMap]
  /\ round_output'     = [round_output EXCEPT ![s] = None]

EnterRoundWithPartials(s, r) ==
  /\ current_round'    = [current_round EXCEPT ![s] = r]
  /\ direct_aggregate' = [direct_aggregate EXCEPT ![s] = None]
  /\ own_partial'      = [own_partial EXCEPT ![s] = None]
  /\ round_output'     = [round_output EXCEPT ![s] = None]
  /\ UNCHANGED partials

\* The new round begins with an empty ServerRoundData.
EnterRound(s, r) ==
  /\ current_round'    = [current_round EXCEPT ![s] = r]
  /\ direct_aggregate' = [direct_aggregate EXCEPT ![s] = None]
  /\ own_partial'      = [own_partial EXCEPT ![s] = None]
  /\ partials'         = [partials EXCEPT ![s] = EmptyMap]
  /\ round_output'     = [round_output EXCEPT ![s] = None]

\* Variant for the mutation runs: advancing to the current round once more.
advance_to_round_again(s, r) ==
  /\ current_round[s] <= r
  /\ EnterRound(s, r)
  /\ UNCHANGED <<registry, sent, activity>>

advance_to_round(s, r) ==
  /\ current_round[s] < r
  /\ EnterRound(s, r)
  /\ UNCHANGED <<registry, sent, activity>>

-----------------------------------------------------------------------------
(***************************************************************************)
(* process_client_message: the registration check under shared_secrets,    *)
(* then the fold under state.                                              *)
(***************************************************************************)
process_client_message(t, m) ==
  /\ activity[t] = Idle
  /\ m.signer \in shared_secrets[Host[t]]
  /\ Become(t, [at |-> "fold", msg |-> m])
  /\ UNCHANGED <<state, registry, sent>>

\* The running aggregate m is folded into: the round's, or a zero-filled one.
RunningAggregate(s, m) ==
  IF direct_aggregate[s] = None THEN EmptyFor(m) ELSE direct_aggregate[s]

\* Whether m may be added to the running aggregate agg.
CanFold(agg, m) ==
  /\ agg.all_server_ids = m.all_server_ids
  /\ agg.shape = m.shape
  /\ m.signer \notin Signers(agg.user_pks)

fold_client_message(t) ==
  LET s == Host[t]
      m == activity[t].msg
  IN  /\ activity[t].at = "fold"
      /\ Become(t, Idle)
      /\ IF /\ current_round[s] # 0
            /\ m.round_number = current_round[s]
            /\ m.shape \in ConfigShapes
            /\ CanFold(RunningAggregate(s, m), m)
         THEN direct_aggregate' = [direct_aggregate EXCEPT ![s] =
                                     Fold(RunningAggregate(s, m), m)]
         ELSE UNCHANGED direct_aggregate
      /\ UNCHANGED <<current_round, own_partial, partials, round_output,
                     registry, sent>>

-----------------------------------------------------------------------------
(***************************************************************************)
(* process_aggregate_message, from the caller or from                      *)
(* finalize_partial_for_direct_aggregate, which has taken the running      *)
(* aggregate out of the state by then.                                     *)
(***************************************************************************)
finalize_partial_for_direct_aggregate(t) ==
  LET s == Host[t]
  IN  /\ activity[t] = Idle
      /\ direct_aggregate[s] # None
      /\ Become(t, [at |-> "read round", agg |-> direct_aggregate[s]])
      /\ direct_aggregate' = [direct_aggregate EXCEPT ![s] = None]
      /\ UNCHANGED <<current_round, own_partial, partials, round_output,
                     registry, sent>>

process_aggregate_message(t, a) ==
  /\ activity[t] = Idle
  /\ Become(t, [at |-> "read round", agg |-> a])
  /\ UNCHANGED <<state, registry, sent>>

\* Variant for the mutation runs: only older rounds are refused.
CanProcessEarly(s, a) ==
  /\ s \in a.all_server_ids
  /\ a.round_number >= current_round[s]
  /\ a.shape \in ConfigShapes

\* The checks on the aggregate; `cur` is read under state.
CanProcess(s, a) ==
  /\ s \in a.all_server_ids
  /\ a.round_number = current_round[s]
  /\ a.shape \in ConfigShapes

read_round(t) ==
  LET s == Host[t]
      a == activity[t].agg
  IN  /\ activity[t].at = "read round"
      /\ Become(t, IF CanProcess(s, a) THEN [at |-> "unblind", agg |-> a] ELSE Idle)
      /\ UNCHANGED <<state, registry, sent>>

\* The share is derived under shared_secrets, for the round read before.
unblind_aggregate(t) ==
  LET s == Host[t]
      a == activity[t].agg
  IN  /\ activity[t].at = "unblind"
      /\ Become(t, IF CanUnblindAggregate(s, a.round_number, a, shared_secrets[s])
                   THEN [at |-> "store", agg |-> a,
                         additional |-> UnblindAggregate(s, a.round_number, a)]
                   ELSE Idle)
      /\ UNCHANGED <<state, registry, sent>>

\* Variant for the mutation runs: the message vector is left as it was.
ExtendAuctionOnly(current, agg, additional) ==
  [server_id          |-> current.server_id,
   original_aggregate |-> Union(current.original_aggregate, agg),
   user_pks           |-> current.user_pks \o additional.user_pks,
   auction_vector     |-> Add(current.auction_vector, additional.auction_vector),
   message_vector     |-> current.message_vector]

\* The share of one more aggregate, added to the share the server has.
Extend(current, agg, additional) ==
  [server_id          |-> current.server_id,
   original_aggregate |-> Union(current.original_aggregate, agg),
   user_pks           |-> current.user_pks \o additional.user_pks,
   auction_vector     |-> Add(current.auction_vector, additional.auction_vector),
   message_vector     |-> Xor(current.message_vector, additional.message_vector)]

store_own_partial(t) ==
  LET s   == Host[t]
      a   == activity[t].agg
      new == activity[t].additional
      own == own_partial[s]
      out == IF own = None THEN new ELSE Extend(own, a, new)
  IN  /\ activity[t].at = "store"
      /\ Become(t, Idle)
      /\ IF /\ current_round[s] # 0
            /\ own # None => CanUnion(own.original_aggregate, a)
         THEN /\ own_partial' = [own_partial EXCEPT ![s] = out]
              /\ sent' = sent \cup {out}
         ELSE UNCHANGED <<own_partial, sent>>
      /\ UNCHANGED <<current_round, direct_aggregate, partials, round_output,
                     registry>>

-----------------------------------------------------------------------------
(***************************************************************************)
(* process_signed_partial_decryption_message and                           *)
(* process_partial_decryption_message.                                     *)
(***************************************************************************)

\* The envelope is signed by the server that made the partial (sign_partial):
\* the key registered for the claimed id has to be that server's.
process_signed_partial_decryption_message(t, p) ==
  LET s == Host[t]
  IN  /\ activity[t] = Idle
      /\ peer_pubkeys[s][p.server_id] = p.server_id
      /\ Become(t, [at |-> "read peers", msg |-> p])
      /\ UNCHANGED <<state, registry, sent>>

process_partial_decryption_message(t, p) ==
  /\ activity[t] = Idle
  /\ Become(t, [at |-> "read peers", msg |-> p])
  /\ UNCHANGED <<state, registry, sent>>

\* The threshold is the registry of this moment.  (The test that the sender
\* is registered takes the mutex once more before; peers are never removed,
\* so testing it here admits the same calls.)
read_peers(t) ==
  LET s == Host[t]
      p == activity[t].msg
      expected == Keys(peer_pubkeys[s])
  IN  /\ activity[t].at = "read peers"
      /\ Become(t, IF /\ p.server_id \in expected
                      /\ p.original_aggregate.all_server_ids = expected
                   THEN [at |-> "check round", msg |-> p, expected |-> expected]
                   ELSE Idle)
      /\ UNCHANGED <<state, registry, sent>>

check_round(t) ==
  LET s == Host[t]
      p == activity[t].msg
  IN  /\ activity[t].at = "check round"
      /\ Become(t, IF p.original_aggregate.round_number = current_round[s]
                   THEN [at |-> "insert", msg |-> p, expected |-> activity[t].expected]
                   ELSE Idle)
      /\ UNCHANGED <<state, registry, sent>>

\* Variant for the mutation runs: one partial too many is waited for.
MoreThanAllArrived(table, expected) ==
  Cardinality(Keys(table)) > Cardinality(expected)

\* Whether the table holds as many partials as there were peers.
AllArrived(table, expected) ==
  Cardinality(Keys(table)) >= Cardinality(expected)

insert_partial(t) ==
  LET s     == Host[t]
      p     == activity[t].msg
      table == [partials[s] EXCEPT ![p.server_id] = p]
  IN  /\ activity[t].at = "insert"
      /\ IF \/ current_round[s] = 0
            \/ round_output[s] # None
            \/ partials[s][p.server_id] # None
         THEN /\ Become(t, Idle)
              /\ UNCHANGED partials
         ELSE /\ partials' = [partials EXCEPT ![s] = table]
              /\ Become(t, IF AllArrived(table, activity[t].expected)
                           THEN [at |-> "combine", msgs |-> table]
                           ELSE Idle)
      /\ UNCHANGED <<current_round, direct_aggregate, own_partial,
                     round_output, registry, sent>>

\* unblind_partial_messages works on clones of the partials: its checks, then
\* one subtraction per share, in the order of the server ids (any fixed order
\* will do).  The mutex held meanwhile, that of shared_secrets, guards nothing
\* they read; that a registration waits for it makes no difference to them.
unblind_partial_messages(t) ==
  LET msgs == activity[t].msgs
      head == CHOOSE i \in Keys(msgs) : TRUE
      agg  == msgs[head].original_aggregate
  IN  /\ activity[t].at = "combine"
      /\ Become(t, IF CanCombine(msgs)
                   THEN [at |-> "subtract", msgs |-> msgs, agg |-> agg,
                         todo |-> Keys(msgs),
                         auction_vector |-> agg.auction_vector,
                         message_vector |-> agg.message_vector]
                   ELSE Idle)
      /\ UNCHANGED <<state, registry, sent>>

subtract_share(t) ==
  LET a == activity[t]
      i == CHOOSE j \in a.todo : TRUE
  IN  /\ a.at = "subtract"
      /\ a.todo # {}
      /\ Become(t, [at |-> "subtract", msgs |-> a.msgs, agg |-> a.agg,
                    todo |-> a.todo \ {i},
                    auction_vector |-> Sub(a.auction_vector, a.msgs[i].auction_vector),
                    message_vector |-> Xor(a.message_vector, a.msgs[i].message_vector)])
      /\ UNCHANGED <<state, registry, sent>>

store_round_output(t) ==
  LET s == Host[t]
      a == activity[t]
  IN  /\ a.at = "subtract"
      /\ a.todo = {}
      /\ Become(t, Idle)
      /\ round_output' = [round_output EXCEPT ![s] =
                            [round_number   |-> a.agg.round_number,
                             auction_vector |-> a.auction_vector,
                             message_vector |-> a.message_vector]]
      /\ UNCHANGED <<current_round, direct_aggregate, own_partial, partials,
                     registry, sent>>

-----------------------------------------------------------------------------
\* A call returns to its caller's thread, or a thread goes on with one.
Continue(t) ==
  \/ fold_client_message(t)
  \/ read_round(t) \/ unblind_aggregate(t) \/ store_own_partial(t)
  \/ read_peers(t) \/ check_round(t) \/ insert_partial(t)
  \/ unblind_partial_messages(t) \/ subtract_share(t) \/ store_round_output(t)

Call(t) ==
  \/ \E m \in Submissions : process_client_message(t, m)
  \/ finalize_partial_for_direct_aggregate(t)
  \/ \E a \in Aggregations : process_aggregate_message(t, a)
  \/ \E p \in sent : process_signed_partial_decryption_message(t, p)
  \/ \E p \in sent : process_partial_decryption_message(t, p)

Administer(s) ==
  \/ \E r \in Rounds : advance_to_round(s, r)
  \/ \E c \in Clients : register_client(s, c)
  \/ \E c \in Clients : deregister_client(s, c)
  \/ \E i, key \in Servers : register_peer_server(s, i, key)

Next ==
  \/ \E t \in Threads : Call(t) \/ Continue(t)
  \/ \E s \in Servers : Administer(s)

Spec == Init /\ [][Next]_vars

-----------------------------------------------------------------------------
(***************************************************************************)
(* A caller that drives each server from one thread at a time, as          *)
(* tests/e2e.rs does: no call begins on a server while another is in       *)
(* progress there.                                                         *)
(***************************************************************************)
Quiescent(s) == \A t \in Threads : Host[t] = s => activity[t] = Idle

SerialNext ==
  \/ \E t \in Threads : Quiescent(Host[t]) /\ Call(t)
  \/ \E t \in Threads : Continue(t)
  \/ \E s \in Servers : Quiescent(s) /\ Administer(s)

-----------------------------------------------------------------------------
(***************************************************************************)
(* Types.                                                                  *)
(***************************************************************************)
Tables == [Servers -> Option(ServerPartialDecryptionMessage)]

Activities ==
       {Idle}
  \cup [at : {"fold"}, msg : ClientRoundMessage]
  \cup [at : {"read round", "unblind"}, agg : AggregatedClientMessages]
  \cup [at : {"store"}, agg : AggregatedClientMessages,
        additional : ServerPartialDecryptionMessage]
  \cup [at : {"read peers"}, msg : ServerPartialDecryptionMessage]
  \cup [at : {"check round", "insert"}, msg : ServerPartialDecryptionMessage,
        expected : SUBSET Servers]
  \cup [at : {"combine"}, msgs : Tables]
  \cup [at : {"subtract"}, msgs : Tables, agg : AggregatedClientMessages,
        todo : SUBSET Servers,
        auction_vector : AuctionVector, message_vector : MessageVector]

TypeOK ==
  /\ current_round    \in [Servers -> 0..MaxRound]
  /\ direct_aggregate \in [Servers -> Option(AggregatedClientMessages)]
  /\ own_partial      \in [Servers -> Option(ServerPartialDecryptionMessage)]
  /\ partials         \in [Servers -> Tables]
  /\ round_output     \in [Servers -> Option(RoundBroadcast)]
  /\ shared_secrets   \in [Servers -> SUBSET Clients]
  /\ peer_pubkeys     \in [Servers -> [Servers -> Option(Servers)]]
  /\ sent             \subseteq ServerPartialDecryptionMessage
  /\ activity         \in [Threads -> Activities]

-----------------------------------------------------------------------------
(***************************************************************************)
(* Safety.                                                                 *)
(***************************************************************************)

\* A partial is the server's own pads for exactly the clients of the aggregate
\* it is attached to, in that aggregate's order, each pad once.
ShareFits(p) ==
  LET a    == p.original_aggregate
      pads == PadSet(Signers(a.user_pks), {p.server_id}, a.round_number)
  IN  /\ p.server_id \in a.all_server_ids
      /\ p.user_pks = a.user_pks
      /\ p.auction_vector = Sum(pads)
      /\ p.message_vector = pads

\* However aggregates are delivered, split, repeated or raced against each
\* other and against registrations, what a server keeps counts one message of
\* each client it lists: the running aggregate of process_client_message and
\* the aggregate process_aggregate_message extends.
EachClientOnce ==
  \A s \in Servers :
    /\ direct_aggregate[s] # None => IsAggregation(direct_aggregate[s])
    /\ own_partial[s] # None => IsAggregation(own_partial[s].original_aggregate)

\* The share a server keeps and every share a server has returned or accepted
\* cancel that server's pads in the aggregate they are attached to: what
\* process_aggregate_message updates field by field stays in step.
SharesFitTheirAggregates ==
  /\ \A s \in Servers : own_partial[s] # None => ShareFits(own_partial[s])
  /\ \A p \in sent : ShareFits(p)
  /\ \A s, i \in Servers :
       partials[s][i] # None => partials[s][i].server_id = i /\ ShareFits(partials[s][i])

\* "With every server's share, the pads cancel and the aggregate plaintext is
\* recovered": a broadcast is the sum of one content per client of some set of
\* clients, with no pad left and nothing counted twice.
OutputIsPlaintext ==
  \A s \in Servers : round_output[s] # None =>
    LET out == round_output[s]
    IN  \E cs \in SUBSET Clients : \E draft \in [cs -> Drafts] :
          LET contents == {Content(c, out.round_number, draft[c]) : c \in cs}
          IN  /\ out.auction_vector = Sum(contents)
              /\ out.message_vector = contents

\* "Recovery requires every server's share": a broadcast opens one aggregate,
\* and every server of that aggregate's roster has returned its share of
\* exactly that aggregate before.
OutputNeedsEveryShare ==
  \A s \in Servers : round_output[s] # None =>
    \E p \in sent :
      LET a == p.original_aggregate
      IN  /\ a.round_number = round_output[s].round_number
          /\ \A x \in Contents : a.auction_vector[x] = round_output[s].auction_vector[x]
          /\ s \in a.all_server_ids
          /\ \A i \in a.all_server_ids :
               \E q \in sent : q.server_id = i /\ q.original_aggregate = a

\* Whatever races with advance_to_round, nothing a server keeps is of a round
\* it has not reached; the running aggregate is always of the round it is in.
NothingFromTheFuture ==
  \A s \in Servers :
    /\ direct_aggregate[s] # None =>
         direct_aggregate[s].round_number = current_round[s]
    /\ own_partial[s] # None =>
         own_partial[s].original_aggregate.round_number \in 1..current_round[s]
    /\ \A i \in Servers : partials[s][i] # None =>
         partials[s][i].original_aggregate.round_number \in 1..current_round[s]
    /\ round_output[s] # None =>
         round_output[s].round_number \in 1..current_round[s]

\* Driven from one thread at a time, a server's round state is of its current
\* round: "message for incorrect round" rejects the rest.
RoundStateIsCurrent ==
  \A s \in Servers :
    /\ own_partial[s] # None =>
         own_partial[s].original_aggregate.round_number = current_round[s]
    /\ \A i \in Servers : partials[s][i] # None =>
         partials[s][i].original_aggregate.round_number = current_round[s]
    /\ round_output[s] # None => round_output[s].round_number = current_round[s]

\* "Once all partials have arrived, returns the reconstructed RoundBroadcast":
\* when a server holds the partials of every server for one and the same set
\* of clients, it has opened them or a thread of it is about to.
AgreedPartialsOpen ==
  \A s \in Servers :
    LET table == partials[s]
    IN  /\ Keys(table) = Servers
        /\ \A i, j \in Servers : Signers(table[i].user_pks) = Signers(table[j].user_pks)
        => \/ round_output[s] # None
           \/ \E t \in Threads :
                Host[t] = s /\ activity[t].at \in {"combine", "subtract"}

(***************************************************************************)
(* Driven from one thread at a time, a server is an anonymous broadcast.   *)
(***************************************************************************)
Abstract == INSTANCE AnonymousBroadcast WITH
              round <- current_round, output <- round_output

ImplementsBroadcast == Abstract!ABSpec

(***************************************************************************)
(* Liveness, for a caller that drives each server from one thread and      *)
(* keeps offering each partial of the current round to it until the call   *)
(* has begun.  Strong fairness is of the caller's loop: other calls may    *)
(* keep the thread busy for a while, not for ever.                         *)
(***************************************************************************)
Offer(s, i) ==
  \E t \in Threads : \E p \in sent :
    /\ Host[t] = s /\ p.server_id = i
    /\ p.original_aggregate.round_number = current_round[s]
    /\ Quiescent(s)
    /\ process_partial_decryption_message(t, p)

Fairness ==
  /\ \A t \in Threads : WF_vars(Continue(t))
  /\ \A s, i \in Servers : SF_vars(Offer(s, i))

\* A server that knows its peers and is in the last round, for which every
\* server has returned a share, gets the broadcast.
RoundCompletes ==
  \A s \in Servers :
    (/\ current_round[s] = MaxRound
     /\ Keys(peer_pubkeys[s]) = Servers
     /\ \A i \in Servers : \E p \in sent :
          p.server_id = i /\ p.original_aggregate.round_number = MaxRound)
    ~> round_output[s] # None
=============================================================================
