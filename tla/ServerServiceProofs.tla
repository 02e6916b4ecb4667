------------------------ MODULE ServerServiceProofs ------------------------
(***************************************************************************)
(* Proofs about ServerService, for any number of clients, servers, threads *)
(* and rounds and any interleaving of the calls: types; what a server      *)
(* keeps counts each client once, its shares fit their aggregates, and     *)
(* what it publishes is plaintext; what the rounds and the history allow,  *)
(* that the servers implement the anonymous broadcast, and when partials   *)
(* that agree are opened.                                                  *)
(***************************************************************************)
EXTENDS ServerService, AggregatesProofs, FiniteSetTheorems

-----------------------------------------------------------------------------
(***************************************************************************)
(* What a thread holds, by the step it is at.                              *)
(***************************************************************************)
LEMMA ActivityFields ==
  ASSUME NEW a \in Activities
  PROVE  /\ a.at = "fold" => a.msg \in ClientRoundMessage
         /\ a.at \in {"read round", "unblind", "store"} => a.agg \in AggregatedClientMessages
         /\ a.at = "store" => a.additional \in ServerPartialDecryptionMessage
         /\ a.at \in {"read peers", "check round", "insert"} =>
              a.msg \in ServerPartialDecryptionMessage
         /\ a.at \in {"check round", "insert"} => a.expected \in SUBSET Servers
         /\ a.at \in {"combine", "subtract"} => a.msgs \in Tables
         /\ a.at = "subtract" =>
              /\ a.agg \in AggregatedClientMessages
              /\ a.todo \in SUBSET Servers
              /\ a.auction_vector \in AuctionVector
              /\ a.message_vector \in MessageVector
<1>1. CASE a = Idle
  BY <1>1 DEF Idle
<1>2. CASE a \in [at : {"fold"}, msg : ClientRoundMessage]
  BY <1>2
<1>3. CASE a \in [at : {"read round", "unblind"}, agg : AggregatedClientMessages]
  BY <1>3
<1>4. CASE a \in [at : {"store"}, agg : AggregatedClientMessages,
                 additional : ServerPartialDecryptionMessage]
  BY <1>4
<1>5. CASE a \in [at : {"read peers"}, msg : ServerPartialDecryptionMessage]
  BY <1>5
<1>6. CASE a \in [at : {"check round", "insert"},
                 msg : ServerPartialDecryptionMessage, expected : SUBSET Servers]
  BY <1>6
<1>7. CASE a \in [at : {"combine"}, msgs : Tables]
  BY <1>7
<1>8. CASE a \in [at : {"subtract"}, msgs : Tables, agg : AggregatedClientMessages,
                 todo : SUBSET Servers, auction_vector : AuctionVector,
                 message_vector : MessageVector]
  BY <1>8
<1> QED BY <1>1, <1>2, <1>3, <1>4, <1>5, <1>6, <1>7, <1>8 DEF Activities

\* Making an activity of each kind.
LEMMA MakeActivity ==
  /\ Idle \in Activities
  /\ \A m \in ClientRoundMessage : [at |-> "fold", msg |-> m] \in Activities
  /\ \A g \in AggregatedClientMessages :
       /\ [at |-> "read round", agg |-> g] \in Activities
       /\ [at |-> "unblind", agg |-> g] \in Activities
       /\ \A p \in ServerPartialDecryptionMessage :
            [at |-> "store", agg |-> g, additional |-> p] \in Activities
  /\ \A p \in ServerPartialDecryptionMessage :
       /\ [at |-> "read peers", msg |-> p] \in Activities
       /\ \A e \in SUBSET Servers :
            /\ [at |-> "check round", msg |-> p, expected |-> e] \in Activities
            /\ [at |-> "insert", msg |-> p, expected |-> e] \in Activities
  /\ \A table \in Tables : [at |-> "combine", msgs |-> table] \in Activities
  /\ \A table \in Tables, g \in AggregatedClientMessages, todo \in SUBSET Servers,
        u \in AuctionVector, v \in MessageVector :
       [at |-> "subtract", msgs |-> table, agg |-> g, todo |-> todo,
        auction_vector |-> u, message_vector |-> v] \in Activities
BY DEF Activities

LEMMA BecomeType ==
  ASSUME NEW t \in Threads, NEW a \in Activities, Become(t, a),
         activity \in [Threads -> Activities]
  PROVE  activity' \in [Threads -> Activities]
BY DEF Become

-----------------------------------------------------------------------------
(***************************************************************************)
(* Type correctness.                                                       *)
(***************************************************************************)
LEMMA InputTypes ==
  /\ Submissions \subseteq ClientRoundMessage
  /\ Aggregations \subseteq AggregatedClientMessages
BY InputAssumption, SubmissionType, AggregationType

LEMMA TypeInit == Init => TypeOK
<1> SUFFICES ASSUME Init PROVE TypeOK
  OBVIOUS
<1>1. EmptyMap \in Tables
  BY DEF EmptyMap, Tables, Option
<1>2. \A s \in Servers : [EmptyMap EXCEPT ![s] = s] \in [Servers -> Option(Servers)]
  BY DEF EmptyMap, Option
<1>3. /\ current_round \in [Servers -> 0..MaxRound]
      /\ direct_aggregate \in [Servers -> Option(AggregatedClientMessages)]
      /\ own_partial \in [Servers -> Option(ServerPartialDecryptionMessage)]
      /\ round_output \in [Servers -> Option(RoundBroadcast)]
      /\ shared_secrets \in [Servers -> SUBSET Clients]
      /\ sent \subseteq ServerPartialDecryptionMessage
  BY RoundAssumption DEF Init, NewState, Option
<1>4. partials \in [Servers -> Tables]
  BY <1>1 DEF Init, NewState
<1>5. peer_pubkeys \in [Servers -> [Servers -> Option(Servers)]]
  BY <1>2 DEF Init
<1>6. activity \in [Threads -> Activities]
  BY MakeActivity DEF Init, NewState
<1> QED BY <1>3, <1>4, <1>5, <1>6 DEF TypeOK

\* Calls that touch one mutex once.
LEMMA TypeAdminister ==
  ASSUME TypeOK, NEW s \in Servers, Administer(s)
  PROVE  TypeOK'
<1>1. ASSUME NEW r \in Rounds, advance_to_round(s, r)
      PROVE  TypeOK'
  <2>1. EmptyMap \in Tables /\ None \in Option(AggregatedClientMessages)
        /\ None \in Option(ServerPartialDecryptionMessage)
        /\ None \in Option(RoundBroadcast)
    BY DEF EmptyMap, Tables, Option
  <2>2. r \in 0..MaxRound
    BY DEF Rounds
  <2> QED BY <1>1, <2>1, <2>2 DEF advance_to_round, EnterRound, TypeOK, registry
<1>2. ASSUME NEW c \in Clients, register_client(s, c) \/ deregister_client(s, c)
      PROVE  TypeOK'
  BY <1>2 DEF register_client, deregister_client, TypeOK, state
<1>3. ASSUME NEW i \in Servers, NEW key \in Servers, register_peer_server(s, i, key)
      PROVE  TypeOK'
  <2>1. peer_pubkeys' \in [Servers -> [Servers -> Option(Servers)]]
    BY <1>3 DEF register_peer_server, TypeOK, Option
  <2> QED BY <1>3, <2>1 DEF register_peer_server, TypeOK, state
<1> QED BY <1>1, <1>2, <1>3 DEF Administer

\* A call begins.
LEMMA TypeCall ==
  ASSUME TypeOK, NEW t \in Threads, Call(t)
  PROVE  TypeOK'
<1>0. activity \in [Threads -> Activities] /\ Host[t] \in Servers
  BY HostAssumption DEF TypeOK
<1>1. ASSUME NEW m \in Submissions, process_client_message(t, m)
      PROVE  TypeOK'
  <2>1. [at |-> "fold", msg |-> m] \in Activities
    BY InputTypes, MakeActivity
  <2>2. activity' \in [Threads -> Activities]
    BY <1>0, <1>1, <2>1, BecomeType DEF process_client_message
  <2> QED BY <1>1, <2>2 DEF process_client_message, TypeOK, state, registry
<1>2. ASSUME finalize_partial_for_direct_aggregate(t)
      PROVE  TypeOK'
  <2>1. direct_aggregate[Host[t]] \in AggregatedClientMessages
    BY <1>0, <1>2 DEF finalize_partial_for_direct_aggregate, TypeOK, Option
  <2>2. [at |-> "read round", agg |-> direct_aggregate[Host[t]]] \in Activities
    BY <2>1, MakeActivity
  <2>3. activity' \in [Threads -> Activities]
    BY <1>0, <1>2, <2>2, BecomeType DEF finalize_partial_for_direct_aggregate
  <2>4. direct_aggregate' \in [Servers -> Option(AggregatedClientMessages)]
    BY <1>2 DEF finalize_partial_for_direct_aggregate, TypeOK, Option
  <2> QED BY <1>2, <2>3, <2>4 DEF finalize_partial_for_direct_aggregate, TypeOK, registry
<1>3. ASSUME NEW a \in Aggregations, process_aggregate_message(t, a)
      PROVE  TypeOK'
  <2>1. [at |-> "read round", agg |-> a] \in Activities
    BY InputTypes, MakeActivity
  <2>2. activity' \in [Threads -> Activities]
    BY <1>0, <1>3, <2>1, BecomeType DEF process_aggregate_message
  <2> QED BY <1>3, <2>2 DEF process_aggregate_message, TypeOK, state, registry
<1>4. ASSUME NEW p \in sent,
             \/ process_signed_partial_decryption_message(t, p)
             \/ process_partial_decryption_message(t, p)
      PROVE  TypeOK'
  <2>1. [at |-> "read peers", msg |-> p] \in Activities
    BY MakeActivity DEF TypeOK
  <2>2. activity' \in [Threads -> Activities]
    BY <1>0, <1>4, <2>1, BecomeType
       DEF process_signed_partial_decryption_message, process_partial_decryption_message
  <2> QED BY <1>4, <2>2 DEF process_signed_partial_decryption_message,
                            process_partial_decryption_message, TypeOK, state, registry
<1> QED BY <1>1, <1>2, <1>3, <1>4 DEF Call

\* A thread that is subtracting shares holds those it has not subtracted yet.
SharesAtHand ==
  \A t \in Threads : activity[t].at = "subtract" =>
    \A i \in activity[t].todo : activity[t].msgs[i] # None

\* A call goes on.
LEMMA TypeContinue ==
  ASSUME TypeOK, SharesAtHand, NEW t \in Threads, Continue(t)
  PROVE  TypeOK'
<1> DEFINE s == Host[t]
           a == activity[t]
<1>0. /\ activity \in [Threads -> Activities]
      /\ a \in Activities /\ s \in Servers /\ Idle \in Activities
  BY HostAssumption, MakeActivity DEF TypeOK
<1>1. ASSUME fold_client_message(t)
      PROVE  TypeOK'
  <2>1. a.msg \in ClientRoundMessage
    BY <1>0, <1>1, ActivityFields DEF fold_client_message
  <2>2. RunningAggregate(s, a.msg) \in AggregatedClientMessages
    BY <1>0, <2>1, EmptyForType DEF RunningAggregate, TypeOK, Option
  <2>3. Fold(RunningAggregate(s, a.msg), a.msg) \in AggregatedClientMessages
    BY <2>1, <2>2, FoldType
  <2>4. direct_aggregate' \in [Servers -> Option(AggregatedClientMessages)]
    BY <1>1, <2>3 DEF fold_client_message, TypeOK, Option
  <2>5. activity' \in [Threads -> Activities]
    BY <1>0, <1>1, BecomeType DEF fold_client_message
  <2> QED BY <1>1, <2>4, <2>5 DEF fold_client_message, TypeOK, registry
<1>2. ASSUME read_round(t)
      PROVE  TypeOK'
  <2>1. a.agg \in AggregatedClientMessages
    BY <1>0, <1>2, ActivityFields DEF read_round
  <2>2. [at |-> "unblind", agg |-> a.agg] \in Activities
    BY <2>1, MakeActivity
  <2>3. activity' \in [Threads -> Activities]
    BY <1>0, <1>2, <2>2, BecomeType DEF read_round
  <2> QED BY <1>2, <2>3 DEF read_round, TypeOK, state, registry
<1>3. ASSUME unblind_aggregate(t)
      PROVE  TypeOK'
  <2>1. a.agg \in AggregatedClientMessages
    BY <1>0, <1>3, ActivityFields DEF unblind_aggregate
  <2>2. UnblindAggregate(s, a.agg.round_number, a.agg)
          \in ServerPartialDecryptionMessage
    BY <1>0, <2>1, UnblindType
  <2>3. [at |-> "store", agg |-> a.agg,
         additional |-> UnblindAggregate(s, a.agg.round_number, a.agg)] \in Activities
    BY <2>1, <2>2, MakeActivity
  <2>4. activity' \in [Threads -> Activities]
    BY <1>0, <1>3, <2>3, BecomeType DEF unblind_aggregate
  <2> QED BY <1>3, <2>4 DEF unblind_aggregate, TypeOK, state, registry
<1>4. ASSUME store_own_partial(t)
      PROVE  TypeOK'
  <2> DEFINE own == own_partial[s]
             out == IF own = None THEN a.additional ELSE Extend(own, a.agg, a.additional)
  <2>1. /\ a.agg \in AggregatedClientMessages
        /\ a.additional \in ServerPartialDecryptionMessage
    BY <1>0, <1>4, ActivityFields DEF store_own_partial
  <2>2. out \in ServerPartialDecryptionMessage
    <3>1. CASE own = None
      BY <2>1, <3>1
    <3>2. CASE own # None
      <4>1. own \in ServerPartialDecryptionMessage
        BY <1>0, <3>2 DEF TypeOK, Option
      <4>2. /\ Union(own.original_aggregate, a.agg) \in AggregatedClientMessages
            /\ own.user_pks \o a.additional.user_pks \in Seq(Clients)
            /\ Add(own.auction_vector, a.additional.auction_vector) \in AuctionVector
            /\ Xor(own.message_vector, a.additional.message_vector) \in MessageVector
        BY <2>1, <4>1, UnionType, VectorTypes DEF ServerPartialDecryptionMessage
      <4>3. Extend(own, a.agg, a.additional) \in ServerPartialDecryptionMessage
        BY <4>1, <4>2 DEF Extend, ServerPartialDecryptionMessage
      <4> QED BY <3>2, <4>3
    <3> QED BY <3>1, <3>2
  <2> HIDE DEF out
  <2>3. \/ /\ own_partial' = [own_partial EXCEPT ![s] = out]
           /\ sent' = sent \cup {out}
        \/ UNCHANGED <<own_partial, sent>>
    BY <1>4 DEF store_own_partial, out
  <2>4. /\ own_partial' \in [Servers -> Option(ServerPartialDecryptionMessage)]
        /\ sent' \subseteq ServerPartialDecryptionMessage
    BY <2>2, <2>3 DEF TypeOK, Option
  <2>5. activity' \in [Threads -> Activities]
    BY <1>0, <1>4, BecomeType DEF store_own_partial
  <2> QED BY <1>4, <2>4, <2>5 DEF store_own_partial, TypeOK, registry
<1>5. ASSUME read_peers(t)
      PROVE  TypeOK'
  <2>1. a.msg \in ServerPartialDecryptionMessage
    BY <1>0, <1>5, ActivityFields DEF read_peers
  <2>2. [at |-> "check round", msg |-> a.msg, expected |-> Keys(peer_pubkeys[s])]
          \in Activities
    BY <2>1, MakeActivity DEF Keys
  <2>3. activity' \in [Threads -> Activities]
    BY <1>0, <1>5, <2>2, BecomeType DEF read_peers
  <2> QED BY <1>5, <2>3 DEF read_peers, TypeOK, state, registry
<1>6. ASSUME check_round(t)
      PROVE  TypeOK'
  <2>1. a.msg \in ServerPartialDecryptionMessage /\ a.expected \in SUBSET Servers
    BY <1>0, <1>6, ActivityFields DEF check_round
  <2>2. [at |-> "insert", msg |-> a.msg, expected |-> a.expected] \in Activities
    BY <2>1, MakeActivity
  <2>3. activity' \in [Threads -> Activities]
    BY <1>0, <1>6, <2>2, BecomeType DEF check_round
  <2> QED BY <1>6, <2>3 DEF check_round, TypeOK, state, registry
<1>7. ASSUME insert_partial(t)
      PROVE  TypeOK'
  <2> DEFINE table == [partials[s] EXCEPT ![a.msg.server_id] = a.msg]
  <2>1. a.msg \in ServerPartialDecryptionMessage
    BY <1>0, <1>7, ActivityFields DEF insert_partial
  <2>2. table \in Tables
    BY <1>0, <2>1 DEF TypeOK, Tables, Option
  <2>3. [at |-> "combine", msgs |-> table] \in Activities
    BY <2>2, MakeActivity
  <2> HIDE DEF table
  <2>4. \/ Become(t, Idle) /\ UNCHANGED partials
        \/ /\ partials' = [partials EXCEPT ![s] = table]
           /\ Become(t, Idle) \/ Become(t, [at |-> "combine", msgs |-> table])
    BY <1>7 DEF insert_partial, table
  <2>5. activity' \in [Threads -> Activities]
    BY <1>0, <2>3, <2>4, BecomeType
  <2>6. partials' \in [Servers -> Tables]
    BY <2>2, <2>4 DEF TypeOK
  <2> QED BY <1>7, <2>5, <2>6 DEF insert_partial, TypeOK, registry
<1>8. ASSUME unblind_partial_messages(t)
      PROVE  TypeOK'
  <2> DEFINE msgs == a.msgs
             head == CHOOSE i \in Keys(msgs) : TRUE
             agg  == msgs[head].original_aggregate
             next == [at |-> "subtract", msgs |-> msgs, agg |-> agg,
                      todo |-> Keys(msgs), auction_vector |-> agg.auction_vector,
                      message_vector |-> agg.message_vector]
  <2>1. msgs \in Tables
    BY <1>0, <1>8, ActivityFields DEF unblind_partial_messages
  <2>2. CanCombine(msgs) => next \in Activities
    <3> SUFFICES ASSUME CanCombine(msgs) PROVE next \in Activities
      OBVIOUS
    <3>1. head \in Keys(msgs)
      BY DEF CanCombine
    <3> HIDE DEF head
    <3>2. msgs[head] \in ServerPartialDecryptionMessage
      BY <2>1, <3>1 DEF Keys, Tables, Option
    <3>3. agg \in AggregatedClientMessages
      BY <3>2 DEF ServerPartialDecryptionMessage
    <3>4. agg.auction_vector \in AuctionVector /\ agg.message_vector \in MessageVector
      BY <3>3 DEF AggregatedClientMessages
    <3>5. Keys(msgs) \in SUBSET Servers
      BY DEF Keys
    <3> QED BY <2>1, <3>3, <3>4, <3>5, MakeActivity
  <2> HIDE DEF next
  <2>3. \/ Become(t, Idle)
        \/ CanCombine(msgs) /\ Become(t, next)
    BY <1>8 DEF unblind_partial_messages, next
  <2>4. activity' \in [Threads -> Activities]
    BY <1>0, <2>2, <2>3, BecomeType
  <2> QED BY <1>8, <2>4 DEF unblind_partial_messages, TypeOK, state, registry
<1>9. ASSUME subtract_share(t)
      PROVE  TypeOK'
  <2> DEFINE i == CHOOSE j \in a.todo : TRUE
  <2>1. /\ a.msgs \in Tables /\ a.agg \in AggregatedClientMessages
        /\ a.todo \in SUBSET Servers
        /\ a.auction_vector \in AuctionVector /\ a.message_vector \in MessageVector
    BY <1>0, <1>9, ActivityFields DEF subtract_share
  <2>2. i \in a.todo
    BY <1>9 DEF subtract_share
  <2>3. a.msgs[i] # None
    BY <1>9, <2>2 DEF subtract_share, SharesAtHand
  <2> HIDE DEF i
  <2>4. a.msgs[i] \in ServerPartialDecryptionMessage
    BY <2>1, <2>2, <2>3 DEF Tables, Option
  <2>5. /\ Sub(a.auction_vector, a.msgs[i].auction_vector) \in AuctionVector
        /\ Xor(a.message_vector, a.msgs[i].message_vector) \in MessageVector
    BY <2>1, <2>4, VectorTypes DEF ServerPartialDecryptionMessage
  <2> DEFINE next == [at |-> "subtract", msgs |-> a.msgs, agg |-> a.agg,
                      todo |-> a.todo \ {i},
                      auction_vector |-> Sub(a.auction_vector, a.msgs[i].auction_vector),
                      message_vector |-> Xor(a.message_vector, a.msgs[i].message_vector)]
  <2>6. next \in Activities
    BY <2>1, <2>5, MakeActivity
  <2>7. Become(t, next)
    BY <1>9 DEF subtract_share, i
  <2> HIDE DEF next
  <2>8. activity' \in [Threads -> Activities]
    BY <1>0, <2>6, <2>7, BecomeType
  <2> QED BY <1>9, <2>8 DEF subtract_share, TypeOK, state, registry
<1>10. ASSUME store_round_output(t)
      PROVE  TypeOK'
  <2> DEFINE out == [round_number   |-> a.agg.round_number,
                     auction_vector |-> a.auction_vector,
                     message_vector |-> a.message_vector]
  <2>1. /\ a.agg \in AggregatedClientMessages
        /\ a.auction_vector \in AuctionVector /\ a.message_vector \in MessageVector
    BY <1>0, <1>10, ActivityFields DEF store_round_output
  <2>2. out \in RoundBroadcast
    BY <2>1 DEF RoundBroadcast, AggregatedClientMessages
  <2>3. round_output' = [round_output EXCEPT ![s] = out]
    BY <1>10 DEF store_round_output
  <2> HIDE DEF out
  <2>4. round_output' \in [Servers -> Option(RoundBroadcast)]
    BY <2>2, <2>3 DEF TypeOK, Option
  <2>5. activity' \in [Threads -> Activities]
    BY <1>0, <1>10, BecomeType DEF store_round_output
  <2> QED BY <1>10, <2>4, <2>5 DEF store_round_output, TypeOK, registry
<1> QED BY <1>1, <1>2, <1>3, <1>4, <1>5, <1>6, <1>7, <1>8, <1>9, <1>10 DEF Continue

\* Only subtract_share and the step before it concern SharesAtHand.
LEMMA HandStep ==
  ASSUME TypeOK, SharesAtHand, [Next]_vars
  PROVE  SharesAtHand'
<1>0. activity \in [Threads -> Activities]
  BY DEF TypeOK
<1>1. CASE UNCHANGED activity
  BY <1>1 DEF SharesAtHand
<1>2. ASSUME NEW t \in Threads, NEW a, Become(t, a), a.at # "subtract"
      PROVE  SharesAtHand'
  BY <1>0, <1>2 DEF Become, SharesAtHand
<1>3. ASSUME NEW t \in Threads, unblind_partial_messages(t)
      PROVE  SharesAtHand'
  <2> DEFINE msgs == activity[t].msgs
             agg  == msgs[CHOOSE i \in Keys(msgs) : TRUE].original_aggregate
             next == [at |-> "subtract", msgs |-> msgs, agg |-> agg,
                      todo |-> Keys(msgs), auction_vector |-> agg.auction_vector,
                      message_vector |-> agg.message_vector]
  <2>1. Become(t, Idle) \/ Become(t, next)
    BY <1>3 DEF unblind_partial_messages
  <2>2. next.todo = Keys(msgs) /\ next.msgs = msgs
    OBVIOUS
  <2>3. \A i \in next.todo : next.msgs[i] # None
    BY <2>2 DEF Keys
  <2> HIDE DEF next
  <2>4. CASE Become(t, next)
    BY <1>0, <2>3, <2>4 DEF Become, SharesAtHand
  <2>5. CASE Become(t, Idle)
    BY <1>2, <2>5 DEF Idle
  <2> QED BY <2>1, <2>4, <2>5
<1>4. ASSUME NEW t \in Threads, subtract_share(t)
      PROVE  SharesAtHand'
  <2> DEFINE a == activity[t]
             i == CHOOSE j \in a.todo : TRUE
             next == [at |-> "subtract", msgs |-> a.msgs, agg |-> a.agg,
                      todo |-> a.todo \ {i},
                      auction_vector |-> Sub(a.auction_vector, a.msgs[i].auction_vector),
                      message_vector |-> Xor(a.message_vector, a.msgs[i].message_vector)]
  <2>1. Become(t, next)
    BY <1>4 DEF subtract_share
  <2>2. next.todo \subseteq a.todo /\ next.msgs = a.msgs
    OBVIOUS
  <2>3. \A j \in next.todo : next.msgs[j] # None
    BY <1>4, <2>2 DEF subtract_share, SharesAtHand
  <2> HIDE DEF next
  <2> QED BY <1>0, <2>1, <2>3 DEF Become, SharesAtHand
<1>5. ASSUME NEW t \in Threads, Call(t)
      PROVE  SharesAtHand'
  BY <1>2, <1>5 DEF Call, process_client_message, finalize_partial_for_direct_aggregate,
     process_aggregate_message, process_signed_partial_decryption_message,
     process_partial_decryption_message
<1>6. ASSUME NEW t \in Threads, Continue(t)
      PROVE  SharesAtHand'
  <2>1. CASE fold_client_message(t) \/ store_own_partial(t) \/ store_round_output(t)
    BY <1>2, <2>1 DEF fold_client_message, store_own_partial, store_round_output, Idle
  <2>2. CASE read_round(t)
    BY <1>2, <2>2 DEF read_round, Idle
  <2>3. CASE unblind_aggregate(t)
    BY <1>2, <2>3 DEF unblind_aggregate, Idle
  <2>4. CASE read_peers(t)
    BY <1>2, <2>4 DEF read_peers, Idle
  <2>5. CASE check_round(t)
    BY <1>2, <2>5 DEF check_round, Idle
  <2>6. CASE insert_partial(t)
    BY <1>2, <2>6 DEF insert_partial, Idle
  <2> QED BY <1>3, <1>4, <1>6, <2>1, <2>2, <2>3, <2>4, <2>5, <2>6 DEF Continue
<1>7. ASSUME NEW s \in Servers, Administer(s)
      PROVE  UNCHANGED activity
  BY <1>7 DEF Administer, advance_to_round, EnterRound, register_client, deregister_client,
     register_peer_server
<1> QED BY <1>1, <1>5, <1>6, <1>7 DEF Next, vars

LEMMA TypeStep ==
  ASSUME TypeOK, SharesAtHand, [Next]_vars
  PROVE  TypeOK'
<1>1. CASE UNCHANGED vars
  BY <1>1 DEF vars, state, registry, TypeOK
<1>2. CASE Next
  BY <1>2, TypeCall, TypeContinue, TypeAdminister DEF Next
<1> QED BY <1>1, <1>2

\* Every state a server's fields and its threads' locals get into is of its
\* type, whatever the interleaving.
THEOREM TypeCorrect == Spec => []TypeOK
<1>1. Init => TypeOK /\ SharesAtHand
  BY TypeInit DEF Init, NewState, SharesAtHand, Idle
<1>2. TypeOK /\ SharesAtHand /\ [Next]_vars => TypeOK' /\ SharesAtHand'
  BY TypeStep, HandStep
<1> QED BY <1>1, <1>2, PTL DEF Spec

-----------------------------------------------------------------------------
(***************************************************************************)
(* The inductive invariant of the safety properties.  They speak of the    *)
(* servers' fields, and are inductive only together with what the threads  *)
(* hold between two critical sections, and with the fact that the running  *)
(* aggregate is of the current round.                                      *)
(***************************************************************************)
SoundPartial(p) == IsAggregation(p.original_aggregate) /\ ShareFits(p)

SoundTable(table) ==
  \A i \in Servers : table[i] # None =>
    table[i].server_id = i /\ SoundPartial(table[i])

\* The vectors left when the shares of todo have still to be subtracted.
Remaining(u, v, agg, todo) ==
  \E draft \in [Clients -> Drafts] :
    LET T == Terms(Signers(agg.user_pks), agg.round_number, draft, todo)
    IN  u = Sum(T) /\ v = T

Subtracting(a) ==
  /\ IsAggregation(a.agg)
  /\ \A i \in a.todo : a.msgs[i] # None /\ a.msgs[i].original_aggregate = a.agg
  /\ Remaining(a.auction_vector, a.message_vector, a.agg, a.todo)

\* What a thread of server s holds.
SoundActivity(s, a) ==
  /\ a.at = "fold" => IsSubmission(a.msg)
  /\ a.at \in {"read round", "unblind", "store"} => IsAggregation(a.agg)
  /\ a.at = "store" =>
       /\ s \in a.agg.all_server_ids
       /\ a.additional = UnblindAggregate(s, a.agg.round_number, a.agg)
  /\ a.at \in {"read peers", "check round", "insert"} => SoundPartial(a.msg)
  /\ a.at \in {"combine", "subtract"} => SoundTable(a.msgs)
  /\ a.at = "subtract" => Subtracting(a)

IsPlaintext(out) ==
  \E cs \in SUBSET Clients : \E draft \in [cs -> Drafts] :
    LET contents == {Content(c, out.round_number, draft[c]) : c \in cs}
    IN  out.auction_vector = Sum(contents) /\ out.message_vector = contents

RunningSound ==
  \A s \in Servers : direct_aggregate[s] # None =>
    /\ IsAggregation(direct_aggregate[s])
    /\ direct_aggregate[s].round_number = current_round[s]

KeptSound ==
  \A s \in Servers : own_partial[s] # None =>
    own_partial[s].server_id = s /\ SoundPartial(own_partial[s])

SentSound     == \A p \in sent : SoundPartial(p)
TablesSound   == \A s \in Servers : SoundTable(partials[s])
OutputsSound  == \A s \in Servers : round_output[s] # None => IsPlaintext(round_output[s])
ThreadsSound  == \A t \in Threads : SoundActivity(Host[t], activity[t])

Sound ==
  /\ RunningSound /\ KeptSound /\ SentSound
  /\ TablesSound /\ OutputsSound /\ ThreadsSound

IInv == TypeOK /\ SharesAtHand /\ Sound

-----------------------------------------------------------------------------
(***************************************************************************)
(* What the operations on shares compute.                                  *)
(***************************************************************************)

\* The share a server derives for an aggregate fits it.
LEMMA UnblindFits ==
  ASSUME NEW s, NEW a, IsAggregation(a), s \in a.all_server_ids
  PROVE  /\ SoundPartial(UnblindAggregate(s, a.round_number, a))
         /\ UnblindAggregate(s, a.round_number, a).server_id = s
BY DEF UnblindAggregate, SoundPartial, ShareFits

\* So does the share extended by the share of one more aggregate.
LEMMA ExtendFits ==
  ASSUME NEW s, NEW p, p.server_id = s, SoundPartial(p),
         NEW a, IsAggregation(a), CanUnion(p.original_aggregate, a)
  PROVE  LET q == Extend(p, a, UnblindAggregate(s, a.round_number, a))
         IN  SoundPartial(q) /\ q.server_id = s
<1> DEFINE o    == p.original_aggregate
           new  == UnblindAggregate(s, a.round_number, a)
           r    == o.round_number
           A    == Signers(o.user_pks)
           B    == Signers(a.user_pks)
           u    == Union(o, a)
           X    == PadSet(A, {s}, r)
           Y    == PadSet(B, {s}, r)
           q    == Extend(p, a, new)
<1>1. IsAggregation(o) /\ IsAggregation(u)
  BY UnionIsAggregation DEF SoundPartial
<1>2. /\ u.round_number = r /\ u.all_server_ids = o.all_server_ids
      /\ u.user_pks = o.user_pks \o a.user_pks
  BY DEF Union
<1>3. o.user_pks \in Seq(Clients) /\ a.user_pks \in Seq(Clients)
  BY <1>1 DEF IsAggregation
<1>4. Signers(u.user_pks) = A \cup B /\ A \cap B = {}
  BY <1>2, <1>3, SignersOfConcat, ConcatApart DEF CanUnion
<1>5. PadSet(A \cup B, {s}, r) = X \cup Y /\ X \cap Y = {}
  BY <1>4, PadsApart
<1>6. /\ p.auction_vector = Sum(X) /\ p.message_vector = X
      /\ p.user_pks = o.user_pks /\ s \in o.all_server_ids
  BY DEF SoundPartial, ShareFits
<1>7. /\ new.auction_vector = Sum(Y) /\ new.message_vector = Y
      /\ new.user_pks = a.user_pks
  BY DEF UnblindAggregate, CanUnion
<1>8. /\ q.server_id = s /\ q.original_aggregate = u
      /\ q.user_pks = o.user_pks \o a.user_pks
      /\ q.auction_vector = Add(p.auction_vector, new.auction_vector)
      /\ q.message_vector = Xor(p.message_vector, new.message_vector)
  BY <1>6, <1>7 DEF Extend
<1> HIDE DEF X, Y, q, u, new
<1>9. /\ Add(Sum(X), Sum(Y)) = Sum(X \cup Y)
      /\ Xor(X, Y) = X \cup Y
  BY <1>5, SumOfDisjoint, XorOfDisjoint
<1>10. ShareFits(q)
  BY <1>2, <1>4, <1>5, <1>6, <1>7, <1>8, <1>9 DEF ShareFits
<1> QED BY <1>1, <1>8, <1>10 DEF SoundPartial, q, new

\* Taking the pads of one server out of the terms that are left.
TermsLess(A, r, draft, todo, i) ==
  /\ PadSet(A, {i}, r) \subseteq Terms(A, r, draft, todo)
  /\ Terms(A, r, draft, todo) \ PadSet(A, {i}, r)
       = Terms(A, r, draft, todo \ {i})

LEMMA TermsWithout ==
  ASSUME NEW A, NEW r, NEW draft, NEW todo, NEW i \in todo
  PROVE  TermsLess(A, r, draft, todo, i)
<1>1. PadSet(A, {i}, r) \subseteq PadSet(A, todo, r)
  BY DEF PadSet
<1>2. PadSet(A, todo \ {i}, r) = PadSet(A, todo, r) \ PadSet(A, {i}, r)
  BY PadsApart
<1>3. \A c, x, e, s : Content(c, r, x) # Pad(e, s, r)
  BY DEF Content, Pad
<1>4. {Content(c, r, draft[c]) : c \in A} \cap PadSet(A, {i}, r) = {}
  BY <1>3 DEF PadSet
<1> QED BY <1>1, <1>2, <1>4 DEF Terms, TermsLess

\* One subtraction of unblind_partial_messages.
LEMMA SubtractOne ==
  ASSUME NEW u, NEW v, NEW agg, NEW todo, Remaining(u, v, agg, todo),
         NEW i \in todo, NEW p, ShareFits(p), p.server_id = i,
         p.original_aggregate = agg
  PROVE  Remaining(Sub(u, p.auction_vector), Xor(v, p.message_vector),
                   agg, todo \ {i})
<1> DEFINE A == Signers(agg.user_pks)
           r == agg.round_number
           X == PadSet(A, {i}, r)
<1>1. PICK draft \in [Clients -> Drafts] :
        u = Sum(Terms(A, r, draft, todo)) /\ v = Terms(A, r, draft, todo)
  BY DEF Remaining
<1> DEFINE T == Terms(A, r, draft, todo)
           S == Terms(A, r, draft, todo \ {i})
<1>2. p.auction_vector = Sum(X) /\ p.message_vector = X
  BY DEF ShareFits
<1>3. X \subseteq T /\ T \ X = S
  <2>1. TermsLess(A, r, draft, todo, i)
    BY TermsWithout
  <2> QED BY <2>1 DEF TermsLess
<1>4. u = Sum(T) /\ v = T
  BY <1>1
<1> HIDE DEF T, S, X
<1>5. Sub(Sum(T), Sum(X)) = Sum(S) /\ Xor(T, X) = S
  BY <1>3, SumOfRest, XorOfRest
<1>6. Sub(u, p.auction_vector) = Sum(S) /\ Xor(v, p.message_vector) = S
  BY <1>2, <1>4, <1>5
<1> QED BY <1>6 DEF Remaining, S

\* When no share is left to subtract, only contents are.
LEMMA NothingRemains ==
  ASSUME NEW u, NEW v, NEW agg, IsAggregation(agg), Remaining(u, v, agg, {})
  PROVE  IsPlaintext([round_number |-> agg.round_number,
                      auction_vector |-> u, message_vector |-> v])
<1> DEFINE A == Signers(agg.user_pks)
           r == agg.round_number
<1>1. PICK draft \in [Clients -> Drafts] :
        u = Sum(Terms(A, r, draft, {})) /\ v = Terms(A, r, draft, {})
  BY DEF Remaining
<1>2. A \in SUBSET Clients
  BY AggregationTerms
<1> DEFINE d == [c \in A |-> draft[c]]
           C == {Content(c, r, d[c]) : c \in A}
<1>3. d \in [A -> Drafts]
  BY <1>1, <1>2
<1>4. Terms(A, r, draft, {}) = C
  BY DEF Terms, PadSet
<1> DEFINE out == [round_number |-> r, auction_vector |-> u, message_vector |-> v]
<1>5. out.round_number = r /\ out.auction_vector = Sum(C) /\ out.message_vector = C
  BY <1>1, <1>4
<1> HIDE DEF out
<1>6. IsPlaintext(out)
  <2> USE DEF IsPlaintext
  <2> WITNESS A \in SUBSET Clients
  <2> WITNESS d \in [A -> Drafts]
  <2> QED BY <1>5
<1> QED BY <1>6 DEF out

-----------------------------------------------------------------------------
(***************************************************************************)
(* The inductive step.                                                     *)
(***************************************************************************)
Fields == <<current_round, direct_aggregate, own_partial, partials, round_output, sent>>

LEMMA SoundFrame ==
  ASSUME Sound, UNCHANGED Fields
  PROVE  /\ RunningSound' /\ KeptSound' /\ SentSound'
         /\ TablesSound' /\ OutputsSound'
BY DEF Sound, Fields, RunningSound, KeptSound, SentSound, TablesSound, OutputsSound

LEMMA SoundBecome ==
  ASSUME NEW t \in Threads, NEW a, Become(t, a), SoundActivity(Host[t], a),
         ThreadsSound, activity \in [Threads -> Activities]
  PROVE  ThreadsSound'
BY DEF Become, ThreadsSound

LEMMA IdleSound == \A s : SoundActivity(s, Idle)
BY DEF SoundActivity, Idle

LEMMA SoundInit == Init => Sound
<1> SUFFICES ASSUME Init PROVE Sound
  OBVIOUS
<1>1. SoundTable(EmptyMap)
  BY DEF SoundTable, EmptyMap
<1>2. ThreadsSound
  BY IdleSound DEF Init, NewState, ThreadsSound
<1>3. RunningSound /\ KeptSound /\ SentSound /\ OutputsSound
  BY DEF Init, NewState, RunningSound, KeptSound, SentSound, OutputsSound
<1>4. TablesSound
  BY <1>1 DEF Init, NewState, TablesSound
<1> QED BY <1>2, <1>3, <1>4 DEF Sound

LEMMA SoundAdminister ==
  ASSUME TypeOK, Sound, NEW s \in Servers, Administer(s)
  PROVE  Sound'
<1>1. ASSUME NEW r \in Rounds, advance_to_round(s, r)
      PROVE  Sound'
  <2>1. SoundTable(EmptyMap)
    BY DEF SoundTable, EmptyMap
  <2>2. RunningSound'
    BY <1>1 DEF advance_to_round, EnterRound, TypeOK, Sound, RunningSound
  <2>3. KeptSound' /\ OutputsSound'
    BY <1>1 DEF advance_to_round, EnterRound, TypeOK, Sound, KeptSound, OutputsSound
  <2>4. TablesSound'
    BY <1>1, <2>1 DEF advance_to_round, EnterRound, TypeOK, Sound, TablesSound
  <2>5. SentSound' /\ ThreadsSound'
    BY <1>1 DEF advance_to_round, Sound, SentSound, ThreadsSound
  <2> QED BY <2>2, <2>3, <2>4, <2>5 DEF Sound
<1>2. ASSUME \/ \E c \in Clients : register_client(s, c) \/ deregister_client(s, c)
             \/ \E i, key \in Servers : register_peer_server(s, i, key)
      PROVE  Sound'
  <2>1. UNCHANGED Fields /\ UNCHANGED activity
    BY <1>2 DEF register_client, deregister_client, register_peer_server, state, Fields
  <2>2. ThreadsSound'
    BY <2>1 DEF Sound, ThreadsSound
  <2> QED BY <2>1, <2>2, SoundFrame DEF Sound
<1> QED BY <1>1, <1>2 DEF Administer

LEMMA SoundCall ==
  ASSUME TypeOK, Sound, NEW t \in Threads, Call(t)
  PROVE  Sound'
<1>0. activity \in [Threads -> Activities] /\ Host[t] \in Servers /\ ThreadsSound
  BY HostAssumption DEF TypeOK, Sound
<1>1. ASSUME NEW m \in Submissions, process_client_message(t, m)
      PROVE  Sound'
  <2>1. SoundActivity(Host[t], [at |-> "fold", msg |-> m])
    BY InputAssumption DEF SoundActivity
  <2>2. ThreadsSound'
    BY <1>0, <1>1, <2>1, SoundBecome DEF process_client_message
  <2> QED BY <1>1, <2>2, SoundFrame DEF process_client_message, state, Fields, Sound
<1>2. ASSUME finalize_partial_for_direct_aggregate(t)
      PROVE  Sound'
  <2>1. IsAggregation(direct_aggregate[Host[t]])
    BY <1>0, <1>2 DEF finalize_partial_for_direct_aggregate, Sound, RunningSound
  <2>2. SoundActivity(Host[t], [at |-> "read round", agg |-> direct_aggregate[Host[t]]])
    BY <2>1 DEF SoundActivity
  <2>3. ThreadsSound'
    BY <1>0, <1>2, <2>2, SoundBecome DEF finalize_partial_for_direct_aggregate
  <2>4. RunningSound'
    BY <1>2 DEF finalize_partial_for_direct_aggregate, TypeOK, Sound, RunningSound
  <2>5. KeptSound' /\ SentSound' /\ TablesSound' /\ OutputsSound'
    BY <1>2 DEF finalize_partial_for_direct_aggregate, Sound, KeptSound, SentSound,
                TablesSound, OutputsSound
  <2> QED BY <2>3, <2>4, <2>5 DEF Sound
<1>3. ASSUME NEW a \in Aggregations, process_aggregate_message(t, a)
      PROVE  Sound'
  <2>1. SoundActivity(Host[t], [at |-> "read round", agg |-> a])
    BY InputAssumption DEF SoundActivity
  <2>2. ThreadsSound'
    BY <1>0, <1>3, <2>1, SoundBecome DEF process_aggregate_message
  <2> QED BY <1>3, <2>2, SoundFrame DEF process_aggregate_message, state, Fields, Sound
<1>4. ASSUME NEW p \in sent,
             \/ process_signed_partial_decryption_message(t, p)
             \/ process_partial_decryption_message(t, p)
      PROVE  Sound'
  <2>1. SoundPartial(p)
    BY DEF Sound, SentSound
  <2>2. SoundActivity(Host[t], [at |-> "read peers", msg |-> p])
    BY <2>1 DEF SoundActivity
  <2>3. ThreadsSound'
    BY <1>0, <1>4, <2>2, SoundBecome
       DEF process_signed_partial_decryption_message, process_partial_decryption_message
  <2> QED BY <1>4, <2>3, SoundFrame
          DEF process_signed_partial_decryption_message,
              process_partial_decryption_message, state, Fields, Sound
<1> QED BY <1>1, <1>2, <1>3, <1>4 DEF Call

\* Steps of a call that only change what the thread holds.
LEMMA SoundLocal ==
  ASSUME TypeOK, Sound, NEW t \in Threads,
         \/ read_round(t) \/ unblind_aggregate(t) \/ read_peers(t)
         \/ check_round(t) \/ unblind_partial_messages(t) \/ subtract_share(t)
  PROVE  Sound'
<1> DEFINE s == Host[t]
           a == activity[t]
<1>0. /\ activity \in [Threads -> Activities] /\ a \in Activities /\ s \in Servers
      /\ ThreadsSound /\ SoundActivity(s, a) /\ SoundActivity(s, Idle)
  BY HostAssumption, IdleSound DEF TypeOK, Sound, ThreadsSound
<1>f. UNCHANGED Fields
  BY DEF read_round, unblind_aggregate, read_peers, check_round,
         unblind_partial_messages, subtract_share, state, Fields
<1>1. ASSUME read_round(t) PROVE ThreadsSound'
  <2>1. SoundActivity(s, [at |-> "unblind", agg |-> a.agg])
    BY <1>0, <1>1 DEF read_round, SoundActivity
  <2> QED BY <1>0, <1>1, <2>1, SoundBecome DEF read_round
<1>2. ASSUME unblind_aggregate(t) PROVE ThreadsSound'
  <2> DEFINE next == [at |-> "store", agg |-> a.agg,
                      additional |-> UnblindAggregate(s, a.agg.round_number, a.agg)]
  <2>1. IsAggregation(a.agg)
    BY <1>0, <1>2 DEF unblind_aggregate, SoundActivity
  <2>2. \/ Become(t, Idle)
        \/ s \in a.agg.all_server_ids /\ Become(t, next)
    BY <1>2 DEF unblind_aggregate, CanUnblindAggregate
  <2>3. s \in a.agg.all_server_ids => SoundActivity(s, next)
    BY <2>1 DEF SoundActivity
  <2> HIDE DEF next
  <2> QED BY <1>0, <2>2, <2>3, SoundBecome
<1>3. ASSUME read_peers(t) PROVE ThreadsSound'
  <2> DEFINE next == [at |-> "check round", msg |-> a.msg,
                      expected |-> Keys(peer_pubkeys[s])]
  <2>1. SoundActivity(s, next)
    BY <1>0, <1>3 DEF read_peers, SoundActivity
  <2>2. Become(t, Idle) \/ Become(t, next)
    BY <1>3 DEF read_peers
  <2> HIDE DEF next
  <2> QED BY <1>0, <2>1, <2>2, SoundBecome
<1>4. ASSUME check_round(t) PROVE ThreadsSound'
  <2> DEFINE next == [at |-> "insert", msg |-> a.msg, expected |-> a.expected]
  <2>1. SoundActivity(s, next)
    BY <1>0, <1>4 DEF check_round, SoundActivity
  <2>2. Become(t, Idle) \/ Become(t, next)
    BY <1>4 DEF check_round
  <2> HIDE DEF next
  <2> QED BY <1>0, <2>1, <2>2, SoundBecome
<1>5. ASSUME unblind_partial_messages(t) PROVE ThreadsSound'
  <2> DEFINE msgs == a.msgs
             head == CHOOSE i \in Keys(msgs) : TRUE
             agg  == msgs[head].original_aggregate
             next == [at |-> "subtract", msgs |-> msgs, agg |-> agg,
                      todo |-> Keys(msgs), auction_vector |-> agg.auction_vector,
                      message_vector |-> agg.message_vector]
  <2>1. SoundTable(msgs)
    BY <1>0, <1>5 DEF unblind_partial_messages, SoundActivity
  <2>2. ASSUME CanCombine(msgs) PROVE SoundActivity(s, next)
    <3>1. head \in Keys(msgs)
      BY <2>2 DEF CanCombine
    <3>2. \A i \in Keys(msgs) : msgs[i] # None /\ msgs[i].original_aggregate = agg
      <4> HIDE DEF head
      <4> QED BY <2>2, <3>1 DEF CanCombine, Keys
    <3>3. agg.all_server_ids = Keys(msgs)
      <4> HIDE DEF head
      <4> QED BY <2>2, <3>1 DEF CanCombine
    <3>4. IsAggregation(agg)
      <4> HIDE DEF head
      <4> QED BY <2>1, <3>1 DEF SoundTable, SoundPartial, Keys
    <3> HIDE DEF agg
    <3>5. Remaining(agg.auction_vector, agg.message_vector, agg, Keys(msgs))
      BY <3>3, <3>4, AggregationTerms DEF Remaining
    <3>6. /\ next.at = "subtract" /\ next.msgs = msgs /\ next.agg = agg
          /\ next.todo = Keys(msgs) /\ next.auction_vector = agg.auction_vector
          /\ next.message_vector = agg.message_vector
      OBVIOUS
    <3> HIDE DEF next
    <3>7. Subtracting(next)
      BY <3>2, <3>4, <3>5, <3>6 DEF Subtracting
    <3> QED BY <2>1, <3>6, <3>7 DEF SoundActivity
  <2>3. \/ Become(t, Idle)
        \/ CanCombine(msgs) /\ Become(t, next)
    BY <1>5 DEF unblind_partial_messages
  <2> HIDE DEF next
  <2> QED BY <1>0, <2>2, <2>3, SoundBecome
<1>6. ASSUME subtract_share(t) PROVE ThreadsSound'
  <2> DEFINE i    == CHOOSE j \in a.todo : TRUE
             next == [at |-> "subtract", msgs |-> a.msgs, agg |-> a.agg,
                      todo |-> a.todo \ {i},
                      auction_vector |-> Sub(a.auction_vector, a.msgs[i].auction_vector),
                      message_vector |-> Xor(a.message_vector, a.msgs[i].message_vector)]
  <2>1. a.at = "subtract" /\ a.todo # {} /\ Become(t, next)
    BY <1>6 DEF subtract_share
  <2>2. i \in a.todo
    BY <2>1
  <2> HIDE DEF i
  <2>3. SoundTable(a.msgs) /\ Subtracting(a) /\ a.todo \in SUBSET Servers
    BY <1>0, <2>1, ActivityFields DEF SoundActivity
  <2>4. /\ a.msgs[i] # None /\ a.msgs[i].original_aggregate = a.agg
        /\ ShareFits(a.msgs[i]) /\ a.msgs[i].server_id = i
    BY <2>2, <2>3 DEF Subtracting, SoundTable, SoundPartial
  <2>5. Remaining(Sub(a.auction_vector, a.msgs[i].auction_vector),
                  Xor(a.message_vector, a.msgs[i].message_vector),
                  a.agg, a.todo \ {i})
    BY <2>2, <2>3, <2>4, SubtractOne DEF Subtracting
  <2>6. /\ next.at = "subtract" /\ next.msgs = a.msgs /\ next.agg = a.agg
        /\ next.todo = a.todo \ {i}
        /\ next.auction_vector = Sub(a.auction_vector, a.msgs[i].auction_vector)
        /\ next.message_vector = Xor(a.message_vector, a.msgs[i].message_vector)
    OBVIOUS
  <2> HIDE DEF next
  <2>7. Subtracting(next)
    BY <2>3, <2>5, <2>6 DEF Subtracting
  <2>8. SoundActivity(s, next)
    BY <2>3, <2>6, <2>7 DEF SoundActivity
  <2> QED BY <1>0, <2>1, <2>8, SoundBecome
<1>7. ThreadsSound'
  BY <1>1, <1>2, <1>3, <1>4, <1>5, <1>6
<1> QED BY <1>f, <1>7, SoundFrame DEF Sound

\* Steps of a call that change the server's fields.
LEMMA SoundFold ==
  ASSUME TypeOK, Sound, NEW t \in Threads, fold_client_message(t)
  PROVE  Sound'
<1> DEFINE s   == Host[t]
           m   == activity[t].msg
           run == RunningAggregate(s, m)
           new == Fold(run, m)
<1>0. /\ activity \in [Threads -> Activities] /\ s \in Servers
      /\ ThreadsSound /\ SoundActivity(s, activity[t]) /\ SoundActivity(s, Idle)
  BY HostAssumption, IdleSound DEF TypeOK, Sound, ThreadsSound
<1>1. IsSubmission(m)
  BY <1>0 DEF fold_client_message, SoundActivity
<1>2. \/ UNCHANGED direct_aggregate
      \/ /\ m.round_number = current_round[s] /\ CanFold(run, m)
         /\ direct_aggregate' = [direct_aggregate EXCEPT ![s] = new]
  BY DEF fold_client_message
<1>3. IsAggregation(run) /\ run.round_number \in {m.round_number, current_round[s]}
  <2>1. CASE direct_aggregate[s] = None
    <3>1. run = EmptyFor(m)
      BY <2>1 DEF RunningAggregate
    <3>2. EmptyFor(m).round_number = m.round_number
      BY DEF EmptyFor
    <3> QED BY <1>1, <3>1, <3>2, EmptyForIsAggregation
  <2>2. CASE direct_aggregate[s] # None
    <3>1. run = direct_aggregate[s]
      BY <2>2 DEF RunningAggregate
    <3> QED BY <1>0, <2>2, <3>1 DEF Sound, RunningSound
  <2> QED BY <2>1, <2>2
<1> HIDE DEF run
<1>4. m.round_number = current_round[s] /\ CanFold(run, m)
        => IsAggregation(new) /\ new.round_number = current_round[s]
  <2> SUFFICES ASSUME m.round_number = current_round[s], CanFold(run, m)
               PROVE  IsAggregation(new) /\ new.round_number = current_round[s]
    OBVIOUS
  <2>1. IsAggregation(new)
    BY <1>1, <1>3, FoldIsAggregation DEF CanFold
  <2>2. new.round_number = run.round_number
    BY DEF Fold
  <2> QED BY <1>3, <2>1, <2>2
<1> HIDE DEF new
<1>5. RunningSound'
  <2>1. UNCHANGED current_round
    BY DEF fold_client_message
  <2> QED BY <1>2, <1>4, <2>1 DEF TypeOK, Sound, RunningSound
<1>6. KeptSound' /\ SentSound' /\ TablesSound' /\ OutputsSound'
  BY DEF fold_client_message, Sound, KeptSound, SentSound, TablesSound, OutputsSound
<1>7. ThreadsSound'
  BY <1>0, SoundBecome DEF fold_client_message
<1> QED BY <1>5, <1>6, <1>7 DEF Sound

LEMMA SoundStore ==
  ASSUME TypeOK, Sound, NEW t \in Threads, store_own_partial(t)
  PROVE  Sound'
<1> DEFINE s   == Host[t]
           a   == activity[t].agg
           new == activity[t].additional
           own == own_partial[s]
           out == IF own = None THEN new ELSE Extend(own, a, new)
<1>0. /\ activity \in [Threads -> Activities] /\ s \in Servers
      /\ ThreadsSound /\ SoundActivity(s, activity[t]) /\ SoundActivity(s, Idle)
  BY HostAssumption, IdleSound DEF TypeOK, Sound, ThreadsSound
<1>1. /\ IsAggregation(a) /\ s \in a.all_server_ids
      /\ new = UnblindAggregate(s, a.round_number, a)
  BY <1>0 DEF store_own_partial, SoundActivity
<1>2. (own # None => CanUnion(own.original_aggregate, a))
        => SoundPartial(out) /\ out.server_id = s
  <2>1. CASE own = None
    BY <1>1, <2>1, UnblindFits
  <2>2. CASE own # None
    <3>1. own.server_id = s /\ SoundPartial(own)
      BY <1>0, <2>2 DEF Sound, KeptSound
    <3> QED BY <1>1, <2>2, <3>1, ExtendFits
  <2> QED BY <2>1, <2>2
<1> HIDE DEF out
<1>3. \/ UNCHANGED <<own_partial, sent>>
      \/ /\ SoundPartial(out) /\ out.server_id = s
         /\ own_partial' = [own_partial EXCEPT ![s] = out]
         /\ sent' = sent \cup {out}
  BY <1>2 DEF store_own_partial, out
<1>4. KeptSound' /\ SentSound'
  BY <1>3 DEF TypeOK, Sound, KeptSound, SentSound
<1>5. RunningSound' /\ TablesSound' /\ OutputsSound'
  BY DEF store_own_partial, Sound, RunningSound, TablesSound, OutputsSound
<1>6. ThreadsSound'
  BY <1>0, SoundBecome DEF store_own_partial
<1> QED BY <1>4, <1>5, <1>6 DEF Sound

LEMMA SoundInsert ==
  ASSUME TypeOK, Sound, NEW t \in Threads, insert_partial(t)
  PROVE  Sound'
<1> DEFINE s     == Host[t]
           p     == activity[t].msg
           table == [partials[s] EXCEPT ![p.server_id] = p]
           next  == [at |-> "combine", msgs |-> table]
<1>0. /\ activity \in [Threads -> Activities] /\ s \in Servers
      /\ ThreadsSound /\ SoundActivity(s, activity[t]) /\ SoundActivity(s, Idle)
  BY HostAssumption, IdleSound DEF TypeOK, Sound, ThreadsSound
<1>1. SoundPartial(p)
  BY <1>0 DEF insert_partial, SoundActivity
<1>2. partials[s] \in Tables /\ SoundTable(partials[s])
  BY <1>0 DEF TypeOK, Sound, TablesSound
<1>3. SoundTable(table)
  BY <1>1, <1>2 DEF SoundTable, Tables
<1> HIDE DEF table
<1>4. SoundActivity(s, next)
  BY <1>3 DEF SoundActivity
<1>5. \/ Become(t, Idle) /\ UNCHANGED partials
      \/ /\ partials' = [partials EXCEPT ![s] = table]
         /\ Become(t, Idle) \/ Become(t, next)
  BY DEF insert_partial, table
<1> HIDE DEF next
<1>6. ThreadsSound'
  BY <1>0, <1>4, <1>5, SoundBecome
<1>7. TablesSound'
  BY <1>3, <1>5 DEF TypeOK, Sound, TablesSound
<1>8. RunningSound' /\ KeptSound' /\ SentSound' /\ OutputsSound'
  BY DEF insert_partial, Sound, RunningSound, KeptSound, SentSound, OutputsSound
<1> QED BY <1>6, <1>7, <1>8 DEF Sound

LEMMA SoundOutput ==
  ASSUME TypeOK, Sound, NEW t \in Threads, store_round_output(t)
  PROVE  Sound'
<1> DEFINE s   == Host[t]
           a   == activity[t]
           out == [round_number   |-> a.agg.round_number,
                   auction_vector |-> a.auction_vector,
                   message_vector |-> a.message_vector]
<1>0. /\ activity \in [Threads -> Activities] /\ s \in Servers
      /\ ThreadsSound /\ SoundActivity(s, a) /\ SoundActivity(s, Idle)
  BY HostAssumption, IdleSound DEF TypeOK, Sound, ThreadsSound
<1>1. a.todo = {} /\ Subtracting(a)
  BY <1>0 DEF store_round_output, SoundActivity
<1>2. IsPlaintext(out)
  BY <1>1, NothingRemains DEF Subtracting
<1>3. round_output' = [round_output EXCEPT ![s] = out]
  BY DEF store_round_output
<1> HIDE DEF out
<1>4. OutputsSound'
  BY <1>2, <1>3 DEF TypeOK, Sound, OutputsSound
<1>5. RunningSound' /\ KeptSound' /\ SentSound' /\ TablesSound'
  BY DEF store_round_output, Sound, RunningSound, KeptSound, SentSound, TablesSound
<1>6. ThreadsSound'
  BY <1>0, SoundBecome DEF store_round_output
<1> QED BY <1>4, <1>5, <1>6 DEF Sound

LEMMA SoundStep ==
  ASSUME TypeOK, Sound, [Next]_vars
  PROVE  Sound'
<1>1. CASE UNCHANGED vars
  <2>1. UNCHANGED Fields /\ UNCHANGED activity
    BY <1>1 DEF vars, state, Fields
  <2>2. ThreadsSound'
    BY <2>1 DEF Sound, ThreadsSound
  <2> QED BY <2>1, <2>2, SoundFrame DEF Sound
<1>2. ASSUME NEW t \in Threads, Continue(t)
      PROVE  Sound'
  BY <1>2, SoundLocal, SoundFold, SoundStore, SoundInsert, SoundOutput DEF Continue
<1>3. CASE Next
  BY <1>2, <1>3, SoundCall, SoundAdminister DEF Next
<1> QED BY <1>1, <1>3

\* The invariant is inductive: initially true, kept by every step.
LEMMA Inductive ==
  /\ Init => IInv
  /\ IInv /\ [Next]_vars => IInv'
<1>1. Init => IInv
  BY TypeInit, SoundInit DEF Init, NewState, SharesAtHand, Idle, IInv
<1>2. IInv /\ [Next]_vars => IInv'
  BY TypeStep, HandStep, SoundStep DEF IInv
<1> QED BY <1>1, <1>2

\* Every reachable state of the servers and their threads satisfies IInv: the
\* three properties below are read off it.
THEOREM Invariance == Spec => []IInv
BY Inductive, PTL DEF Spec

-----------------------------------------------------------------------------
(***************************************************************************)
(* The properties.                                                         *)
(***************************************************************************)

\* The running aggregate of process_client_message and the aggregate that
\* process_aggregate_message extends count one message of each client they
\* list, whatever is repeated, overlaps or races.
THEOREM CountedOnce == Spec => []EachClientOnce
<1>1. IInv => EachClientOnce
  BY DEF IInv, Sound, RunningSound, KeptSound, SoundPartial, EachClientOnce
<1> QED BY <1>1, Invariance, PTL

\* Every share a server keeps, has returned or has accepted is its pads for
\* exactly the clients of the aggregate the share is attached to.
THEOREM SharesFit == Spec => []SharesFitTheirAggregates
<1>1. IInv => SharesFitTheirAggregates
  BY DEF IInv, Sound, KeptSound, SentSound, TablesSound, SoundTable, SoundPartial,
         SharesFitTheirAggregates
<1> QED BY <1>1, Invariance, PTL

\* What a server publishes is the sum of one content per client of some set of
\* clients, all of the broadcast's round, with no pad left.
THEOREM PublishesPlaintext == Spec => []OutputIsPlaintext
<1>1. IInv => OutputIsPlaintext
  BY DEF IInv, Sound, OutputsSound, IsPlaintext, OutputIsPlaintext
<1> QED BY <1>1, Invariance, PTL

-----------------------------------------------------------------------------
(***************************************************************************)
(* What the rounds and the history allow.  With any interleaving, no       *)
(* server keeps anything of a round it has not reached, and it publishes   *)
(* only what every server of the roster has returned a share for; driven   *)
(* from one thread at a time, a server keeps nothing of an earlier round   *)
(* either, and is an anonymous broadcast.                                  *)
(***************************************************************************)
\* The step of thread t is the move to activity a.
LEMMA ActivityAfter ==
  ASSUME NEW t \in Threads, NEW a, Become(t, a), activity \in [Threads -> Activities]
  PROVE  /\ activity'[t] = a
         /\ \A u \in Threads \ {t} : activity'[u] = activity[u]
BY DEF Become

\* Round numbers can be compared.
LEMMA RoundsAreNat ==
  /\ Rounds \subseteq Nat
  /\ \A a \in AggregatedClientMessages : a.round_number \in Nat /\ a.round_number >= 1
  /\ \A p \in ServerPartialDecryptionMessage :
       /\ p.original_aggregate \in AggregatedClientMessages
       /\ p.original_aggregate.round_number \in Nat
  /\ \A b \in RoundBroadcast : b.round_number \in Nat /\ b.round_number >= 1
  /\ TypeOK => \A s \in Servers : current_round[s] \in Nat
<1>1. Rounds \subseteq Nat /\ \A r \in Rounds : r >= 1
  BY RoundAssumption DEF Rounds
<1>2. TypeOK => \A s \in Servers : current_round[s] \in Nat
  BY RoundAssumption DEF TypeOK
<1> QED BY <1>1, <1>2 DEF AggregatedClientMessages, ServerPartialDecryptionMessage,
                           RoundBroadcast

-----------------------------------------------------------------------------
(***************************************************************************)
(* No round before its time.                                               *)
(***************************************************************************)
OfReached(s, p) == p.original_aggregate.round_number <= current_round[s]

\* What a thread of s holds after a check of the round is of a round s has
\* reached; it may have gone on since.
TimelyActivity(s, a) ==
  /\ a.at \in {"unblind", "store", "subtract"} =>
       a.agg.round_number <= current_round[s]
  /\ a.at = "insert" => OfReached(s, a.msg)
  /\ a.at = "combine" => \A i \in Keys(a.msgs) : OfReached(s, a.msgs[i])

KeptTimely    == \A s \in Servers : own_partial[s] # None => OfReached(s, own_partial[s])
TablesTimely  == \A s \in Servers : \A i \in Keys(partials[s]) : OfReached(s, partials[s][i])
OutputsTimely == \A s \in Servers : round_output[s] # None =>
                   round_output[s].round_number <= current_round[s]
ThreadsTimely == \A t \in Threads : TimelyActivity(Host[t], activity[t])

Timely == KeptTimely /\ TablesTimely /\ OutputsTimely /\ ThreadsTimely

LEMMA IdleTimely == \A s : TimelyActivity(s, Idle)
BY DEF TimelyActivity, Idle

LEMMA TimelyBecome ==
  ASSUME NEW t \in Threads, NEW a, Become(t, a), TimelyActivity(Host[t], a),
         ThreadsTimely, activity \in [Threads -> Activities], UNCHANGED current_round
  PROVE  ThreadsTimely'
BY ActivityAfter DEF ThreadsTimely, TimelyActivity, OfReached

LEMMA TimelyFrame ==
  ASSUME Timely, UNCHANGED <<current_round, own_partial, partials, round_output>>
  PROVE  KeptTimely' /\ TablesTimely' /\ OutputsTimely'
BY DEF Timely, KeptTimely, TablesTimely, OutputsTimely, OfReached

LEMMA TimelyInit == Init => Timely
<1> SUFFICES ASSUME Init PROVE Timely
  OBVIOUS
<1>1. ThreadsTimely
  BY IdleTimely DEF Init, NewState, ThreadsTimely
<1>2. TablesTimely
  BY DEF Init, NewState, TablesTimely, Keys, EmptyMap
<1> QED BY <1>1, <1>2 DEF Init, NewState, Timely, KeptTimely, OutputsTimely

\* A thread that is overtaken by advance_to_round holds what is older still.
LEMMA TimelyAdminister ==
  ASSUME TypeOK, Timely, NEW s \in Servers, Administer(s)
  PROVE  Timely'
<1>1. ASSUME NEW r \in Rounds, advance_to_round(s, r)
      PROVE  Timely'
  <2>1. /\ current_round' = [current_round EXCEPT ![s] = r] /\ current_round[s] < r
        /\ own_partial' = [own_partial EXCEPT ![s] = None]
        /\ partials' = [partials EXCEPT ![s] = EmptyMap]
        /\ round_output' = [round_output EXCEPT ![s] = None]
        /\ UNCHANGED activity
    BY <1>1 DEF advance_to_round, EnterRound
  <2>2. r \in Nat
    BY RoundsAreNat
  <2>3. KeptTimely' /\ OutputsTimely'
    BY <2>1 DEF TypeOK, Timely, KeptTimely, OutputsTimely, OfReached
  <2>4. TablesTimely'
    <3>1. ASSUME NEW q \in Servers
          PROVE  partials'[q] = EmptyMap \/ (q # s /\ partials'[q] = partials[q])
      BY <2>1 DEF TypeOK
    <3>2. Keys(EmptyMap) = {}
      BY DEF Keys, EmptyMap
    <3>3. \A q \in Servers \ {s} : current_round'[q] = current_round[q]
      BY <2>1 DEF TypeOK
    <3> QED BY <3>1, <3>2, <3>3 DEF Timely, TablesTimely, OfReached
  <2>5. ThreadsTimely'
    <3> SUFFICES ASSUME NEW t \in Threads
                 PROVE  TimelyActivity(Host[t], activity[t])'
      BY DEF ThreadsTimely
    <3> DEFINE h == Host[t]
               a == activity[t]
    <3>1. a \in Activities /\ h \in Servers /\ TimelyActivity(h, a) /\ activity'[t] = a
      BY <2>1, HostAssumption DEF TypeOK, Timely, ThreadsTimely
    <3> HIDE DEF a, h
    <3>2. \A x \in Nat : x <= current_round[h] => x <= current_round'[h]
      BY <2>1, <2>2, <3>1, RoundsAreNat DEF TypeOK
    <3>3. a.at \in {"unblind", "store", "subtract"} => a.agg.round_number \in Nat
      BY <3>1, ActivityFields, RoundsAreNat
    <3>4. a.at = "insert" => a.msg.original_aggregate.round_number \in Nat
      BY <3>1, ActivityFields, RoundsAreNat
    <3>5. a.at = "combine" => \A i \in Keys(a.msgs) :
            a.msgs[i].original_aggregate.round_number \in Nat
      <4> SUFFICES ASSUME a.at = "combine", NEW i \in Keys(a.msgs)
                   PROVE  a.msgs[i].original_aggregate.round_number \in Nat
        OBVIOUS
      <4>1. a.msgs \in Tables
        BY <3>1, ActivityFields
      <4>2. a.msgs[i] \in ServerPartialDecryptionMessage
        BY <4>1 DEF Tables, Keys, Option
      <4> QED BY <4>2, RoundsAreNat
    <3>6. TimelyActivity(h, a)'
      BY <3>1, <3>2, <3>3, <3>4, <3>5, <2>1 DEF TimelyActivity, OfReached, a
    <3> QED BY <3>6 DEF a, h
  <2> QED BY <2>3, <2>4, <2>5 DEF Timely
<1>2. ASSUME \/ \E c \in Clients : register_client(s, c) \/ deregister_client(s, c)
             \/ \E i, key \in Servers : register_peer_server(s, i, key)
      PROVE  Timely'
  <2>1. UNCHANGED state /\ UNCHANGED activity
    BY <1>2 DEF register_client, deregister_client, register_peer_server
  <2>2. ThreadsTimely'
    BY <2>1 DEF Timely, ThreadsTimely, TimelyActivity, OfReached, state
  <2> QED BY <2>1, <2>2, TimelyFrame DEF Timely, state
<1> QED BY <1>1, <1>2 DEF Administer

LEMMA TimelyCall ==
  ASSUME TypeOK, Timely, NEW t \in Threads, Call(t)
  PROVE  Timely'
<1>1. UNCHANGED <<current_round, own_partial, partials, round_output>>
  BY DEF Call, process_client_message, finalize_partial_for_direct_aggregate,
         process_aggregate_message, process_signed_partial_decryption_message,
         process_partial_decryption_message, state
<1>2. PICK a : Become(t, a) /\ a.at \in {"fold", "read round", "read peers"}
  <2>1. ASSUME NEW m \in Submissions, process_client_message(t, m)
        PROVE  Become(t, [at |-> "fold", msg |-> m])
    BY <2>1 DEF process_client_message
  <2>2. ASSUME finalize_partial_for_direct_aggregate(t)
        PROVE  Become(t, [at |-> "read round", agg |-> direct_aggregate[Host[t]]])
    BY <2>2 DEF finalize_partial_for_direct_aggregate
  <2>3. ASSUME NEW a \in Aggregations, process_aggregate_message(t, a)
        PROVE  Become(t, [at |-> "read round", agg |-> a])
    BY <2>3 DEF process_aggregate_message
  <2>4. ASSUME NEW p \in sent,
               \/ process_signed_partial_decryption_message(t, p)
               \/ process_partial_decryption_message(t, p)
        PROVE  Become(t, [at |-> "read peers", msg |-> p])
    BY <2>4 DEF process_signed_partial_decryption_message, process_partial_decryption_message
  <2>5. /\ \A m : [at |-> "fold", msg |-> m].at = "fold"
        /\ \A a : [at |-> "read round", agg |-> a].at = "read round"
        /\ \A p : [at |-> "read peers", msg |-> p].at = "read peers"
    OBVIOUS
  <2> QED BY <2>1, <2>2, <2>3, <2>4, <2>5 DEF Call
<1>3. TimelyActivity(Host[t], a)
  BY <1>2 DEF TimelyActivity
<1>4. ThreadsTimely'
  BY <1>1, <1>2, <1>3, TimelyBecome DEF Timely, TypeOK
<1> QED BY <1>1, <1>4, TimelyFrame DEF Timely

\* Steps of a call that only change what the thread holds.
LEMMA TimelyLocal ==
  ASSUME TypeOK, Timely, NEW t \in Threads,
         \/ fold_client_message(t)
         \/ read_round(t) \/ unblind_aggregate(t) \/ read_peers(t)
         \/ check_round(t) \/ unblind_partial_messages(t) \/ subtract_share(t)
  PROVE  Timely'
<1> DEFINE s == Host[t]
           a == activity[t]
<1>0. /\ activity \in [Threads -> Activities] /\ a \in Activities /\ s \in Servers
      /\ ThreadsTimely /\ TimelyActivity(s, a) /\ TimelyActivity(s, Idle)
  BY HostAssumption, IdleTimely DEF TypeOK, Timely, ThreadsTimely
<1>f. UNCHANGED <<current_round, own_partial, partials, round_output>>
  BY DEF fold_client_message, read_round, unblind_aggregate, read_peers, check_round,
         unblind_partial_messages, subtract_share, state
<1>r. current_round[s] \in Nat
  BY <1>0, RoundsAreNat
<1>1. ASSUME NEW b, Become(t, b), TimelyActivity(s, b) PROVE ThreadsTimely'
  BY <1>0, <1>f, <1>1, TimelyBecome
<1>2. ASSUME read_round(t) PROVE ThreadsTimely'
  <2>1. CanProcess(s, a.agg) => TimelyActivity(s, [at |-> "unblind", agg |-> a.agg])
    BY <1>r DEF CanProcess, TimelyActivity
  <2> QED BY <1>0, <1>1, <1>2, <2>1 DEF read_round
<1>3. ASSUME unblind_aggregate(t) PROVE ThreadsTimely'
  <2> DEFINE next == [at |-> "store", agg |-> a.agg,
                      additional |-> UnblindAggregate(s, a.agg.round_number, a.agg)]
  <2>1. TimelyActivity(s, next)
    BY <1>0, <1>3 DEF unblind_aggregate, TimelyActivity
  <2>2. Become(t, Idle) \/ Become(t, next)
    BY <1>3 DEF unblind_aggregate
  <2> HIDE DEF next
  <2> QED BY <1>0, <1>1, <2>1, <2>2
<1>4. ASSUME read_peers(t) PROVE ThreadsTimely'
  <2> DEFINE next == [at |-> "check round", msg |-> a.msg,
                      expected |-> Keys(peer_pubkeys[s])]
  <2>1. TimelyActivity(s, next)
    BY DEF TimelyActivity
  <2>2. Become(t, Idle) \/ Become(t, next)
    BY <1>4 DEF read_peers
  <2> HIDE DEF next
  <2> QED BY <1>0, <1>1, <2>1, <2>2
<1>5. ASSUME check_round(t) PROVE ThreadsTimely'
  <2> DEFINE next == [at |-> "insert", msg |-> a.msg, expected |-> a.expected]
  <2>1. a.msg.original_aggregate.round_number = current_round[s] => TimelyActivity(s, next)
    BY <1>r DEF TimelyActivity, OfReached
  <2>2. \/ Become(t, Idle)
        \/ a.msg.original_aggregate.round_number = current_round[s] /\ Become(t, next)
    BY <1>5 DEF check_round
  <2> HIDE DEF next
  <2> QED BY <1>0, <1>1, <2>1, <2>2
<1>6. ASSUME unblind_partial_messages(t) PROVE ThreadsTimely'
  <2> DEFINE msgs == a.msgs
             head == CHOOSE i \in Keys(msgs) : TRUE
             agg  == msgs[head].original_aggregate
             next == [at |-> "subtract", msgs |-> msgs, agg |-> agg,
                      todo |-> Keys(msgs), auction_vector |-> agg.auction_vector,
                      message_vector |-> agg.message_vector]
  <2>1. \/ Become(t, Idle)
        \/ CanCombine(msgs) /\ Become(t, next)
    BY <1>6 DEF unblind_partial_messages
  <2>2. next.at = "subtract" /\ next.agg = agg
    OBVIOUS
  <2> HIDE DEF next
  <2>3. CanCombine(msgs) => head \in Keys(msgs)
    BY DEF CanCombine
  <2> HIDE DEF head
  <2>4. CanCombine(msgs) => agg.round_number <= current_round[s]
    BY <1>0, <1>6, <2>3 DEF unblind_partial_messages, TimelyActivity, OfReached
  <2>5. CanCombine(msgs) => TimelyActivity(s, next)
    BY <2>2, <2>4 DEF TimelyActivity
  <2> QED BY <1>0, <1>1, <2>1, <2>5
<1>7. ASSUME subtract_share(t) PROVE ThreadsTimely'
  <2>1. PICK b : Become(t, b) /\ b.at = "subtract" /\ b.agg = a.agg
    BY <1>7 DEF subtract_share
  <2>2. TimelyActivity(s, b)
    BY <1>0, <1>7, <2>1 DEF subtract_share, TimelyActivity
  <2> QED BY <1>1, <2>1, <2>2
<1>8. ASSUME fold_client_message(t) PROVE ThreadsTimely'
  BY <1>0, <1>1, <1>8 DEF fold_client_message
<1>9. ThreadsTimely'
  BY <1>2, <1>3, <1>4, <1>5, <1>6, <1>7, <1>8
<1> QED BY <1>f, <1>9, TimelyFrame DEF Timely

\* A share is kept when its round may be over, never before it began; extended
\* by a share of the same round, it stays of that round.
LEMMA TimelyStore ==
  ASSUME TypeOK, Sound, Timely, NEW t \in Threads, store_own_partial(t)
  PROVE  Timely'
<1> DEFINE s   == Host[t]
           a   == activity[t].agg
           new == activity[t].additional
           own == own_partial[s]
           out == IF own = None THEN new ELSE Extend(own, a, new)
<1>0. /\ activity \in [Threads -> Activities] /\ s \in Servers
      /\ ThreadsTimely /\ TimelyActivity(s, activity[t]) /\ TimelyActivity(s, Idle)
      /\ SoundActivity(s, activity[t])
  BY HostAssumption, IdleTimely DEF TypeOK, Timely, ThreadsTimely, Sound, ThreadsSound
<1>1. new.original_aggregate = a /\ a.round_number <= current_round[s]
  BY <1>0 DEF store_own_partial, SoundActivity, TimelyActivity, UnblindAggregate
<1>2. OfReached(s, out)
  <2>1. CASE own = None
    BY <1>1, <2>1 DEF OfReached
  <2>2. CASE own # None
    <3>1. OfReached(s, own)
      BY <1>0, <2>2 DEF Timely, KeptTimely
    <3>2. Extend(own, a, new).original_aggregate.round_number
            = own.original_aggregate.round_number
      BY DEF Extend, Union
    <3> QED BY <2>2, <3>1, <3>2 DEF OfReached
  <2> QED BY <2>1, <2>2
<1> HIDE DEF out
<1>3. UNCHANGED own_partial \/ own_partial' = [own_partial EXCEPT ![s] = out]
  BY DEF store_own_partial, out
<1>4. UNCHANGED <<current_round, partials, round_output>>
  BY DEF store_own_partial
<1>5. KeptTimely'
  BY <1>2, <1>3, <1>4 DEF TypeOK, Timely, KeptTimely, OfReached
<1>6. TablesTimely' /\ OutputsTimely'
  BY <1>4 DEF Timely, TablesTimely, OutputsTimely, OfReached
<1>7. ThreadsTimely'
  BY <1>0, <1>4, TimelyBecome DEF store_own_partial
<1> QED BY <1>5, <1>6, <1>7 DEF Timely

LEMMA TimelyInsert ==
  ASSUME TypeOK, Timely, NEW t \in Threads, insert_partial(t)
  PROVE  Timely'
<1> DEFINE s     == Host[t]
           p     == activity[t].msg
           table == [partials[s] EXCEPT ![p.server_id] = p]
           next  == [at |-> "combine", msgs |-> table]
<1>0. /\ activity \in [Threads -> Activities] /\ s \in Servers
      /\ ThreadsTimely /\ TimelyActivity(s, activity[t]) /\ TimelyActivity(s, Idle)
  BY HostAssumption, IdleTimely DEF TypeOK, Timely, ThreadsTimely
<1>1. OfReached(s, p)
  BY <1>0 DEF insert_partial, TimelyActivity
<1>2. partials[s] \in Tables /\ \A i \in Keys(partials[s]) : OfReached(s, partials[s][i])
  BY <1>0 DEF TypeOK, Timely, TablesTimely
<1>3. \A i \in Keys(table) : OfReached(s, table[i])
  BY <1>1, <1>2 DEF Tables, Keys
<1> HIDE DEF table
<1>4. TimelyActivity(s, next)
  BY <1>3 DEF TimelyActivity
<1>5. /\ \/ Become(t, Idle) /\ UNCHANGED partials
         \/ /\ partials' = [partials EXCEPT ![s] = table]
            /\ Become(t, Idle) \/ Become(t, next)
      /\ UNCHANGED <<current_round, own_partial, round_output>>
  BY DEF insert_partial, table
<1> HIDE DEF next
<1>6. ThreadsTimely'
  BY <1>0, <1>4, <1>5, TimelyBecome
<1>7. TablesTimely'
  BY <1>3, <1>5 DEF TypeOK, Timely, TablesTimely, OfReached
<1>8. KeptTimely' /\ OutputsTimely'
  BY <1>5 DEF Timely, KeptTimely, OutputsTimely, OfReached
<1> QED BY <1>6, <1>7, <1>8 DEF Timely

LEMMA TimelyOutput ==
  ASSUME TypeOK, Timely, NEW t \in Threads, store_round_output(t)
  PROVE  Timely'
<1> DEFINE s   == Host[t]
           a   == activity[t]
           out == [round_number   |-> a.agg.round_number,
                   auction_vector |-> a.auction_vector,
                   message_vector |-> a.message_vector]
<1>0. /\ activity \in [Threads -> Activities] /\ s \in Servers
      /\ ThreadsTimely /\ TimelyActivity(s, a) /\ TimelyActivity(s, Idle)
  BY HostAssumption, IdleTimely DEF TypeOK, Timely, ThreadsTimely
<1>1. out.round_number <= current_round[s]
  BY <1>0 DEF store_round_output, TimelyActivity
<1>2. /\ round_output' = [round_output EXCEPT ![s] = out]
      /\ UNCHANGED <<current_round, own_partial, partials>>
  BY DEF store_round_output
<1> HIDE DEF out
<1>3. OutputsTimely'
  BY <1>1, <1>2 DEF TypeOK, Timely, OutputsTimely
<1>4. KeptTimely' /\ TablesTimely'
  BY <1>2 DEF Timely, KeptTimely, TablesTimely, OfReached
<1>5. ThreadsTimely'
  BY <1>0, <1>2, TimelyBecome DEF store_round_output
<1> QED BY <1>3, <1>4, <1>5 DEF Timely

LEMMA TimelyStep ==
  ASSUME TypeOK, Sound, Timely, [Next]_vars
  PROVE  Timely'
<1>1. CASE UNCHANGED vars
  <2>1. UNCHANGED state /\ UNCHANGED activity
    BY <1>1 DEF vars
  <2>2. ThreadsTimely'
    BY <2>1 DEF Timely, ThreadsTimely, TimelyActivity, OfReached, state
  <2> QED BY <2>1, <2>2, TimelyFrame DEF Timely, state
<1>2. ASSUME NEW t \in Threads, Continue(t)
      PROVE  Timely'
  BY <1>2, TimelyLocal, TimelyStore, TimelyInsert, TimelyOutput DEF Continue
<1>3. CASE Next
  BY <1>2, <1>3, TimelyCall, TimelyAdminister DEF Next
<1> QED BY <1>1, <1>3

\* Whatever races with advance_to_round, what a server keeps is of a round it
\* has reached, and the running aggregate of the round it is in: the checks of
\* the round number happen before the steps that store, so this needs that no
\* call carries anything of a later round past such a check.
THEOREM NothingEarly == Spec => []NothingFromTheFuture
<1>1. Init => IInv /\ Timely
  BY Inductive, TimelyInit
<1>2. IInv /\ Timely /\ [Next]_vars => IInv' /\ Timely'
  BY Inductive, TimelyStep DEF IInv
<1>3. IInv /\ Timely => NothingFromTheFuture
  <2> SUFFICES ASSUME IInv, Timely, NEW s \in Servers
               PROVE  /\ direct_aggregate[s] # None =>
                           direct_aggregate[s].round_number = current_round[s]
                      /\ own_partial[s] # None =>
                           own_partial[s].original_aggregate.round_number
                             \in 1..current_round[s]
                      /\ \A i \in Servers : partials[s][i] # None =>
                           partials[s][i].original_aggregate.round_number
                             \in 1..current_round[s]
                      /\ round_output[s] # None =>
                           round_output[s].round_number \in 1..current_round[s]
    BY DEF NothingFromTheFuture
  <2>0. TypeOK /\ Sound /\ current_round[s] \in Nat
    BY RoundsAreNat DEF IInv
  <2>1. direct_aggregate[s] # None => direct_aggregate[s].round_number = current_round[s]
    BY <2>0 DEF Sound, RunningSound
  <2>2. ASSUME NEW p \in ServerPartialDecryptionMessage, OfReached(s, p)
        PROVE  p.original_aggregate.round_number \in 1..current_round[s]
    BY <2>0, <2>2, RoundsAreNat DEF OfReached
  <2>3. own_partial[s] # None =>
          own_partial[s].original_aggregate.round_number \in 1..current_round[s]
    BY <2>0, <2>2 DEF TypeOK, Option, Timely, KeptTimely
  <2>4. ASSUME NEW i \in Servers, partials[s][i] # None
        PROVE  partials[s][i].original_aggregate.round_number \in 1..current_round[s]
    <3>1. partials[s] \in Tables
      BY <2>0 DEF TypeOK
    <3>2. partials[s][i] \in ServerPartialDecryptionMessage
      BY <2>4, <3>1 DEF Tables, Option
    <3>3. OfReached(s, partials[s][i])
      BY <2>4 DEF Timely, TablesTimely, Keys
    <3> QED BY <2>2, <3>2, <3>3
  <2>5. ASSUME round_output[s] # None
        PROVE  round_output[s].round_number \in 1..current_round[s]
    <3>1. round_output[s] \in RoundBroadcast
      BY <2>0, <2>5 DEF TypeOK, Option
    <3> QED BY <2>0, <2>5, <3>1, RoundsAreNat DEF Timely, OutputsTimely
  <2> QED BY <2>1, <2>3, <2>4, <2>5
<1> QED BY <1>1, <1>2, <1>3, PTL DEF Spec

-----------------------------------------------------------------------------
(***************************************************************************)
(* No output without every server's share.                                 *)
(***************************************************************************)

\* p is a share some server returned, of an aggregate that lists s.
Returned(s, p) == p \in sent /\ s \in p.original_aggregate.all_server_ids

\* The aggregate being opened: the shares cover it and exactly its roster, and
\* the subtractions so far have touched no content.
Opening(s, a) ==
  /\ Keys(a.msgs) = a.agg.all_server_ids /\ s \in Keys(a.msgs)
  /\ \A i \in Keys(a.msgs) : a.msgs[i].original_aggregate = a.agg
  /\ \A x \in Contents : a.auction_vector[x] = a.agg.auction_vector[x]

\* What OutputNeedsEveryShare says of one broadcast of server s.
OpensReturned(s, out) ==
  \E p \in sent :
    LET g == p.original_aggregate
    IN  /\ g.round_number = out.round_number
        /\ \A x \in Contents : g.auction_vector[x] = out.auction_vector[x]
        /\ s \in g.all_server_ids
        /\ \A i \in g.all_server_ids :
             \E q \in sent : q.server_id = i /\ q.original_aggregate = g

OutputsAttested ==
  \A s \in Servers : round_output[s] # None => OpensReturned(s, round_output[s])

AttestedActivity(s, a) ==
  /\ a.at = "read peers" => a.msg \in sent
  /\ a.at \in {"check round", "insert"} => Returned(s, a.msg)
  /\ a.at \in {"combine", "subtract"} => \A i \in Keys(a.msgs) : Returned(s, a.msgs[i])
  /\ a.at = "subtract" => Opening(s, a)

SelfKnown       == \A s \in Servers : s \in Keys(peer_pubkeys[s])
TablesAttested  == \A s \in Servers : \A i \in Keys(partials[s]) : Returned(s, partials[s][i])
ThreadsAttested == \A t \in Threads : AttestedActivity(Host[t], activity[t])

Attested ==
  SelfKnown /\ TablesAttested /\ OutputsAttested /\ ThreadsAttested

LEMMA IdleAttested == \A s : AttestedActivity(s, Idle)
BY DEF AttestedActivity, Idle

LEMMA OutputsAttestedIs == OutputsAttested <=> OutputNeedsEveryShare
BY DEF OutputsAttested, OpensReturned, OutputNeedsEveryShare

\* No share is ever taken back.
LEMMA StillAttested ==
  ASSUME sent \subseteq sent'
  PROVE  /\ \A s, p : Returned(s, p) => Returned(s, p)'
         /\ \A s, a : AttestedActivity(s, a) => AttestedActivity(s, a)'
         /\ \A s, out : OpensReturned(s, out) => OpensReturned(s, out)'
<1>1. \A s, p : Returned(s, p) => Returned(s, p)'
  BY DEF Returned
<1>2. \A s, a : AttestedActivity(s, a) => AttestedActivity(s, a)'
  BY DEF Returned, AttestedActivity, Opening
<1>3. \A s, out : OpensReturned(s, out) => OpensReturned(s, out)'
  BY DEF OpensReturned
<1> QED BY <1>1, <1>2, <1>3

LEMMA AttestedBecome ==
  ASSUME NEW t \in Threads, NEW a, Become(t, a), AttestedActivity(Host[t], a),
         ThreadsAttested, activity \in [Threads -> Activities], sent \subseteq sent'
  PROVE  ThreadsAttested'
<1> SUFFICES ASSUME NEW u \in Threads
             PROVE  AttestedActivity(Host[u], activity[u])'
  BY DEF ThreadsAttested
<1> DEFINE b == activity'[u]
<1>1. AttestedActivity(Host[u], b)
  BY ActivityAfter DEF ThreadsAttested
<1> HIDE DEF b
<1>2. b = activity'[u]
  BY DEF b
<1> QED BY <1>1, <1>2 DEF AttestedActivity, Returned, Opening

LEMMA AttestedFrame ==
  ASSUME Attested, sent \subseteq sent'
  PROVE  /\ UNCHANGED peer_pubkeys => SelfKnown'
         /\ UNCHANGED partials => TablesAttested'
         /\ UNCHANGED round_output => OutputsAttested'
         /\ UNCHANGED activity => ThreadsAttested'
<1>1. UNCHANGED peer_pubkeys => SelfKnown'
  BY DEF Attested, SelfKnown, Keys
<1>2. UNCHANGED partials => TablesAttested'
  BY StillAttested DEF Attested, TablesAttested, Keys
<1>3. UNCHANGED round_output => OutputsAttested'
  BY StillAttested DEF Attested, OutputsAttested
<1>4. UNCHANGED activity => ThreadsAttested'
  BY StillAttested DEF Attested, ThreadsAttested
<1> QED BY <1>1, <1>2, <1>3, <1>4

LEMMA AttestedInit == Init => Attested
<1> SUFFICES ASSUME Init PROVE Attested
  OBVIOUS
<1>1. ThreadsAttested
  BY IdleAttested DEF Init, NewState, ThreadsAttested
<1>2. TablesAttested
  BY DEF Init, NewState, TablesAttested, Keys, EmptyMap
<1>3. SelfKnown
  BY NoneAssumption DEF Init, SelfKnown, Keys, EmptyMap
<1>4. OutputsAttested
  BY DEF Init, NewState, OutputsAttested
<1> QED BY <1>1, <1>2, <1>3, <1>4 DEF Attested

LEMMA AttestedAdminister ==
  ASSUME TypeOK, Attested, NEW s \in Servers, Administer(s)
  PROVE  Attested'
<1>1. ASSUME NEW r \in Rounds, advance_to_round(s, r)
      PROVE  Attested'
  <2>1. /\ partials' = [partials EXCEPT ![s] = EmptyMap]
        /\ round_output' = [round_output EXCEPT ![s] = None]
        /\ UNCHANGED <<peer_pubkeys, sent, activity>>
    BY <1>1 DEF advance_to_round, EnterRound, registry
  <2>2. SelfKnown' /\ ThreadsAttested'
    BY <2>1, AttestedFrame
  <2>3. OutputsAttested'
    <3>1. ASSUME NEW q \in Servers, round_output'[q] # None
          PROVE  round_output'[q] = round_output[q]
      BY <2>1, <3>1 DEF TypeOK
    <3> QED BY <2>1, <3>1, StillAttested DEF Attested, OutputsAttested
  <2>4. TablesAttested'
    <3>1. ASSUME NEW q \in Servers
          PROVE  partials'[q] \in {EmptyMap, partials[q]}
      BY <2>1 DEF TypeOK
    <3>2. Keys(EmptyMap) = {}
      BY DEF Keys, EmptyMap
    <3> QED BY <2>1, <3>1, <3>2, StillAttested DEF Attested, TablesAttested
  <2> QED BY <2>2, <2>3, <2>4 DEF Attested
<1>2. ASSUME NEW c \in Clients, register_client(s, c) \/ deregister_client(s, c)
      PROVE  Attested'
  BY <1>2, AttestedFrame DEF register_client, deregister_client, state, Attested
<1>3. ASSUME NEW i \in Servers, NEW key \in Servers, register_peer_server(s, i, key)
      PROVE  Attested'
  <2>1. /\ peer_pubkeys' = [peer_pubkeys EXCEPT ![s][i] = key]
        /\ UNCHANGED <<partials, round_output, sent, activity>>
    BY <1>3 DEF register_peer_server, state
  <2>2. SelfKnown'
    BY <2>1, NoneAssumption DEF TypeOK, Attested, SelfKnown, Keys
  <2> QED BY <2>1, <2>2, AttestedFrame DEF Attested
<1> QED BY <1>1, <1>2, <1>3 DEF Administer

LEMMA AttestedCall ==
  ASSUME TypeOK, Attested, NEW t \in Threads, Call(t)
  PROVE  Attested'
<1>0. activity \in [Threads -> Activities] /\ ThreadsAttested
  BY DEF TypeOK, Attested
<1>1. UNCHANGED <<partials, round_output, peer_pubkeys, sent>>
  BY DEF Call, process_client_message, finalize_partial_for_direct_aggregate,
         process_aggregate_message, process_signed_partial_decryption_message,
         process_partial_decryption_message, state, registry
<1>2. ASSUME NEW a, Become(t, a), AttestedActivity(Host[t], a) PROVE ThreadsAttested'
  BY <1>0, <1>1, <1>2, AttestedBecome
<1>3. /\ \A m : AttestedActivity(Host[t], [at |-> "fold", msg |-> m])
      /\ \A a : AttestedActivity(Host[t], [at |-> "read round", agg |-> a])
      /\ \A p \in sent : AttestedActivity(Host[t], [at |-> "read peers", msg |-> p])
  BY DEF AttestedActivity
<1>4. ASSUME NEW m \in Submissions, process_client_message(t, m) PROVE ThreadsAttested'
  BY <1>2, <1>3, <1>4 DEF process_client_message
<1>5. ASSUME finalize_partial_for_direct_aggregate(t) PROVE ThreadsAttested'
  BY <1>2, <1>3, <1>5 DEF finalize_partial_for_direct_aggregate
<1>6. ASSUME NEW a \in Aggregations, process_aggregate_message(t, a) PROVE ThreadsAttested'
  BY <1>2, <1>3, <1>6 DEF process_aggregate_message
<1>7. ASSUME NEW p \in sent,
             \/ process_signed_partial_decryption_message(t, p)
             \/ process_partial_decryption_message(t, p)
      PROVE  ThreadsAttested'
  BY <1>2, <1>3, <1>7 DEF process_signed_partial_decryption_message,
                          process_partial_decryption_message
<1> QED BY <1>1, <1>4, <1>5, <1>6, <1>7, AttestedFrame DEF Call, Attested

\* One subtraction leaves the contents of the auction vector as they were.
LEMMA SubtractKeepsContents ==
  ASSUME NEW u \in AuctionVector, NEW p, ShareFits(p), NEW x \in Contents
  PROVE  Sub(u, p.auction_vector)[x] = u[x]
<1> DEFINE X == PadSet(Signers(p.original_aggregate.user_pks), {p.server_id},
                       p.original_aggregate.round_number)
<1>1. p.auction_vector = Sum(X)
  BY DEF ShareFits
<1>2. x \notin X
  <2>1. \A c, r, d, e, s, q : Content(c, r, d) # Pad(e, s, q)
    BY DEF Content, Pad
  <2> QED BY <2>1 DEF Contents, PadSet
<1> HIDE DEF X
<1>3. x \in Term /\ u[x] \in Int
  BY DEF Term, AuctionVector
<1>4. Sum(X)[x] = 0
  BY <1>2, <1>3 DEF Sum
<1> QED BY <1>1, <1>3, <1>4 DEF Sub

\* Steps of a call that only change what the thread holds.
LEMMA AttestedLocal ==
  ASSUME TypeOK, Sound, Attested, NEW t \in Threads,
         \/ fold_client_message(t)
         \/ read_round(t) \/ unblind_aggregate(t) \/ read_peers(t)
         \/ check_round(t) \/ unblind_partial_messages(t) \/ subtract_share(t)
  PROVE  Attested'
<1> DEFINE s == Host[t]
           a == activity[t]
<1>0. /\ activity \in [Threads -> Activities] /\ a \in Activities /\ s \in Servers
      /\ ThreadsAttested /\ AttestedActivity(s, a) /\ AttestedActivity(s, Idle)
      /\ SoundActivity(s, a)
  BY HostAssumption, IdleAttested DEF TypeOK, Attested, ThreadsAttested, Sound, ThreadsSound
<1>f. UNCHANGED <<partials, round_output, peer_pubkeys, sent>>
  BY DEF fold_client_message, read_round, unblind_aggregate, read_peers, check_round,
         unblind_partial_messages, subtract_share, state, registry
<1>1. ASSUME NEW b, Become(t, b), AttestedActivity(s, b) PROVE ThreadsAttested'
  BY <1>0, <1>f, <1>1, AttestedBecome
<1>2. ASSUME \/ fold_client_message(t) \/ read_round(t) \/ unblind_aggregate(t)
      PROVE  ThreadsAttested'
  <2> DEFINE next == [at |-> "store", agg |-> a.agg,
                      additional |-> UnblindAggregate(s, a.agg.round_number, a.agg)]
             held == [at |-> "unblind", agg |-> a.agg]
  <2>1. AttestedActivity(s, next) /\ AttestedActivity(s, held)
    BY DEF AttestedActivity
  <2>2. Become(t, Idle) \/ Become(t, held) \/ Become(t, next)
    BY <1>2 DEF fold_client_message, read_round, unblind_aggregate
  <2> HIDE DEF next, held
  <2> QED BY <1>0, <1>1, <2>1, <2>2
<1>3. ASSUME read_peers(t) PROVE ThreadsAttested'
  <2> DEFINE peers == Keys(peer_pubkeys[s])
             next  == [at |-> "check round", msg |-> a.msg, expected |-> peers]
  <2>1. \/ Become(t, Idle)
        \/ a.msg.original_aggregate.all_server_ids = peers /\ Become(t, next)
    BY <1>3 DEF read_peers
  <2>2. a.msg \in sent /\ s \in peers
    BY <1>0, <1>3 DEF read_peers, AttestedActivity, Attested, SelfKnown
  <2> HIDE DEF peers
  <2>3. a.msg.original_aggregate.all_server_ids = peers => AttestedActivity(s, next)
    BY <2>2 DEF AttestedActivity, Returned
  <2> HIDE DEF next
  <2> QED BY <1>0, <1>1, <2>1, <2>3
<1>4. ASSUME check_round(t) PROVE ThreadsAttested'
  <2> DEFINE next == [at |-> "insert", msg |-> a.msg, expected |-> a.expected]
  <2>1. AttestedActivity(s, next)
    BY <1>0, <1>4 DEF check_round, AttestedActivity
  <2>2. Become(t, Idle) \/ Become(t, next)
    BY <1>4 DEF check_round
  <2> HIDE DEF next
  <2> QED BY <1>0, <1>1, <2>1, <2>2
<1>5. ASSUME unblind_partial_messages(t) PROVE ThreadsAttested'
  <2> DEFINE msgs == a.msgs
             head == CHOOSE i \in Keys(msgs) : TRUE
             agg  == msgs[head].original_aggregate
             next == [at |-> "subtract", msgs |-> msgs, agg |-> agg,
                      todo |-> Keys(msgs), auction_vector |-> agg.auction_vector,
                      message_vector |-> agg.message_vector]
  <2>1. \/ Become(t, Idle)
        \/ CanCombine(msgs) /\ Become(t, next)
    BY <1>5 DEF unblind_partial_messages
  <2>2. /\ next.at = "subtract" /\ next.msgs = msgs /\ next.agg = agg
        /\ next.auction_vector = agg.auction_vector
    OBVIOUS
  <2> HIDE DEF next
  <2>3. CanCombine(msgs) => head \in Keys(msgs)
    BY DEF CanCombine
  <2> HIDE DEF head
  <2>4. \A i \in Keys(msgs) : Returned(s, msgs[i])
    BY <1>0, <1>5 DEF unblind_partial_messages, AttestedActivity
  <2>5. ASSUME CanCombine(msgs) PROVE AttestedActivity(s, next)
    <3>1. \A i \in Keys(msgs) : msgs[i].original_aggregate = agg
      BY <2>3, <2>5 DEF CanCombine
    <3>2. Keys(msgs) = agg.all_server_ids
      BY <2>3, <2>5 DEF CanCombine
    <3>3. s \in Keys(msgs)
      BY <2>3, <2>4, <2>5, <3>2 DEF Returned
    <3>4. Opening(s, next)
      BY <2>2, <3>1, <3>2, <3>3 DEF Opening
    <3> QED BY <2>2, <2>4, <3>4 DEF AttestedActivity
  <2> QED BY <1>0, <1>1, <2>1, <2>5
<1>6. ASSUME subtract_share(t) PROVE ThreadsAttested'
  <2> DEFINE i    == CHOOSE j \in a.todo : TRUE
             next == [at |-> "subtract", msgs |-> a.msgs, agg |-> a.agg,
                      todo |-> a.todo \ {i},
                      auction_vector |-> Sub(a.auction_vector, a.msgs[i].auction_vector),
                      message_vector |-> Xor(a.message_vector, a.msgs[i].message_vector)]
  <2>1. a.at = "subtract" /\ a.todo # {} /\ Become(t, next)
    BY <1>6 DEF subtract_share
  <2>2. i \in a.todo
    BY <2>1
  <2>3. /\ next.at = "subtract" /\ next.msgs = a.msgs /\ next.agg = a.agg
        /\ next.auction_vector = Sub(a.auction_vector, a.msgs[i].auction_vector)
    OBVIOUS
  <2> HIDE DEF i, next
  <2>4. /\ a.auction_vector \in AuctionVector /\ a.todo \in SUBSET Servers
        /\ SoundTable(a.msgs) /\ Subtracting(a) /\ Opening(s, a)
        /\ \A j \in Keys(a.msgs) : Returned(s, a.msgs[j])
    BY <1>0, <2>1, ActivityFields DEF SoundActivity, AttestedActivity
  <2>5. ShareFits(a.msgs[i])
    BY <2>2, <2>4 DEF Subtracting, SoundTable, SoundPartial
  <2>6. \A x \in Contents : next.auction_vector[x] = a.agg.auction_vector[x]
    BY <2>3, <2>4, <2>5, SubtractKeepsContents DEF Opening
  <2>7. AttestedActivity(s, next)
    BY <2>3, <2>4, <2>6 DEF Opening, AttestedActivity
  <2> QED BY <1>1, <2>1, <2>7
<1> QED BY <1>f, <1>2, <1>3, <1>4, <1>5, <1>6, AttestedFrame DEF Attested

LEMMA AttestedStore ==
  ASSUME TypeOK, Attested, NEW t \in Threads, store_own_partial(t)
  PROVE  Attested'
<1>1. /\ sent \subseteq sent' /\ UNCHANGED <<partials, round_output, peer_pubkeys>>
      /\ Become(t, Idle)
  BY DEF store_own_partial, registry
<1>2. ThreadsAttested'
  BY <1>1, IdleAttested, AttestedBecome DEF TypeOK, Attested
<1> QED BY <1>1, <1>2, AttestedFrame DEF Attested

LEMMA AttestedInsert ==
  ASSUME TypeOK, Attested, NEW t \in Threads, insert_partial(t)
  PROVE  Attested'
<1> DEFINE s     == Host[t]
           p     == activity[t].msg
           table == [partials[s] EXCEPT ![p.server_id] = p]
           next  == [at |-> "combine", msgs |-> table]
<1>0. /\ activity \in [Threads -> Activities] /\ s \in Servers
      /\ ThreadsAttested /\ AttestedActivity(s, activity[t]) /\ AttestedActivity(s, Idle)
  BY HostAssumption, IdleAttested DEF TypeOK, Attested, ThreadsAttested
<1>1. Returned(s, p)
  BY <1>0 DEF insert_partial, AttestedActivity
<1>2. partials[s] \in Tables /\ \A i \in Keys(partials[s]) : Returned(s, partials[s][i])
  BY <1>0 DEF TypeOK, Attested, TablesAttested
<1>3. \A i \in Keys(table) : Returned(s, table[i])
  BY <1>1, <1>2 DEF Tables, Keys
<1> HIDE DEF table
<1>4. AttestedActivity(s, next)
  BY <1>3 DEF AttestedActivity
<1>5. /\ \/ Become(t, Idle) /\ UNCHANGED partials
         \/ /\ partials' = [partials EXCEPT ![s] = table]
            /\ Become(t, Idle) \/ Become(t, next)
      /\ UNCHANGED <<sent, round_output, peer_pubkeys>>
  BY DEF insert_partial, table, registry
<1> HIDE DEF next
<1>6. ThreadsAttested'
  BY <1>0, <1>4, <1>5, AttestedBecome
<1>7. TablesAttested'
  BY <1>3, <1>5, StillAttested DEF TypeOK, Attested, TablesAttested
<1> QED BY <1>5, <1>6, <1>7, AttestedFrame DEF Attested

LEMMA AttestedOutput ==
  ASSUME TypeOK, Sound, Attested, NEW t \in Threads, store_round_output(t)
  PROVE  Attested'
<1> DEFINE s   == Host[t]
           a   == activity[t]
           out == [round_number   |-> a.agg.round_number,
                   auction_vector |-> a.auction_vector,
                   message_vector |-> a.message_vector]
<1>0. /\ activity \in [Threads -> Activities] /\ s \in Servers
      /\ ThreadsAttested /\ AttestedActivity(s, a) /\ AttestedActivity(s, Idle)
      /\ SoundActivity(s, a)
  BY HostAssumption, IdleAttested DEF TypeOK, Attested, ThreadsAttested, Sound, ThreadsSound
<1>1. /\ Opening(s, a) /\ SoundTable(a.msgs)
      /\ \A i \in Keys(a.msgs) : Returned(s, a.msgs[i])
  BY <1>0 DEF store_round_output, AttestedActivity, SoundActivity
<1>2. OpensReturned(s, out)
  <2>1. a.msgs[s] \in sent /\ a.msgs[s].original_aggregate = a.agg
    BY <1>1 DEF Opening, Returned
  <2>2. ASSUME NEW i \in a.agg.all_server_ids
        PROVE  \E q \in sent : q.server_id = i /\ q.original_aggregate = a.agg
    <3>1. i \in Keys(a.msgs)
      BY <1>1 DEF Opening
    <3>2. a.msgs[i] \in sent /\ a.msgs[i].original_aggregate = a.agg
      BY <1>1, <3>1 DEF Opening, Returned
    <3>3. a.msgs[i].server_id = i
      BY <1>1, <3>1 DEF SoundTable, Keys
    <3> QED BY <3>2, <3>3
  <2>3. /\ s \in a.agg.all_server_ids
        /\ \A x \in Contents : a.agg.auction_vector[x] = a.auction_vector[x]
    BY <1>1 DEF Opening
  <2>4. out.round_number = a.agg.round_number /\ out.auction_vector = a.auction_vector
    OBVIOUS
  <2> HIDE DEF out
  <2> QED BY <2>1, <2>2, <2>3, <2>4 DEF OpensReturned
<1>3. /\ round_output' = [round_output EXCEPT ![s] = out]
      /\ UNCHANGED <<partials, sent, peer_pubkeys>> /\ Become(t, Idle)
  BY DEF store_round_output, registry
<1> HIDE DEF out
<1>4. OutputsAttested'
  <2>1. ASSUME NEW q \in Servers PROVE round_output'[q] = IF q = s THEN out ELSE round_output[q]
    BY <1>3 DEF TypeOK
  <2>2. \A q, b : OpensReturned(q, b) => OpensReturned(q, b)'
    BY <1>3, StillAttested
  <2> QED BY <1>2, <2>1, <2>2 DEF Attested, OutputsAttested
<1>5. ThreadsAttested'
  BY <1>0, <1>3, AttestedBecome
<1> QED BY <1>3, <1>4, <1>5, AttestedFrame DEF Attested

LEMMA AttestedStep ==
  ASSUME TypeOK, Sound, Attested, [Next]_vars
  PROVE  Attested'
<1>1. CASE UNCHANGED vars
  BY <1>1, AttestedFrame DEF Attested, vars, state, registry
<1>2. ASSUME NEW t \in Threads, Continue(t)
      PROVE  Attested'
  BY <1>2, AttestedLocal, AttestedStore, AttestedInsert, AttestedOutput DEF Continue
<1>3. CASE Next
  BY <1>2, <1>3, AttestedCall, AttestedAdminister DEF Next
<1> QED BY <1>1, <1>3

\* Whatever a server publishes is one aggregate opened, and every server of
\* that aggregate's roster, itself included, has returned its share of exactly
\* that aggregate before: there is no way round a server that has not.
THEOREM EveryShareNeeded == Spec => []OutputNeedsEveryShare
<1>1. Init => IInv /\ Attested
  BY Inductive, AttestedInit
<1>2. IInv /\ Attested /\ [Next]_vars => IInv' /\ Attested'
  BY Inductive, AttestedStep DEF IInv
<1>3. Attested => OutputNeedsEveryShare
  BY OutputsAttestedIs DEF Attested
<1> QED BY <1>1, <1>2, <1>3, PTL DEF Spec

-----------------------------------------------------------------------------
(***************************************************************************)
(* Driven from one thread at a time.                                       *)
(***************************************************************************)
SerialSpec == Init /\ [][SerialNext]_vars

OfCurrent(s, p) == p.original_aggregate.round_number = current_round[s]

\* A call that has passed its check of the round finds the round unchanged, and
\* one that is opening a round finds it not opened yet.
CurrentActivity(s, a) ==
  /\ a.at \in {"unblind", "store", "subtract"} =>
       a.agg.round_number = current_round[s]
  /\ a.at = "insert" => OfCurrent(s, a.msg)
  /\ a.at = "combine" => \A i \in Keys(a.msgs) : OfCurrent(s, a.msgs[i])
  /\ a.at \in {"combine", "subtract"} => round_output[s] = None

KeptCurrent    == \A s \in Servers : own_partial[s] # None => OfCurrent(s, own_partial[s])
TablesCurrent  == \A s \in Servers : \A i \in Keys(partials[s]) : OfCurrent(s, partials[s][i])
OutputsCurrent == \A s \in Servers : round_output[s] # None =>
                    round_output[s].round_number = current_round[s]
ThreadsCurrent == \A t \in Threads : CurrentActivity(Host[t], activity[t])

\* No two calls are in progress on one server.
Alone ==
  \A t, u \in Threads :
    Host[t] = Host[u] /\ activity[t] # Idle /\ activity[u] # Idle => t = u

Current == KeptCurrent /\ TablesCurrent /\ OutputsCurrent /\ ThreadsCurrent /\ Alone

LEMMA SerialIsNext == SerialNext => Next
BY DEF SerialNext, Next

LEMMA IdleCurrent == \A s : CurrentActivity(s, Idle)
BY DEF CurrentActivity, Idle

\* The thread that takes a step was the only one its server had, or there was
\* none.
LEMMA AloneBecome ==
  ASSUME NEW t \in Threads, NEW a, Become(t, a), activity \in [Threads -> Activities],
         Alone, Quiescent(Host[t]) \/ activity[t] # Idle
  PROVE  Alone'
BY ActivityAfter DEF Alone, Quiescent

LEMMA ContinueIsBusy ==
  ASSUME NEW t \in Threads, Continue(t)
  PROVE  activity[t] # Idle
<1>1. activity[t].at # "idle"
  BY DEF Continue, fold_client_message, read_round, unblind_aggregate, store_own_partial,
         read_peers, check_round, insert_partial, unblind_partial_messages,
         subtract_share, store_round_output
<1> QED BY <1>1 DEF Idle

LEMMA CurrentBecome ==
  ASSUME NEW t \in Threads, NEW a, Become(t, a), CurrentActivity(Host[t], a),
         activity \in [Threads -> Activities], ThreadsCurrent,
         UNCHANGED <<current_round, round_output>>
  PROVE  ThreadsCurrent'
BY ActivityAfter DEF ThreadsCurrent, CurrentActivity, OfCurrent

LEMMA CurrentFrame ==
  ASSUME Current, UNCHANGED current_round
  PROVE  /\ UNCHANGED own_partial => KeptCurrent'
         /\ UNCHANGED partials => TablesCurrent'
         /\ UNCHANGED round_output => OutputsCurrent'
         /\ UNCHANGED activity => Alone'
         /\ UNCHANGED <<activity, round_output>> => ThreadsCurrent'
BY DEF Current, KeptCurrent, TablesCurrent, OutputsCurrent, Alone, ThreadsCurrent,
       CurrentActivity, OfCurrent

LEMMA CurrentInit == Init => Current
<1> SUFFICES ASSUME Init PROVE Current
  OBVIOUS
<1>1. ThreadsCurrent /\ Alone
  BY IdleCurrent DEF Init, NewState, ThreadsCurrent, Alone
<1>2. TablesCurrent
  BY DEF Init, NewState, TablesCurrent, Keys, EmptyMap
<1> QED BY <1>1, <1>2 DEF Init, NewState, Current, KeptCurrent, OutputsCurrent

LEMMA CurrentAdminister ==
  ASSUME TypeOK, Current, NEW s \in Servers, Quiescent(s), Administer(s)
  PROVE  Current'
<1>1. ASSUME NEW r \in Rounds, advance_to_round(s, r)
      PROVE  Current'
  <2>1. /\ current_round' = [current_round EXCEPT ![s] = r]
        /\ own_partial' = [own_partial EXCEPT ![s] = None]
        /\ partials' = [partials EXCEPT ![s] = EmptyMap]
        /\ round_output' = [round_output EXCEPT ![s] = None]
        /\ UNCHANGED activity
    BY <1>1 DEF advance_to_round, EnterRound
  <2>2. KeptCurrent' /\ OutputsCurrent'
    BY <2>1 DEF TypeOK, Current, KeptCurrent, OutputsCurrent, OfCurrent
  <2>3. \A q \in Servers \ {s} :
          current_round'[q] = current_round[q] /\ round_output'[q] = round_output[q]
    BY <2>1 DEF TypeOK
  <2>4. TablesCurrent'
    <3>1. ASSUME NEW q \in Servers
          PROVE  partials'[q] = EmptyMap \/ (q # s /\ partials'[q] = partials[q])
      BY <2>1 DEF TypeOK
    <3>2. Keys(EmptyMap) = {}
      BY DEF Keys, EmptyMap
    <3> QED BY <2>3, <3>1, <3>2 DEF Current, TablesCurrent, OfCurrent
  <2>5. ThreadsCurrent'
    <3> SUFFICES ASSUME NEW t \in Threads
                 PROVE  CurrentActivity(Host[t], activity[t])'
      BY DEF ThreadsCurrent
    <3>1. CASE Host[t] = s
      <4>1. activity'[t] = Idle
        BY <2>1, <3>1 DEF Quiescent
      <4> QED BY <4>1 DEF CurrentActivity, Idle
    <3>2. CASE Host[t] # s
      BY <2>1, <2>3, <3>2, HostAssumption DEF Current, ThreadsCurrent, CurrentActivity, OfCurrent
    <3> QED BY <3>1, <3>2
  <2>6. Alone'
    BY <2>1 DEF Current, Alone
  <2> QED BY <2>2, <2>4, <2>5, <2>6 DEF Current
<1>2. ASSUME \/ \E c \in Clients : register_client(s, c) \/ deregister_client(s, c)
             \/ \E i, key \in Servers : register_peer_server(s, i, key)
      PROVE  Current'
  BY <1>2, CurrentFrame DEF register_client, deregister_client, register_peer_server,
                            state, Current
<1> QED BY <1>1, <1>2 DEF Administer

LEMMA CurrentCall ==
  ASSUME TypeOK, Current, NEW t \in Threads, Quiescent(Host[t]), Call(t)
  PROVE  Current'
<1>0. activity \in [Threads -> Activities] /\ ThreadsCurrent /\ Alone
  BY DEF TypeOK, Current
<1>1. UNCHANGED <<current_round, own_partial, partials, round_output>>
  BY DEF Call, process_client_message, finalize_partial_for_direct_aggregate,
         process_aggregate_message, process_signed_partial_decryption_message,
         process_partial_decryption_message, state
<1>2. ASSUME NEW a, Become(t, a), CurrentActivity(Host[t], a)
      PROVE  ThreadsCurrent' /\ Alone'
  BY <1>0, <1>1, <1>2, CurrentBecome, AloneBecome
<1>3. /\ \A m : CurrentActivity(Host[t], [at |-> "fold", msg |-> m])
      /\ \A a : CurrentActivity(Host[t], [at |-> "read round", agg |-> a])
      /\ \A p : CurrentActivity(Host[t], [at |-> "read peers", msg |-> p])
  BY DEF CurrentActivity
<1>4. ASSUME NEW m \in Submissions, process_client_message(t, m)
      PROVE  ThreadsCurrent' /\ Alone'
  BY <1>2, <1>3, <1>4 DEF process_client_message
<1>5. ASSUME finalize_partial_for_direct_aggregate(t)
      PROVE  ThreadsCurrent' /\ Alone'
  BY <1>2, <1>3, <1>5 DEF finalize_partial_for_direct_aggregate
<1>6. ASSUME NEW a \in Aggregations, process_aggregate_message(t, a)
      PROVE  ThreadsCurrent' /\ Alone'
  BY <1>2, <1>3, <1>6 DEF process_aggregate_message
<1>7. ASSUME NEW p \in sent,
             \/ process_signed_partial_decryption_message(t, p)
             \/ process_partial_decryption_message(t, p)
      PROVE  ThreadsCurrent' /\ Alone'
  BY <1>2, <1>3, <1>7 DEF process_signed_partial_decryption_message,
                          process_partial_decryption_message
<1> QED BY <1>1, <1>4, <1>5, <1>6, <1>7, CurrentFrame DEF Call, Current

\* Steps of a call that only change what the thread holds.
LEMMA CurrentLocal ==
  ASSUME TypeOK, Current, NEW t \in Threads,
         \/ fold_client_message(t)
         \/ read_round(t) \/ unblind_aggregate(t) \/ read_peers(t)
         \/ check_round(t) \/ unblind_partial_messages(t) \/ subtract_share(t)
  PROVE  Current'
<1> DEFINE s == Host[t]
           a == activity[t]
<1>0. /\ activity \in [Threads -> Activities] /\ a \in Activities /\ s \in Servers
      /\ ThreadsCurrent /\ Alone /\ a # Idle
      /\ CurrentActivity(s, a) /\ CurrentActivity(s, Idle)
  BY HostAssumption, IdleCurrent, ContinueIsBusy
     DEF TypeOK, Current, ThreadsCurrent, Continue
<1>f. UNCHANGED <<current_round, own_partial, partials, round_output>>
  BY DEF fold_client_message, read_round, unblind_aggregate, read_peers, check_round,
         unblind_partial_messages, subtract_share, state
<1>1. ASSUME NEW b, Become(t, b), CurrentActivity(s, b) PROVE ThreadsCurrent' /\ Alone'
  BY <1>0, <1>f, <1>1, CurrentBecome, AloneBecome
<1>2. ASSUME fold_client_message(t) PROVE ThreadsCurrent' /\ Alone'
  BY <1>0, <1>1, <1>2 DEF fold_client_message
<1>3. ASSUME read_round(t) PROVE ThreadsCurrent' /\ Alone'
  <2>1. CanProcess(s, a.agg) => CurrentActivity(s, [at |-> "unblind", agg |-> a.agg])
    BY DEF CanProcess, CurrentActivity
  <2> QED BY <1>0, <1>1, <1>3, <2>1 DEF read_round
<1>4. ASSUME unblind_aggregate(t) PROVE ThreadsCurrent' /\ Alone'
  <2> DEFINE next == [at |-> "store", agg |-> a.agg,
                      additional |-> UnblindAggregate(s, a.agg.round_number, a.agg)]
  <2>1. CurrentActivity(s, next)
    BY <1>0, <1>4 DEF unblind_aggregate, CurrentActivity
  <2>2. Become(t, Idle) \/ Become(t, next)
    BY <1>4 DEF unblind_aggregate
  <2> HIDE DEF next
  <2> QED BY <1>0, <1>1, <2>1, <2>2
<1>5. ASSUME read_peers(t) PROVE ThreadsCurrent' /\ Alone'
  <2> DEFINE next == [at |-> "check round", msg |-> a.msg,
                      expected |-> Keys(peer_pubkeys[s])]
  <2>1. CurrentActivity(s, next)
    BY DEF CurrentActivity
  <2>2. Become(t, Idle) \/ Become(t, next)
    BY <1>5 DEF read_peers
  <2> HIDE DEF next
  <2> QED BY <1>0, <1>1, <2>1, <2>2
<1>6. ASSUME check_round(t) PROVE ThreadsCurrent' /\ Alone'
  <2> DEFINE next == [at |-> "insert", msg |-> a.msg, expected |-> a.expected]
  <2>1. OfCurrent(s, a.msg) => CurrentActivity(s, next)
    BY DEF CurrentActivity, OfCurrent
  <2>2. Become(t, Idle) \/ (OfCurrent(s, a.msg) /\ Become(t, next))
    BY <1>6 DEF check_round, OfCurrent
  <2> HIDE DEF next
  <2> QED BY <1>0, <1>1, <2>1, <2>2
<1>7. ASSUME unblind_partial_messages(t) PROVE ThreadsCurrent' /\ Alone'
  <2> DEFINE msgs == a.msgs
             head == CHOOSE i \in Keys(msgs) : TRUE
             agg  == msgs[head].original_aggregate
             next == [at |-> "subtract", msgs |-> msgs, agg |-> agg,
                      todo |-> Keys(msgs), auction_vector |-> agg.auction_vector,
                      message_vector |-> agg.message_vector]
  <2>1. \/ Become(t, Idle)
        \/ CanCombine(msgs) /\ Become(t, next)
    BY <1>7 DEF unblind_partial_messages
  <2>2. next.at = "subtract" /\ next.agg = agg
    OBVIOUS
  <2> HIDE DEF next
  <2>3. CanCombine(msgs) => head \in Keys(msgs)
    BY DEF CanCombine
  <2> HIDE DEF head
  <2>4. /\ CanCombine(msgs) => agg.round_number = current_round[s]
        /\ round_output[s] = None
    BY <1>0, <1>7, <2>3 DEF unblind_partial_messages, CurrentActivity, OfCurrent
  <2>5. CanCombine(msgs) => CurrentActivity(s, next)
    BY <2>2, <2>4 DEF CurrentActivity
  <2> QED BY <1>0, <1>1, <2>1, <2>5
<1>8. ASSUME subtract_share(t) PROVE ThreadsCurrent' /\ Alone'
  <2>1. PICK b : Become(t, b) /\ b.at = "subtract" /\ b.agg = a.agg
    BY <1>8 DEF subtract_share
  <2>2. CurrentActivity(s, b)
    BY <1>0, <1>8, <2>1 DEF subtract_share, CurrentActivity
  <2> QED BY <1>1, <2>1, <2>2
<1> QED BY <1>f, <1>2, <1>3, <1>4, <1>5, <1>6, <1>7, <1>8, CurrentFrame DEF Current

LEMMA CurrentStore ==
  ASSUME TypeOK, Sound, Current, NEW t \in Threads, store_own_partial(t)
  PROVE  Current'
<1> DEFINE s   == Host[t]
           a   == activity[t].agg
           new == activity[t].additional
           own == own_partial[s]
           out == IF own = None THEN new ELSE Extend(own, a, new)
<1>0. /\ activity \in [Threads -> Activities] /\ s \in Servers
      /\ ThreadsCurrent /\ Alone /\ activity[t] # Idle
      /\ CurrentActivity(s, activity[t]) /\ CurrentActivity(s, Idle)
      /\ SoundActivity(s, activity[t])
  BY HostAssumption, IdleCurrent, ContinueIsBusy
     DEF TypeOK, Current, ThreadsCurrent, Continue, Sound, ThreadsSound
<1>1. new.original_aggregate = a /\ a.round_number = current_round[s]
  BY <1>0 DEF store_own_partial, SoundActivity, CurrentActivity, UnblindAggregate
<1>2. OfCurrent(s, out)
  <2>1. CASE own = None
    BY <1>1, <2>1 DEF OfCurrent
  <2>2. CASE own # None
    <3>1. OfCurrent(s, own)
      BY <1>0, <2>2 DEF Current, KeptCurrent
    <3>2. Extend(own, a, new).original_aggregate.round_number
            = own.original_aggregate.round_number
      BY DEF Extend, Union
    <3> QED BY <2>2, <3>1, <3>2 DEF OfCurrent
  <2> QED BY <2>1, <2>2
<1> HIDE DEF out
<1>3. /\ UNCHANGED own_partial \/ own_partial' = [own_partial EXCEPT ![s] = out]
      /\ UNCHANGED <<current_round, partials, round_output>>
      /\ Become(t, Idle)
  BY DEF store_own_partial, out
<1>4. KeptCurrent'
  BY <1>2, <1>3 DEF TypeOK, Current, KeptCurrent, OfCurrent
<1>5. ThreadsCurrent' /\ Alone'
  BY <1>0, <1>3, CurrentBecome, AloneBecome
<1> QED BY <1>3, <1>4, <1>5, CurrentFrame DEF Current

LEMMA CurrentInsert ==
  ASSUME TypeOK, Current, NEW t \in Threads, insert_partial(t)
  PROVE  Current'
<1> DEFINE s     == Host[t]
           p     == activity[t].msg
           table == [partials[s] EXCEPT ![p.server_id] = p]
           next  == [at |-> "combine", msgs |-> table]
<1>0. /\ activity \in [Threads -> Activities] /\ s \in Servers
      /\ ThreadsCurrent /\ Alone /\ activity[t] # Idle
      /\ CurrentActivity(s, activity[t]) /\ CurrentActivity(s, Idle)
  BY HostAssumption, IdleCurrent, ContinueIsBusy
     DEF TypeOK, Current, ThreadsCurrent, Continue
<1>1. OfCurrent(s, p)
  BY <1>0 DEF insert_partial, CurrentActivity
<1>2. partials[s] \in Tables /\ \A i \in Keys(partials[s]) : OfCurrent(s, partials[s][i])
  BY <1>0 DEF TypeOK, Current, TablesCurrent
<1>3. \A i \in Keys(table) : OfCurrent(s, table[i])
  BY <1>1, <1>2 DEF Tables, Keys
<1>4. /\ \/ Become(t, Idle) /\ UNCHANGED partials
         \/ /\ round_output[s] = None
            /\ partials' = [partials EXCEPT ![s] = table]
            /\ Become(t, Idle) \/ Become(t, next)
      /\ UNCHANGED <<current_round, own_partial, round_output>>
  BY DEF insert_partial
<1> HIDE DEF table
<1>5. round_output[s] = None => CurrentActivity(s, next)
  BY <1>3 DEF CurrentActivity
<1> HIDE DEF next
<1>6. ThreadsCurrent' /\ Alone'
  BY <1>0, <1>4, <1>5, CurrentBecome, AloneBecome
<1>7. TablesCurrent'
  BY <1>3, <1>4 DEF TypeOK, Current, TablesCurrent, OfCurrent
<1> QED BY <1>4, <1>6, <1>7, CurrentFrame DEF Current

LEMMA CurrentOutput ==
  ASSUME TypeOK, Current, NEW t \in Threads, store_round_output(t)
  PROVE  Current'
<1> DEFINE s   == Host[t]
           a   == activity[t]
           out == [round_number   |-> a.agg.round_number,
                   auction_vector |-> a.auction_vector,
                   message_vector |-> a.message_vector]
<1>0. /\ activity \in [Threads -> Activities] /\ s \in Servers
      /\ ThreadsCurrent /\ Alone /\ activity[t] # Idle /\ CurrentActivity(s, a)
  BY HostAssumption, ContinueIsBusy DEF TypeOK, Current, ThreadsCurrent, Continue
<1>1. out.round_number = current_round[s]
  BY <1>0 DEF store_round_output, CurrentActivity
<1>2. /\ round_output' = [round_output EXCEPT ![s] = out]
      /\ UNCHANGED <<current_round, own_partial, partials>> /\ Become(t, Idle)
  BY DEF store_round_output
<1> HIDE DEF out
<1>3. OutputsCurrent'
  BY <1>1, <1>2 DEF TypeOK, Current, OutputsCurrent
<1>4. Alone'
  BY <1>0, <1>2, AloneBecome
<1>5. ThreadsCurrent'
  <2> SUFFICES ASSUME NEW u \in Threads
               PROVE  CurrentActivity(Host[u], activity[u])'
    BY DEF ThreadsCurrent
  <2>1. CASE Host[u] = s
    <3>1. activity'[u] = Idle
      BY <1>0, <1>2, <2>1, ActivityAfter DEF Alone
    <3> QED BY <3>1 DEF CurrentActivity, Idle
  <2>2. CASE Host[u] # s
    <3>1. activity'[u] = activity[u] /\ round_output'[Host[u]] = round_output[Host[u]]
      BY <1>0, <1>2, <2>2, HostAssumption, ActivityAfter DEF TypeOK
    <3>2. CurrentActivity(Host[u], activity[u])
      BY <1>0 DEF ThreadsCurrent
    <3> QED BY <1>2, <3>1, <3>2 DEF CurrentActivity, OfCurrent
  <2> QED BY <2>1, <2>2
<1> QED BY <1>2, <1>3, <1>4, <1>5, CurrentFrame DEF Current

LEMMA CurrentStep ==
  ASSUME TypeOK, Sound, Current, [SerialNext]_vars
  PROVE  Current'
<1>1. CASE UNCHANGED vars
  BY <1>1, CurrentFrame DEF Current, vars, state
<1>2. ASSUME NEW t \in Threads, Continue(t)
      PROVE  Current'
  BY <1>2, CurrentLocal, CurrentStore, CurrentInsert, CurrentOutput DEF Continue
<1>3. CASE SerialNext
  BY <1>2, <1>3, CurrentCall, CurrentAdminister DEF SerialNext
<1> QED BY <1>1, <1>3

LEMMA SerialInductive ==
  /\ Init => IInv /\ Current
  /\ IInv /\ Current /\ [SerialNext]_vars => IInv' /\ Current'
<1>1. Init => IInv /\ Current
  BY Inductive, CurrentInit
<1>2. [SerialNext]_vars => [Next]_vars
  BY SerialIsNext
<1>3. IInv /\ Current /\ [SerialNext]_vars => IInv' /\ Current'
  BY <1>2, Inductive, CurrentStep DEF IInv
<1> QED BY <1>1, <1>3

\* Driven from one thread at a time, a server keeps nothing of another round
\* than the one it is in.  Without that, a call overtaken by advance_to_round
\* stores what is of the round before.
THEOREM NothingStale == SerialSpec => []RoundStateIsCurrent
<1>1. Current => RoundStateIsCurrent
  BY DEF Current, KeptCurrent, TablesCurrent, OutputsCurrent, OfCurrent, Keys,
         RoundStateIsCurrent
<1> QED BY <1>1, SerialInductive, PTL DEF SerialSpec

-----------------------------------------------------------------------------
(***************************************************************************)
(* The refinement.                                                         *)
(***************************************************************************)

\* The abstract specification's algebra is this one.
LEMMA AbstractAlgebra ==
  /\ \A c, r, d : Abstract!Content(c, r, d) = Content(c, r, d)
  /\ \A S : Abstract!Sum(S) = Sum(S)
<1>1. \A c, r, d : Abstract!Content(c, r, d) = Content(c, r, d)
  BY DEF Abstract!Content, Content
<1>2. \A c, s, r : Abstract!Pad(c, s, r) = Pad(c, s, r)
  BY DEF Abstract!Pad, Pad, Abstract!PadRound, PadRound
<1>3. Abstract!Rounds = Rounds
  BY DEF Abstract!Rounds, Rounds
<1>4. Abstract!Contents = Contents
  BY <1>1, <1>3 DEF Abstract!Contents, Contents
<1>5. Abstract!Pads = Pads
  BY <1>2, <1>3 DEF Abstract!Pads, Pads
<1>6. Abstract!Term = Term
  BY <1>4, <1>5 DEF Abstract!Term, Term
<1>7. \A S : Abstract!Sum(S) = Sum(S)
  BY <1>6 DEF Abstract!Sum, Sum
<1> QED BY <1>1, <1>7

\* Only store_round_output publishes, and what it publishes is a plaintext of
\* the current round, where there was no output yet.
LEMMA OutputPublishes ==
  ASSUME TypeOK, Sound, Current, NEW t \in Threads, store_round_output(t)
  PROVE  Abstract!Publish(Host[t])
<1> DEFINE s   == Host[t]
           a   == activity[t]
           out == [round_number   |-> a.agg.round_number,
                   auction_vector |-> a.auction_vector,
                   message_vector |-> a.message_vector]
<1>0. s \in Servers /\ CurrentActivity(s, a) /\ SoundActivity(s, a) /\ a \in Activities
  BY HostAssumption DEF TypeOK, Current, ThreadsCurrent, Sound, ThreadsSound
<1>1. /\ a.agg.round_number = current_round[s] /\ round_output[s] = None
      /\ a.todo = {} /\ Subtracting(a) /\ a.agg \in AggregatedClientMessages
  BY <1>0, ActivityFields DEF store_round_output, CurrentActivity, SoundActivity
<1>2. current_round[s] # 0
  BY <1>1, RoundsAreNat
<1>3. IsPlaintext(out)
  BY <1>1, NothingRemains DEF Subtracting
<1>c. PICK cs \in SUBSET Clients : \E draft \in [cs -> Drafts] :
        LET contents == {Content(c, out.round_number, draft[c]) : c \in cs}
        IN  out.auction_vector = Sum(contents) /\ out.message_vector = contents
  BY <1>3 DEF IsPlaintext
<1>4. PICK draft \in [cs -> Drafts] :
        LET contents == {Content(c, out.round_number, draft[c]) : c \in cs}
        IN  out.auction_vector = Sum(contents) /\ out.message_vector = contents
  BY <1>c
<1> DEFINE contents == {Content(c, current_round[s], draft[c]) : c \in cs}
<1>5. out = [round_number |-> current_round[s], auction_vector |-> Sum(contents),
             message_vector |-> contents]
  BY <1>1, <1>4
<1>6. round_output' = [round_output EXCEPT ![s] = out] /\ UNCHANGED current_round
  BY DEF store_round_output
<1> HIDE DEF out
<1>7. contents = {Abstract!Content(c, current_round[s], draft[c]) : c \in cs}
  BY AbstractAlgebra
<1>8. out = Abstract!Plaintext(current_round[s], contents)
  BY <1>5, AbstractAlgebra DEF Abstract!Plaintext
<1> HIDE DEF contents
<1> QED BY <1>1, <1>2, <1>6, <1>7, <1>8 DEF Abstract!Publish

LEMMA StepRefines ==
  ASSUME TypeOK, Sound, Current, [SerialNext]_vars
  PROVE  [Abstract!ABNext]_<<current_round, round_output>>
<1>1. CASE UNCHANGED vars
  BY <1>1 DEF vars, state
<1>2. ASSUME NEW t \in Threads, Call(t)
      PROVE  UNCHANGED <<current_round, round_output>>
  BY <1>2 DEF Call, process_client_message, finalize_partial_for_direct_aggregate,
     process_aggregate_message, process_signed_partial_decryption_message,
     process_partial_decryption_message, state
<1>3. ASSUME NEW t \in Threads, Continue(t), ~ store_round_output(t)
      PROVE  UNCHANGED <<current_round, round_output>>
  BY <1>3 DEF Continue, fold_client_message, read_round, unblind_aggregate,
     store_own_partial, read_peers, check_round, insert_partial,
     unblind_partial_messages, subtract_share, state
<1>4. ASSUME NEW t \in Threads, store_round_output(t)
      PROVE  Abstract!ABNext
  BY <1>4, OutputPublishes, HostAssumption DEF Abstract!ABNext
<1>5. ASSUME NEW s \in Servers, Administer(s)
      PROVE  Abstract!ABNext \/ UNCHANGED <<current_round, round_output>>
  <2>1. ASSUME NEW r \in Rounds, advance_to_round(s, r)
        PROVE  Abstract!Begin(s)
    BY <2>1 DEF advance_to_round, EnterRound, Abstract!Begin, Abstract!Rounds, Rounds
  <2>2. ASSUME \/ \E c \in Clients : register_client(s, c) \/ deregister_client(s, c)
               \/ \E i, key \in Servers : register_peer_server(s, i, key)
        PROVE  UNCHANGED <<current_round, round_output>>
    BY <2>2 DEF register_client, deregister_client, register_peer_server, state
  <2> QED BY <1>5, <2>1, <2>2 DEF Administer, Abstract!ABNext
<1> QED BY <1>1, <1>2, <1>3, <1>4, <1>5 DEF SerialNext

\* Driven from one thread at a time, the servers implement the anonymous
\* broadcast: rounds only go up, and in a round a server publishes at most one
\* thing, the bare sum of one content per client of some set of clients.
THEOREM Refinement == SerialSpec => ImplementsBroadcast
<1>1. Init => Abstract!ABInit
  BY DEF Init, NewState, Abstract!ABInit
<1>2. IInv /\ Current /\ [SerialNext]_vars
        => [Abstract!ABNext]_<<current_round, round_output>>
  BY StepRefines DEF IInv
<1> QED BY <1>1, <1>2, SerialInductive, PTL
        DEF SerialSpec, ImplementsBroadcast, Abstract!ABSpec

-----------------------------------------------------------------------------
(***************************************************************************)
(* Partials that agree are opened, when the aggregates are an aggregator's *)
(* that keeps one for each round, as AggregatorService does                *)
(* (GrowsWithinRound), and no client sends to the servers directly.        *)
(***************************************************************************)
\* Each aggregate of a round extends the ones before it: any two have a client
\* in common, and no two have the same clients.
Cumulative ==
  /\ Submissions = {}
  /\ \A a, b \in Aggregations : a.round_number = b.round_number =>
       /\ Signers(a.user_pks) \cap Signers(b.user_pks) # {}
       /\ Signers(a.user_pks) = Signers(b.user_pks) => a = b

Relayed(p) == /\ p.original_aggregate \in Aggregations
              /\ p.original_aggregate.shape \in ConfigShapes

\* Every aggregate about, and that of every partial, is one of the aggregator's.
RelayedActivity(a) ==
  /\ a.at # "fold"
  /\ a.at \in {"read round", "unblind", "store"} => a.agg \in Aggregations
  /\ a.at \in {"unblind", "store"} => a.agg.shape \in ConfigShapes
  /\ a.at \in {"read peers", "check round", "insert"} => Relayed(a.msg)

NoneDirect     == \A s \in Servers : direct_aggregate[s] = None
KeptRelayed    == \A s \in Servers : own_partial[s] # None => Relayed(own_partial[s])
SentRelayed    == \A p \in sent : Relayed(p)
TablesRelayed  == \A s \in Servers : \A i \in Keys(partials[s]) : Relayed(partials[s][i])
ThreadsRelayed == \A t \in Threads : RelayedActivity(activity[t])

\* A thread that goes on to combine has the table as it is.
CombinesTable ==
  \A t \in Threads : activity[t].at = "combine" => activity[t].msgs = partials[Host[t]]

Relaying ==
  /\ NoneDirect /\ KeptRelayed /\ SentRelayed /\ TablesRelayed /\ ThreadsRelayed
  /\ CombinesTable

LEMMA IdleRelayed == RelayedActivity(Idle) /\ Idle.at # "combine"
BY DEF RelayedActivity, Idle

LEMMA RelayedBecome ==
  ASSUME NEW t \in Threads, NEW a, Become(t, a), RelayedActivity(a),
         activity \in [Threads -> Activities], ThreadsRelayed
  PROVE  ThreadsRelayed'
<1>1. \A u \in Threads : RelayedActivity(activity'[u])
  BY ActivityAfter DEF ThreadsRelayed
<1> QED BY <1>1 DEF ThreadsRelayed, RelayedActivity, Relayed

LEMMA CombinesBecome ==
  ASSUME NEW t \in Threads, NEW a, Become(t, a), a.at # "combine",
         activity \in [Threads -> Activities], CombinesTable, UNCHANGED partials
  PROVE  CombinesTable'
BY ActivityAfter DEF CombinesTable

LEMMA RelayedFrame ==
  ASSUME Relaying
  PROVE  /\ UNCHANGED direct_aggregate => NoneDirect'
         /\ UNCHANGED own_partial => KeptRelayed'
         /\ UNCHANGED sent => SentRelayed'
         /\ UNCHANGED partials => TablesRelayed'
         /\ UNCHANGED activity => ThreadsRelayed'
         /\ UNCHANGED <<activity, partials>> => CombinesTable'
BY DEF Relaying, NoneDirect, KeptRelayed, SentRelayed, TablesRelayed, ThreadsRelayed,
       CombinesTable, RelayedActivity, Relayed

LEMMA RelayedInit == Init => Relaying
<1> SUFFICES ASSUME Init PROVE Relaying
  OBVIOUS
<1>1. ThreadsRelayed /\ CombinesTable
  BY IdleRelayed DEF Init, NewState, ThreadsRelayed, CombinesTable
<1>2. TablesRelayed
  BY DEF Init, NewState, TablesRelayed, Keys, EmptyMap
<1> QED BY <1>1, <1>2 DEF Init, NewState, Relaying, NoneDirect, KeptRelayed, SentRelayed

LEMMA RelayedAdminister ==
  ASSUME TypeOK, Relaying, NEW s \in Servers, Quiescent(s), Administer(s)
  PROVE  Relaying'
<1>1. ASSUME NEW r \in Rounds, advance_to_round(s, r)
      PROVE  Relaying'
  <2>1. /\ direct_aggregate' = [direct_aggregate EXCEPT ![s] = None]
        /\ own_partial' = [own_partial EXCEPT ![s] = None]
        /\ partials' = [partials EXCEPT ![s] = EmptyMap]
        /\ UNCHANGED <<activity, sent>>
    BY <1>1 DEF advance_to_round, EnterRound
  <2>2. NoneDirect' /\ KeptRelayed'
    BY <2>1 DEF TypeOK, Relaying, NoneDirect, KeptRelayed, Relayed
  <2>3. TablesRelayed'
    <3>1. \A q \in Servers : partials'[q] = EmptyMap \/ partials'[q] = partials[q]
      BY <2>1 DEF TypeOK
    <3>2. Keys(EmptyMap) = {}
      BY DEF Keys, EmptyMap
    <3> QED BY <3>1, <3>2 DEF Relaying, TablesRelayed, Relayed
  <2>4. CombinesTable'
    <3> SUFFICES ASSUME NEW t \in Threads, activity[t].at = "combine"
                 PROVE  activity[t].msgs = partials'[Host[t]]
      BY <2>1 DEF CombinesTable
    <3>1. Host[t] # s
      BY IdleRelayed DEF Quiescent
    <3>2. partials'[Host[t]] = partials[Host[t]]
      BY <2>1, <3>1, HostAssumption DEF TypeOK
    <3> QED BY <3>2 DEF Relaying, CombinesTable
  <2> QED BY <2>1, <2>2, <2>3, <2>4, RelayedFrame DEF Relaying
<1>2. ASSUME \/ \E c \in Clients : register_client(s, c) \/ deregister_client(s, c)
             \/ \E i, key \in Servers : register_peer_server(s, i, key)
      PROVE  Relaying'
  BY <1>2, RelayedFrame DEF register_client, deregister_client, register_peer_server,
                            state, Relaying
<1> QED BY <1>1, <1>2 DEF Administer

LEMMA RelayedCall ==
  ASSUME TypeOK, Relaying, Cumulative, NEW t \in Threads, Call(t)
  PROVE  Relaying'
<1>0. /\ activity \in [Threads -> Activities] /\ ThreadsRelayed /\ CombinesTable
      /\ Host[t] \in Servers
  BY HostAssumption DEF TypeOK, Relaying
<1>1. Submissions = {} /\ direct_aggregate[Host[t]] = None
  BY <1>0 DEF Relaying, NoneDirect, Cumulative
<1>2. ASSUME NEW a, Become(t, a), RelayedActivity(a), a.at # "combine",
             UNCHANGED <<direct_aggregate, own_partial, partials, sent>>
      PROVE  Relaying'
  <2>1. ThreadsRelayed' /\ CombinesTable'
    BY <1>0, <1>2, RelayedBecome, CombinesBecome
  <2> QED BY <1>2, <2>1, RelayedFrame DEF Relaying
<1>3. ASSUME NEW a \in Aggregations, process_aggregate_message(t, a)
      PROVE  Relaying'
  <2> DEFINE next == [at |-> "read round", agg |-> a]
  <2>1. RelayedActivity(next) /\ next.at # "combine"
    BY DEF RelayedActivity
  <2> HIDE DEF next
  <2> QED BY <1>2, <1>3, <2>1 DEF process_aggregate_message, state, next
<1>4. ASSUME NEW p \in sent,
             \/ process_signed_partial_decryption_message(t, p)
             \/ process_partial_decryption_message(t, p)
      PROVE  Relaying'
  <2> DEFINE next == [at |-> "read peers", msg |-> p]
  <2>1. RelayedActivity(next) /\ next.at # "combine"
    BY DEF RelayedActivity, Relaying, SentRelayed
  <2> HIDE DEF next
  <2> QED BY <1>2, <1>4, <2>1 DEF process_signed_partial_decryption_message,
                                  process_partial_decryption_message, state, next
<1> QED BY <1>1, <1>3, <1>4 DEF Call, finalize_partial_for_direct_aggregate

LEMMA RelayedLocal ==
  ASSUME TypeOK, Relaying, NEW t \in Threads,
         \/ fold_client_message(t)
         \/ read_round(t) \/ unblind_aggregate(t) \/ read_peers(t)
         \/ check_round(t) \/ unblind_partial_messages(t) \/ subtract_share(t)
         \/ store_round_output(t)
  PROVE  Relaying'
<1> DEFINE s == Host[t]
           a == activity[t]
<1>0. /\ activity \in [Threads -> Activities] /\ ThreadsRelayed /\ CombinesTable
      /\ RelayedActivity(a)
  BY DEF TypeOK, Relaying, ThreadsRelayed
<1>f. UNCHANGED <<direct_aggregate, own_partial, partials, sent>>
  BY <1>0 DEF fold_client_message, read_round, unblind_aggregate, read_peers, check_round,
         unblind_partial_messages, subtract_share, store_round_output, state, RelayedActivity
<1>1. ASSUME NEW b, Become(t, b), RelayedActivity(b), b.at # "combine" PROVE Relaying'
  <2>1. ThreadsRelayed' /\ CombinesTable'
    BY <1>0, <1>f, <1>1, RelayedBecome, CombinesBecome
  <2> QED BY <1>f, <2>1, RelayedFrame DEF Relaying
<1>i. Become(t, Idle) => Relaying'
  BY <1>1, IdleRelayed
<1>2. ASSUME fold_client_message(t) PROVE Relaying'
  BY <1>0, <1>2 DEF fold_client_message, RelayedActivity
<1>3. ASSUME read_round(t) PROVE Relaying'
  <2> DEFINE next == [at |-> "unblind", agg |-> a.agg]
  <2>1. CanProcess(s, a.agg) => RelayedActivity(next)
    BY <1>0, <1>3 DEF read_round, CanProcess, RelayedActivity
  <2>2. (Become(t, next) /\ CanProcess(s, a.agg)) \/ Become(t, Idle)
    BY <1>3 DEF read_round
  <2>3. next.at # "combine"
    OBVIOUS
  <2> HIDE DEF next
  <2> QED BY <1>1, <1>i, <2>1, <2>2, <2>3
<1>4. ASSUME unblind_aggregate(t) PROVE Relaying'
  <2> DEFINE next == [at |-> "store", agg |-> a.agg,
                      additional |-> UnblindAggregate(s, a.agg.round_number, a.agg)]
  <2>1. RelayedActivity(next) /\ next.at # "combine"
    BY <1>0, <1>4 DEF unblind_aggregate, RelayedActivity
  <2>2. Become(t, Idle) \/ Become(t, next)
    BY <1>4 DEF unblind_aggregate
  <2> HIDE DEF next
  <2> QED BY <1>1, <1>i, <2>1, <2>2
<1>5. ASSUME read_peers(t) PROVE Relaying'
  <2> DEFINE next == [at |-> "check round", msg |-> a.msg,
                      expected |-> Keys(peer_pubkeys[s])]
  <2>1. RelayedActivity(next) /\ next.at # "combine"
    BY <1>0, <1>5 DEF read_peers, RelayedActivity
  <2>2. Become(t, Idle) \/ Become(t, next)
    BY <1>5 DEF read_peers
  <2> HIDE DEF next
  <2> QED BY <1>1, <1>i, <2>1, <2>2
<1>6. ASSUME check_round(t) PROVE Relaying'
  <2> DEFINE next == [at |-> "insert", msg |-> a.msg, expected |-> a.expected]
  <2>1. RelayedActivity(next) /\ next.at # "combine"
    BY <1>0, <1>6 DEF check_round, RelayedActivity
  <2>2. Become(t, Idle) \/ Become(t, next)
    BY <1>6 DEF check_round
  <2> HIDE DEF next
  <2> QED BY <1>1, <1>i, <2>1, <2>2
<1>7. ASSUME unblind_partial_messages(t) \/ subtract_share(t) PROVE Relaying'
  <2>1. Become(t, Idle) \/ \E b : Become(t, b) /\ b.at = "subtract"
    BY <1>7 DEF unblind_partial_messages, subtract_share
  <2>2. \A b : b.at = "subtract" => RelayedActivity(b)
    BY DEF RelayedActivity
  <2> QED BY <1>1, <1>i, <2>1, <2>2
<1>8. ASSUME store_round_output(t) PROVE Relaying'
  BY <1>i, <1>8 DEF store_round_output
<1> QED BY <1>2, <1>3, <1>4, <1>5, <1>6, <1>7, <1>8

\* A share in two aggregates that have a client in common cannot be extended.
LEMMA OverlapsRefused ==
  ASSUME NEW a, NEW b, a.user_pks \in Seq(Clients), b.user_pks \in Seq(Clients),
         Signers(a.user_pks) \cap Signers(b.user_pks) # {}
  PROVE  ~CanUnion(a, b)
<1> DEFINE p == a.user_pks
           q == b.user_pks
<1>1. p \in Seq(Clients) /\ q \in Seq(Clients)
  OBVIOUS
<1>2. PICK i \in DOMAIN p, j \in DOMAIN q : p[i] = q[j]
  BY DEF Signers
<1>3. CanUnion(a, b) => NoDuplicates(p \o q)
  BY DEF CanUnion
<1> HIDE DEF p, q
<1>4. /\ i \in 1 .. Len(p) /\ j \in 1 .. Len(q) /\ Len(p) \in Nat /\ Len(q) \in Nat
      /\ DOMAIN (p \o q) = 1 .. (Len(p) + Len(q))
  BY <1>1, <1>2
<1>5. (p \o q)[i] = p[i] /\ (p \o q)[Len(p) + j] = q[j]
  BY <1>1, <1>4
<1>6. i # Len(p) + j /\ i \in DOMAIN (p \o q) /\ Len(p) + j \in DOMAIN (p \o q)
  BY <1>4
<1>7. ~NoDuplicates(p \o q)
  BY <1>2, <1>5, <1>6 DEF NoDuplicates
<1> QED BY <1>3, <1>7

LEMMA RelayedStore ==
  ASSUME TypeOK, Sound, Relaying, Cumulative, NEW t \in Threads, store_own_partial(t)
  PROVE  Relaying'
<1> DEFINE s   == Host[t]
           a   == activity[t].agg
           new == activity[t].additional
           own == own_partial[s]
<1>0. /\ activity \in [Threads -> Activities] /\ s \in Servers
      /\ ThreadsRelayed /\ CombinesTable /\ RelayedActivity(activity[t])
      /\ SoundActivity(s, activity[t]) /\ activity[t].at = "store"
  BY HostAssumption DEF TypeOK, Relaying, ThreadsRelayed, Sound, ThreadsSound,
                        store_own_partial
<1>1. a \in Aggregations /\ a.shape \in ConfigShapes /\ new.original_aggregate = a
  BY <1>0 DEF RelayedActivity, SoundActivity, UnblindAggregate
<1>2. Relayed(new)
  BY <1>1 DEF Relayed
<1>3. own # None => ~CanUnion(own.original_aggregate, a)
  <2> SUFFICES ASSUME own # None PROVE ~CanUnion(own.original_aggregate, a)
    OBVIOUS
  <2>1. own.original_aggregate \in Aggregations
    BY <1>0 DEF Relaying, KeptRelayed, Relayed
  <2>2. own.original_aggregate.user_pks \in Seq(Clients) /\ a.user_pks \in Seq(Clients)
    BY <1>1, <2>1, InputAssumption DEF IsAggregation
  <2>3. CASE own.original_aggregate.round_number # a.round_number
    BY <2>3 DEF CanUnion
  <2>4. CASE own.original_aggregate.round_number = a.round_number
    <3>1. Signers(own.original_aggregate.user_pks) \cap Signers(a.user_pks) # {}
      BY <1>1, <2>1, <2>4 DEF Cumulative
    <3> QED BY <2>2, <3>1, OverlapsRefused
  <2> QED BY <2>3, <2>4
<1>4. /\ \/ UNCHANGED <<own_partial, sent>>
         \/ own_partial' = [own_partial EXCEPT ![s] = new] /\ sent' = sent \cup {new}
      /\ UNCHANGED <<direct_aggregate, partials>> /\ Become(t, Idle)
  BY <1>3 DEF store_own_partial
<1> HIDE DEF new
<1>5. KeptRelayed' /\ SentRelayed'
  BY <1>2, <1>4 DEF TypeOK, Relaying, KeptRelayed, SentRelayed, Relayed
<1>6. ThreadsRelayed' /\ CombinesTable'
  BY <1>0, <1>4, IdleRelayed, RelayedBecome, CombinesBecome
<1> QED BY <1>4, <1>5, <1>6, RelayedFrame DEF Relaying

LEMMA RelayedInsert ==
  ASSUME TypeOK, Alone, Relaying, NEW t \in Threads, insert_partial(t)
  PROVE  Relaying'
<1> DEFINE s     == Host[t]
           p     == activity[t].msg
           table == [partials[s] EXCEPT ![p.server_id] = p]
           next  == [at |-> "combine", msgs |-> table]
<1>0. /\ activity \in [Threads -> Activities] /\ s \in Servers
      /\ ThreadsRelayed /\ CombinesTable /\ RelayedActivity(activity[t])
      /\ activity[t].at = "insert" /\ activity[t] # Idle
      /\ partials \in [Servers -> Tables]
  BY HostAssumption DEF TypeOK, Relaying, ThreadsRelayed, insert_partial, Idle
<1>1. Relayed(p)
  BY <1>0 DEF RelayedActivity
<1>2. \A i \in Keys(table) : Relayed(table[i])
  <2>1. partials[s] \in Tables /\ \A i \in Keys(partials[s]) : Relayed(partials[s][i])
    BY <1>0 DEF Relaying, TablesRelayed
  <2> QED BY <1>1, <2>1 DEF Tables, Keys
<1>3. /\ UNCHANGED <<direct_aggregate, own_partial, sent>>
      /\ \/ Become(t, Idle) /\ UNCHANGED partials
         \/ partials' = [partials EXCEPT ![s] = table] /\ (Become(t, Idle) \/ Become(t, next))
  BY DEF insert_partial
<1>4. next.at = "combine" /\ next.msgs = table /\ RelayedActivity(next)
  BY DEF RelayedActivity
<1> HIDE DEF table, next
<1>5. TablesRelayed'
  BY <1>0, <1>2, <1>3 DEF Relaying, TablesRelayed, Relayed
<1>6. ThreadsRelayed'
  BY <1>0, <1>3, <1>4, IdleRelayed, RelayedBecome
<1>7. CombinesTable'
  <2> SUFFICES ASSUME NEW u \in Threads, activity'[u].at = "combine"
               PROVE  activity'[u].msgs = partials'[Host[u]]
    BY DEF CombinesTable
  <2>1. CASE u = t
    <3>1. activity'[t] = Idle \/ (activity'[t] = next /\ partials'[s] = table)
      BY <1>0, <1>3, ActivityAfter
    <3> QED BY <1>4, <2>1, <3>1, IdleRelayed
  <2>2. CASE u # t
    <3>1. activity'[u] = activity[u]
      BY <1>0, <1>3, <2>2, ActivityAfter
    <3>2. Host[u] # s
      BY <1>0, <2>2, <3>1, IdleRelayed DEF Alone
    <3>3. partials'[Host[u]] = partials[Host[u]]
      BY <1>0, <1>3, <3>2, HostAssumption
    <3> QED BY <1>0, <3>1, <3>3 DEF CombinesTable
  <2> QED BY <2>1, <2>2
<1> QED BY <1>3, <1>5, <1>6, <1>7, RelayedFrame DEF Relaying

LEMMA RelayedStep ==
  ASSUME TypeOK, Sound, Alone, Relaying, Cumulative, [SerialNext]_vars
  PROVE  Relaying'
<1>1. CASE UNCHANGED vars
  BY <1>1, RelayedFrame DEF Relaying, vars, state
<1>2. ASSUME NEW t \in Threads, Continue(t)
      PROVE  Relaying'
  BY <1>2, RelayedLocal, RelayedStore, RelayedInsert DEF Continue
<1>3. CASE SerialNext
  BY <1>2, <1>3, RelayedCall, RelayedAdminister DEF SerialNext
<1> QED BY <1>1, <1>3

\* A table of agreeing partials passes the checks of unblind_partial_messages.
LEMMA AgreedCombine ==
  ASSUME Cumulative, NEW s \in Servers, NEW table \in Tables, NEW r,
         SoundTable(table), Keys(table) = Servers,
         \A i \in Servers : Relayed(table[i]),
         \A i \in Servers : table[i].original_aggregate.round_number = r,
         \A i, j \in Servers : Signers(table[i].user_pks) = Signers(table[j].user_pks)
  PROVE  CanCombine(table)
<1> DEFINE agg(i) == table[i].original_aggregate
<1>1. \A i \in Servers : /\ table[i] # None /\ ShareFits(table[i])
                         /\ table[i].server_id = i
  BY DEF Keys, SoundTable, SoundPartial
<1>2. \A i \in Servers : table[i].user_pks = agg(i).user_pks /\ i \in agg(i).all_server_ids
  BY <1>1 DEF ShareFits
<1>3. \A i \in Servers : /\ agg(i) \in Aggregations /\ agg(i).shape \in ConfigShapes
                         /\ agg(i).round_number = r
  BY DEF Relayed
<1>4. \A i, j \in Servers : agg(i) = agg(j)
  BY <1>2, <1>3 DEF Cumulative
<1>5. \A i \in Servers : agg(i).all_server_ids \subseteq Servers
  BY <1>3, InputAssumption DEF IsAggregation
<1>6. \A i \in Servers : agg(i).all_server_ids = Servers
  <2> SUFFICES ASSUME NEW i \in Servers PROVE agg(i).all_server_ids = Servers
    OBVIOUS
  <2>1. \A j \in Servers : j \in agg(i).all_server_ids
    BY <1>2, <1>4
  <2> QED BY <1>5, <2>1
<1> QED BY <1>2, <1>3, <1>4, <1>6 DEF CanCombine

\* The partials that a server holds of all servers, for the same clients.
Agreed(s) ==
  /\ Keys(partials[s]) = Servers
  /\ \A i, j \in Servers :
       Signers(partials[s][i].user_pks) = Signers(partials[s][j].user_pks)

Opens(s) ==
  \/ round_output[s] # None
  \/ \E t \in Threads : Host[t] = s /\ activity[t].at \in {"combine", "subtract"}

\* The thread whose call goes on to combine an agreed table goes on to open it.
LEMMA OpensStep ==
  ASSUME IInv, Current, Relaying, Cumulative, IsFiniteSet(Servers),
         [SerialNext]_vars, NEW s \in Servers, Agreed(s) => Opens(s), Agreed(s)'
  PROVE  Opens(s)'
<1>t. activity \in [Threads -> Activities] /\ partials \in [Servers -> Tables]
      /\ round_output \in [Servers -> Option(RoundBroadcast)]
  BY DEF IInv, TypeOK
<1>1. CASE UNCHANGED <<partials, round_output, activity>>
  BY <1>1 DEF Agreed, Opens
<1>2. ASSUME NEW q \in Servers, NEW r \in Rounds, advance_to_round(q, r)
      PROVE  Opens(s)'
  <2>1. /\ partials' = [partials EXCEPT ![q] = EmptyMap]
        /\ round_output' = [round_output EXCEPT ![q] = None] /\ UNCHANGED activity
    BY <1>2 DEF advance_to_round, EnterRound
  <2>2. CASE q = s
    <3>1. Keys(partials'[s]) = {}
      BY <1>t, <2>1, <2>2 DEF Keys, EmptyMap
    <3> QED BY <3>1 DEF Agreed
  <2>3. CASE q # s
    BY <1>t, <2>1, <2>3 DEF Agreed, Opens
  <2> QED BY <2>2, <2>3
\* A step of one thread that leaves the tables alone.
<1>3. ASSUME NEW t \in Threads, UNCHANGED <<partials, round_output>>,
             NEW a, Become(t, a),
             Agreed(s) /\ Host[t] = s /\ activity[t].at \in {"combine", "subtract"}
               => a.at \in {"combine", "subtract"}
      PROVE  Opens(s)'
  <2>1. Agreed(s)
    BY <1>3 DEF Agreed
  <2>2. CASE round_output[s] # None
    BY <1>3, <2>2 DEF Opens
  <2>3. ASSUME NEW u \in Threads, Host[u] = s, activity[u].at \in {"combine", "subtract"}
        PROVE  Opens(s)'
    <3>1. activity'[u].at \in {"combine", "subtract"}
      BY <1>t, <1>3, <2>1, <2>3, ActivityAfter
    <3> QED BY <2>3, <3>1 DEF Opens
  <2> QED BY <2>1, <2>2, <2>3 DEF Opens
<1>4. ASSUME NEW t \in Threads, Call(t), Quiescent(Host[t])
      PROVE  Opens(s)'
  <2>1. PICK a : Become(t, a) /\ UNCHANGED <<partials, round_output>>
    BY <1>4 DEF Call, process_client_message, finalize_partial_for_direct_aggregate,
                process_aggregate_message, process_signed_partial_decryption_message,
                process_partial_decryption_message, state
  <2>2. activity[t].at \notin {"combine", "subtract"}
    BY <1>4 DEF Quiescent, Idle
  <2> QED BY <1>3, <2>1, <2>2
<1>5. ASSUME NEW t \in Threads,
             \/ fold_client_message(t)
             \/ read_round(t) \/ unblind_aggregate(t) \/ store_own_partial(t)
             \/ read_peers(t) \/ check_round(t)
      PROVE  Opens(s)'
  <2>1. UNCHANGED <<partials, round_output>> /\ \E a : Become(t, a)
    BY <1>5 DEF fold_client_message, read_round, unblind_aggregate, store_own_partial,
                read_peers, check_round, state
  <2>2. activity[t].at \notin {"combine", "subtract"}
    BY <1>5 DEF fold_client_message, read_round, unblind_aggregate, store_own_partial,
                read_peers, check_round
  <2> QED BY <1>3, <2>1, <2>2
<1>6. ASSUME NEW t \in Threads, insert_partial(t)
      PROVE  Opens(s)'
  <2> DEFINE p     == activity[t].msg
             table == [partials[Host[t]] EXCEPT ![p.server_id] = p]
             next  == [at |-> "combine", msgs |-> table]
  <2>0. activity[t].at = "insert" /\ Host[t] \in Servers
    BY <1>6, HostAssumption DEF insert_partial
  <2>1. \/ Become(t, Idle) /\ UNCHANGED <<partials, round_output>>
        \/ /\ partials' = [partials EXCEPT ![Host[t]] = table]
           /\ UNCHANGED round_output
           /\ Become(t, IF AllArrived(table, activity[t].expected) THEN next ELSE Idle)
    BY <1>6 DEF insert_partial
  <2>2. CASE Become(t, Idle) /\ UNCHANGED <<partials, round_output>>
    BY <1>3, <2>0, <2>2
  <2>3. CASE /\ partials' = [partials EXCEPT ![Host[t]] = table]
             /\ UNCHANGED round_output
             /\ Become(t, IF AllArrived(table, activity[t].expected) THEN next ELSE Idle)
    <3>1. CASE Host[t] = s
      <4>1. partials'[s] = table
        BY <1>t, <2>3, <3>1
      <4>2. activity[t].expected \in SUBSET Servers
        BY <1>t, <2>0, ActivityFields
      <4>3. Keys(table) = Servers
        BY <4>1 DEF Agreed
      <4>4. AllArrived(table, activity[t].expected)
        <5>1. Cardinality(activity[t].expected) <= Cardinality(Servers)
          BY <4>2, FS_Subset
        <5>2. Cardinality(activity[t].expected) \in Nat /\ Cardinality(Servers) \in Nat
          BY <4>2, FS_Subset, FS_CardinalityType
        <5> HIDE DEF table
        <5> QED BY <4>3, <5>1, <5>2 DEF AllArrived
      <4>5. next.at = "combine"
        OBVIOUS
      <4> HIDE DEF next, table
      <4>6. activity'[t] = next
        BY <1>t, <2>3, <4>4, ActivityAfter
      <4> QED BY <3>1, <4>5, <4>6 DEF Opens
    <3>2. CASE Host[t] # s
      <4>1. partials'[s] = partials[s] /\ round_output' = round_output
        BY <1>t, <2>0, <2>3, <3>2
      <4>2. \A u \in Threads : u # t => activity'[u] = activity[u]
        BY <1>t, <2>3, ActivityAfter
      <4> QED BY <3>2, <4>1, <4>2 DEF Agreed, Opens
    <3> QED BY <3>1, <3>2
  <2> QED BY <2>1, <2>2, <2>3
<1>7. ASSUME NEW t \in Threads, unblind_partial_messages(t)
      PROVE  Opens(s)'
  <2> DEFINE msgs == activity[t].msgs
  <2>1. /\ activity[t].at = "combine" /\ UNCHANGED <<partials, round_output>>
        /\ Become(t, Idle) \/ \E a : Become(t, a)
        /\ CanCombine(msgs) => \E a : Become(t, a) /\ a.at = "subtract"
    BY <1>7 DEF unblind_partial_messages, state
  <2>2. Agreed(s)
    BY <2>1 DEF Agreed
  <2>3. CASE Host[t] = s
    <3>1. msgs = partials[s]
      BY <2>1, <2>3 DEF Relaying, CombinesTable
    <3>2. SoundTable(partials[s])
      BY DEF IInv, Sound, TablesSound
    <3>3. partials[s] \in Tables /\ Keys(partials[s]) = Servers
      BY <1>t, <2>2 DEF Agreed
    <3>4. \A i \in Servers : Relayed(partials[s][i])
      BY <3>3 DEF Relaying, TablesRelayed
    <3>5. \A i \in Servers :
            partials[s][i].original_aggregate.round_number = current_round[s]
      BY <3>3 DEF Current, TablesCurrent, OfCurrent
    <3>6. \A i, j \in Servers :
            Signers(partials[s][i].user_pks) = Signers(partials[s][j].user_pks)
      BY <2>2 DEF Agreed
    <3>7. CanCombine(msgs)
      BY <3>1, <3>2, <3>3, <3>4, <3>5, <3>6, AgreedCombine
    <3> QED BY <1>3, <2>1, <3>7
  <2>4. CASE Host[t] # s
    BY <1>3, <2>1, <2>4
  <2> QED BY <2>3, <2>4
<1>8. ASSUME NEW t \in Threads, subtract_share(t)
      PROVE  Opens(s)'
  <2>1. UNCHANGED <<partials, round_output>> /\ \E a : Become(t, a) /\ a.at = "subtract"
    BY <1>8 DEF subtract_share, state
  <2> QED BY <1>3, <2>1
<1>9. ASSUME NEW t \in Threads, store_round_output(t)
      PROVE  Opens(s)'
  <2> DEFINE a   == activity[t]
             out == [round_number   |-> a.agg.round_number,
                     auction_vector |-> a.auction_vector,
                     message_vector |-> a.message_vector]
  <2>1. /\ round_output' = [round_output EXCEPT ![Host[t]] = out]
        /\ Become(t, Idle) /\ UNCHANGED partials
    BY <1>9 DEF store_round_output
  <2>2. CASE Host[t] = s
    <3>1. /\ a.agg \in AggregatedClientMessages
          /\ a.auction_vector \in AuctionVector /\ a.message_vector \in MessageVector
      BY <1>t, <1>9, ActivityFields DEF store_round_output
    <3>2. out \in RoundBroadcast
      BY <3>1 DEF RoundBroadcast, AggregatedClientMessages
    <3> HIDE DEF out
    <3>3. out # None /\ round_output'[s] = out
      BY <1>t, <2>1, <2>2, <3>2, OutputAssumption
    <3> QED BY <3>3 DEF Opens
  <2>3. CASE Host[t] # s
    <3>1. round_output'[s] = round_output[s]
      BY <1>t, <2>1, <2>3, HostAssumption
    <3>2. \A u \in Threads : u # t => activity'[u] = activity[u]
      BY <1>t, <2>1, ActivityAfter
    <3> QED BY <2>1, <2>3, <3>1, <3>2 DEF Agreed, Opens
  <2> QED BY <2>2, <2>3
<1>10. ASSUME NEW q \in Servers, Administer(q)
       PROVE  Opens(s)'
  BY <1>1, <1>2, <1>10 DEF Administer, register_client, deregister_client,
     register_peer_server, state
<1>11. CASE UNCHANGED vars
  BY <1>1, <1>11 DEF vars, state
<1> QED BY <1>4, <1>5, <1>6, <1>7, <1>8, <1>9, <1>10, <1>11 DEF SerialNext, Continue

\* "Once all partials have arrived, returns the reconstructed RoundBroadcast": a
\* server that has the partials of all for the same clients has opened them or
\* is about to, if the aggregates of a round extend each other.  Of messages that
\* were folded by each server on its own this is not so.
THEOREM AgreedAreOpened ==
  ASSUME Cumulative, IsFiniteSet(Servers)
  PROVE  SerialSpec => []AgreedPartialsOpen
<1> DEFINE J == IInv /\ Current /\ Relaying /\ \A s \in Servers : Agreed(s) => Opens(s)
<1>1. Init => J
  <2> SUFFICES ASSUME Init PROVE J
    OBVIOUS
  <2>1. \A s \in Servers : Keys(partials[s]) = {}
    BY DEF Init, NewState, Keys, EmptyMap
  <2>2. \A s \in Servers : ~Agreed(s)
    BY <2>1 DEF Agreed
  <2> QED BY <2>2, SerialInductive, RelayedInit
<1>2. ASSUME J, [SerialNext]_vars PROVE J'
  <2>1. IInv' /\ Current'
    BY <1>2, SerialInductive
  <2>2. Relaying'
    BY <1>2, RelayedStep DEF IInv, Current
  <2>3. ASSUME NEW s \in Servers, Agreed(s)' PROVE Opens(s)'
    BY <1>2, <2>3, OpensStep
  <2> QED BY <2>1, <2>2, <2>3
<1>3. J => AgreedPartialsOpen
  <2>1. \A s \in Servers : (Agreed(s) => Opens(s)) <=>
          (LET table == partials[s]
           IN  /\ Keys(table) = Servers
               /\ \A i, j \in Servers : Signers(table[i].user_pks) = Signers(table[j].user_pks)
               => \/ round_output[s] # None
                  \/ \E t \in Threads :
                       Host[t] = s /\ activity[t].at \in {"combine", "subtract"})
    BY DEF Agreed, Opens
  <2> QED BY <2>1 DEF AgreedPartialsOpen
<1> QED BY <1>1, <1>2, <1>3, PTL DEF SerialSpec

-----------------------------------------------------------------------------
(***************************************************************************)
(* The rounds and phases that hosts schedule, of round.rs.                 *)
(***************************************************************************)
CONSTANT MaxNumber

Phases == INSTANCE Round

\* is_after orders all rounds: of two that differ one is after the other, none
\* is after itself, and what is after a later round is after an earlier one.
THEOREM IsAfterOrders ==
  ASSUME NEW q \in Phases!Rounds, NEW r \in Phases!Rounds, NEW s \in Phases!Rounds
  PROVE  /\ ~Phases!is_after(r, r)
         /\ q # r => Phases!is_after(q, r) \/ Phases!is_after(r, q)
         /\ Phases!is_after(q, r) /\ Phases!is_after(r, s) => Phases!is_after(q, s)
<1>1. ~Phases!is_after(r, r)
  BY DEF Phases!is_after, Phases!Rounds, Phases!RoundContext
<1>2. ASSUME q # r PROVE Phases!is_after(q, r) \/ Phases!is_after(r, q)
  <2>1. q.number # r.number \/ q.context # r.context
    BY <1>2 DEF Phases!Rounds
  <2> QED
    BY <2>1 DEF Phases!is_after, Phases!Rounds, Phases!RoundContext
<1>3. Phases!is_after(q, r) /\ Phases!is_after(r, s) => Phases!is_after(q, s)
  BY DEF Phases!is_after, Phases!Rounds, Phases!RoundContext
<1> QED
  BY <1>1, <1>2, <1>3

\* advance gives the next round in this order: it is after r, and there is none
\* in between; the phases do not go back when the number goes on.
THEOREM AdvanceIsNext ==
  ASSUME NEW r \in Phases!Rounds, r.number < MaxNumber, MaxNumber \in Int
  PROVE  /\ Phases!advance(r) \in Phases!Rounds
         /\ Phases!is_after(Phases!advance(r), r)
         /\ \A s \in Phases!Rounds :
              ~(Phases!is_after(s, r) /\ Phases!is_after(Phases!advance(r), s))
<1>1. CASE r.context = Phases!ServerLeader
  <2>1. Phases!advance(r) = [number |-> r.number + 1, context |-> Phases!Client]
    BY <1>1 DEF Phases!advance, Phases!next, Phases!ServerLeader, Phases!Client
  <2> QED
    BY <1>1, <2>1 DEF Phases!is_after, Phases!Rounds, Phases!RoundContext,
                    Phases!ServerLeader, Phases!Client
<1>2. CASE r.context # Phases!ServerLeader
  <2>1. Phases!advance(r) = [number |-> r.number, context |-> r.context + 1]
    BY <1>2 DEF Phases!advance, Phases!next, Phases!ServerLeader, Phases!Rounds,
                    Phases!RoundContext
  <2> QED
    BY <1>2, <2>1 DEF Phases!is_after, Phases!Rounds, Phases!RoundContext,
                    Phases!ServerLeader
<1> QED
  BY <1>1, <1>2
=============================================================================
