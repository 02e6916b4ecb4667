--------------------------- MODULE MCServerService ---------------------------
(***************************************************************************)
(* Instances of ServerService for TLC.                                     *)
(***************************************************************************)
EXTENDS ServerService, TLC

CONSTANTS s1, s2, c1, c2, t1, t2, t3, d1, d2, L, M, Odd

\* One thread per server; a second thread on the first server; two threads on
\* the only server.
TwoHosts   == (t1 :> s1) @@ (t2 :> s2)
ThreeHosts == TwoHosts @@ (t3 :> s1)
OneHost    == (t1 :> s1) @@ (t2 :> s1)

AllPeers == {<<s, s>> : s \in Servers}

Batch(pks, r) == AggregateOf(pks, r, [c \in Clients |-> d1], Servers, L)

\* One aggregate of all clients for each round.
OneBatch == {Batch(<<c1>>, r) : r \in Rounds}

\* A batch at a time, overlapping batches and a cumulative aggregate.
Batches == {Batch(pks, r) : pks \in {<<c1>>, <<c1, c2>>}, r \in Rounds}
             \cup {Batch(<<c2>>, 1)}

\* One message of each client for each round.
Messages == {Blind(c, r, d1, Servers, L) : c \in Clients, r \in Rounds}

\* One round's messages, with a second content of c1, and with clients that
\* know another roster, see another slot allocation, or are configured for
\* another auction size.
MixedMessages ==
  {Blind(c1, 1, d1, Servers, L), Blind(c1, 1, d2, Servers, L),
   Blind(c2, 1, d1, Servers, L), Blind(c2, 1, d1, {}, L),
   Blind(c2, 1, d1, Servers, M), Blind(c2, 1, d1, Servers, Odd)}

\* The state after every server has registered every client and every peer.
RegisteredInit ==
  /\ NewState
  /\ shared_secrets = [s \in Servers |-> Clients]
  /\ peer_pubkeys   = [s \in Servers |-> [i \in Servers |-> i]]

Advance(s) == \E r \in Rounds : advance_to_round(s, r)

\* From there the registries stay as they are.
RegisteredSpec ==
  /\ RegisteredInit
  /\ [][\/ \E t \in Threads : Call(t) \/ Continue(t)
        \/ \E s \in Servers : Advance(s)]_vars

\* The same, where c2 may be deregistered while a message is being folded.
LeavingSpec ==
  /\ RegisteredInit
  /\ [][\/ \E t \in Threads : Call(t) \/ Continue(t)
        \/ \E s \in Servers : Advance(s)
        \/ \E t \in Threads : activity[t].at = "fold" /\ deregister_client(Host[t], c2)]_vars

\* s1 is the leader, where the other server is registered sooner or later: it
\* only returns shares, and its clients come and go.
LeaderInit ==
  /\ NewState
  /\ shared_secrets = [s \in Servers |-> Clients]
  /\ peer_pubkeys   = [s \in Servers |-> IF s = s1 THEN [EmptyMap EXCEPT ![s] = s]
                                                 ELSE [i \in Servers |-> i]]

LeaderSpec ==
  /\ LeaderInit
  /\ [][\/ register_peer_server(s1, s2, s2)
        \/ \E c \in Clients : register_client(s2, c) \/ deregister_client(s2, c)
        \/ \E t \in Threads : Host[t] = s1 /\ Call(t)
        \/ \E t \in Threads : \E a \in Aggregations : process_aggregate_message(t, a)
        \/ \E t \in Threads : Continue(t)
        \/ \E s \in Servers : Advance(s)]_vars

\* The same, each server driven from one thread at a time.
RegisteredSerialSpec ==
  /\ RegisteredInit
  /\ [][\/ \E t \in Threads : Quiescent(Host[t]) /\ Call(t)
        \/ \E t \in Threads : Continue(t)
        \/ \E s \in Servers : Quiescent(s) /\ Advance(s)]_vars

\* Clients are registered first, peers at any time.
PeerlessInit ==
  /\ NewState
  /\ shared_secrets = [s \in Servers |-> Clients]
  /\ peer_pubkeys   = [s \in Servers |-> [EmptyMap EXCEPT ![s] = s]]

\* Driven so from there, with persistent callers.
SerialFairSpec ==
  /\ PeerlessInit
  /\ [][SerialNext /\ UNCHANGED shared_secrets]_vars
  /\ Fairness
=============================================================================
