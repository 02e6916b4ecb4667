----------------------------- MODULE MCOneRound -----------------------------
(***************************************************************************)
(* An instance of OneRound for TLC: two clients and two servers.           *)
(***************************************************************************)
EXTENDS OneRound

CONSTANTS s1, s2, c1, c2

Config(max) == [estimated_messages |-> 1, max_payload_bytes |-> max]

\* With two bytes to a field element, Base and Wide have tables of one length
\* and Small a shorter one.
Small == Config(1)
Base  == Config(2)
Wide  == Config(3)

AllConfigs == {Small, Base, Wide}

\* A payload as long as Base allows, which ends in zero; and the empty one.
OwnPayload(c) == IF c = c1 THEN <<1, 0>> ELSE <<>>

\* Everybody with all keys, one or none; a contribution of another round;
\* participants with another configuration.
SomeClientCalls ==
  [client : Clients, cfg : {Base}, round : {1},
   servers : {Servers, {s1}, {}}, payload : {None}]
  \cup {[client |-> c, cfg |-> Base, round |-> 1, servers |-> ss,
         payload |-> OwnPayload(c)] : c \in Clients, ss \in {Servers, {s1}, {}}}
  \cup {[client |-> c1, cfg |-> Base, round |-> 2, servers |-> ss,
         payload |-> OwnPayload(c1)] : ss \in {Servers, {}}}
  \cup {[client |-> c1, cfg |-> Small, round |-> 1, servers |-> Servers,
         payload |-> <<0>>],
        [client |-> c1, cfg |-> Wide, round |-> 1, servers |-> Servers,
         payload |-> <<1, 0, 1>>]}

\* Servers that know all clients, one or none; a share of another round; a
\* server with another configuration.
SomeServerCalls ==
  [server : Servers, cfg : {Base}, round : {1}, clients : {Clients, {c1}, {}}]
  \cup [server : {s2}, cfg : {Base}, round : {2}, clients : {Clients}]
  \cup [server : {s1}, cfg : {Small}, round : {1}, clients : {Clients}]

SomeCombineCalls == [cfg : {Base}, round : {1}, expected_servers : {1, 2}]

\* The entries they may put in.
AllEntries ==
  {<<k, Framed(x.cfg, x.payload)>> :
     k \in 1 .. MaxContributions,
     x \in {y \in SomeClientCalls : y.payload # None}}
=============================================================================
