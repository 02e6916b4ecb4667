------------------------------ MODULE OneRound ------------------------------
(***************************************************************************)
(* The one-round session: client_contribute, server_contribute and         *)
(* combine_round of src/protocol/session/one_round.rs, with the payload    *)
(* encoder src/encoders/iblt_msg.rs and the field-additive primitive       *)
(* src/primitives/field_round.rs.                                          *)
(*                                                                         *)
(* The functions keep no state.  The participants call them with the keys  *)
(* and the configuration they have, and somebody passes what he got to     *)
(* combine_round: a contribution or a share may be lost, passed twice, be  *)
(* of another round, or made with keys the others do not expect.  The two  *)
(* slices are filled one after the other, since combine_round sees no more *)
(* of how they came about.  One call of combine_round is followed to its   *)
(* end, one vector per step.                                               *)
(*                                                                         *)
(* A vector is a formal sum, see Blinding.  A vector with a pad left in it *)
(* is random, and does not decode.                                         *)
(***************************************************************************)
EXTENDS Blinding, Sequences

CONSTANTS
  PACK_BYTES,        \* bytes in a field element
  Configs,           \* OneRoundConfig, of each participant
  ClientCalls,       \* arguments of client_contribute
  ServerCalls,       \* and of server_contribute
  CombineCalls,      \* and of combine_round, apart from the slices
  MaxContributions,  \* bounds on the slices
  MaxShares,
  None

VARIABLES
  clients,   \* the slice of contributions
  servers,   \* the slice of shares
  call,      \* combine_round at work, or None
  result     \* what it returned, or None

vars == <<clients, servers, call, result>>

-----------------------------------------------------------------------------
(***************************************************************************)
(* Payloads.  A payload is a sequence of bytes; one byte holds its length  *)
(* where the code takes four.                                              *)
(***************************************************************************)
LENGTH_PREFIX_BYTES == 1

xi(cfg) == (cfg.max_payload_bytes + LENGTH_PREFIX_BYTES + PACK_BYTES - 1) \div PACK_BYTES

\* iblt_field_element_count: four rows of 1.5 n cells, one at least.
encoded_len(cfg) ==
  LET delta == IF cfg.estimated_messages = 0 THEN 1
               ELSE (3 * cfg.estimated_messages + 1) \div 2
  IN  4 * delta * (2 + xi(cfg))

\* The xi values of an entry, one after the other.
Framed(cfg, payload) ==
  [k \in 1 .. xi(cfg) * PACK_BYTES |->
     IF k = 1 THEN Len(payload)
     ELSE IF k - LENGTH_PREFIX_BYTES \in DOMAIN payload
            THEN payload[k - LENGTH_PREFIX_BYTES] ELSE 0]

\* Variant for the mutation runs: a payload of the full length is refused.
FramingIsValidBelow(cfg, frame) == frame[1] < cfg.max_payload_bytes

FramingIsValid(cfg, frame) == frame[1] <= cfg.max_payload_bytes

Unframed(frame) ==
  SubSeq(frame, LENGTH_PREFIX_BYTES + 1, LENGTH_PREFIX_BYTES + frame[1])

Fits(cfg, payload) == Len(payload) <= cfg.max_payload_bytes

\* Tables of one length have one layout: the participants differ in the limit
\* on payloads at most.
ASSUME ConfigAssumption ==
  /\ PACK_BYTES \in Nat \ {0}
  /\ \A cfg \in Configs : cfg.estimated_messages \in Nat /\ cfg.max_payload_bytes \in Nat
  /\ \A cfg, other \in Configs : cfg.estimated_messages = other.estimated_messages

\* The arguments have their types, and the entries made of them are drafts.
ASSUME CallAssumption ==
  /\ MaxContributions \in Nat /\ None \notin Drafts
  /\ \A x \in ClientCalls :
       /\ x.client \in Clients /\ x.cfg \in Configs /\ x.round \in Rounds
       /\ x.servers \subseteq Servers
       /\ x.payload # None =>
            /\ x.payload \in Seq(Nat)
            /\ Fits(x.cfg, x.payload) =>
                 \A key \in 1 .. MaxContributions : <<key, Framed(x.cfg, x.payload)>> \in Drafts
  /\ \A y \in ServerCalls :
       /\ y.server \in Servers /\ y.cfg \in Configs /\ y.round \in Rounds
       /\ y.clients \subseteq Clients

-----------------------------------------------------------------------------
(***************************************************************************)
(* Contributions and shares.  The random key of an entry tells it from all *)
(* others: here it is the place of the contribution in the slice.          *)
(***************************************************************************)
ClientContribution(x, key) ==
  [signer |-> x.client, cfg |-> x.cfg, round |-> x.round,
   shared_secrets |-> x.servers, payload |-> x.payload,
   entry |-> IF x.payload = None THEN None ELSE <<key, Framed(x.cfg, x.payload)>>]

ServerShare(y) ==
  [server_id |-> y.server, cfg |-> y.cfg, round |-> y.round,
   shared_secrets |-> y.clients]

\* encode_payload or encode_empty, then client_blind.
Blinded(m) ==
  Sum((IF m.entry = None THEN {} ELSE {Content(m.signer, m.round, m.entry)})
        \cup PadSet({m.signer}, m.shared_secrets, m.round))

\* server_share: the pads of every client the server has a secret with.
Share(m) == Sum(PadSet(m.shared_secrets, {m.server_id}, m.round))

Init == clients = <<>> /\ servers = <<>> /\ call = None /\ result = None

Gathering == call = None /\ result = None

client_contribute(x) ==
  /\ Gathering /\ servers = <<>> /\ Len(clients) < MaxContributions
  /\ x.payload # None => Fits(x.cfg, x.payload)
  /\ clients' = Append(clients, ClientContribution(x, Len(clients) + 1))
  /\ UNCHANGED <<servers, call, result>>

server_contribute(y) ==
  /\ Gathering /\ Len(servers) < MaxShares
  /\ servers' = Append(servers, ServerShare(y))
  /\ UNCHANGED <<clients, call, result>>

\* What was delivered is delivered again.  (A share made again is the same.)
deliver_again(i) ==
  /\ Gathering /\ servers = <<>> /\ Len(clients) < MaxContributions
  /\ clients' = Append(clients, clients[i])
  /\ UNCHANGED <<servers, call, result>>

-----------------------------------------------------------------------------
(***************************************************************************)
(* combine_round.                                                          *)
(***************************************************************************)
ServersAreDistinct ==
  \A i, j \in DOMAIN servers : servers[i].server_id = servers[j].server_id => i = j

\* Variant for the mutation runs: only the shares' round is looked at.
RoundsMatchForShares(r) == \A j \in DOMAIN servers : servers[j].round = r

RoundsMatch(r) ==
  /\ \A i \in DOMAIN clients : clients[i].round = r
  /\ \A j \in DOMAIN servers : servers[j].round = r

\* Variant for the mutation runs: only the contributions are measured.
LengthsMatchForClients(len) ==
  \A i \in DOMAIN clients : encoded_len(clients[i].cfg) = len

LengthsMatch(len) ==
  /\ \A i \in DOMAIN clients : encoded_len(clients[i].cfg) = len
  /\ \A j \in DOMAIN servers : encoded_len(servers[j].cfg) = len

\* Variant for the mutation runs: the shares are only counted.
CanCombineRepeated(z) ==
  /\ Len(servers) = z.expected_servers
  /\ RoundsMatch(z.round)
  /\ LengthsMatch(encoded_len(z.cfg))

CanCombine(z) ==
  /\ Len(servers) = z.expected_servers
  /\ ServersAreDistinct
  /\ RoundsMatch(z.round)
  /\ LengthsMatch(encoded_len(z.cfg))

\* The call z ends with a status and, if it is "Ok", with payloads.
Return(z, status, payloads) ==
  /\ result' = [args |-> z, status |-> status, payloads |-> payloads]
  /\ call'   = None

combine_round(z) ==
  /\ Gathering
  /\ IF CanCombine(z)
     THEN /\ call' = [args |-> z, summed |-> 0, subtracted |-> 0, dst |-> ZeroVector]
          /\ UNCHANGED result
     ELSE Return(z, "Refused", None)
  /\ UNCHANGED <<clients, servers>>

\* Both loops assert that the lengths agree before they start.
LengthsAgree(cfg) == encoded_len(cfg) = encoded_len(call.args.cfg)

aggregate_client ==
  /\ call # None /\ call.summed < Len(clients)
  /\ LET m == clients[call.summed + 1]
     IN  IF LengthsAgree(m.cfg)
         THEN /\ call' = [args |-> call.args, summed |-> call.summed + 1, subtracted |-> 0,
                          dst |-> Add(call.dst, Blinded(m))]
              /\ UNCHANGED result
         ELSE Return(call.args, "Panic", None)
  /\ UNCHANGED <<clients, servers>>

combine_partial ==
  /\ call # None /\ call.summed = Len(clients) /\ call.subtracted < Len(servers)
  /\ LET m == servers[call.subtracted + 1]
     IN  IF LengthsAgree(m.cfg)
         THEN /\ call' = [args |-> call.args, summed |-> call.summed,
                          subtracted |-> call.subtracted + 1,
                          dst |-> Sub(call.dst, Share(m))]
              /\ UNCHANGED result
         ELSE Return(call.args, "Panic", None)
  /\ UNCHANGED <<clients, servers>>

Recovered == call # None /\ call.summed = Len(clients) /\ call.subtracted = Len(servers)

\* The entries left in the sum, each as often as it says.
Entries   == {x \in Contents : call.dst[x] # 0}
NoPadLeft == \A x \in Pads : call.dst[x] = 0
EachOnce  == \A x \in Entries : call.dst[x] = 1

\* How often each payload occurs in the frames of a set of contents.
Unframe(contents) ==
  LET PayloadOf(x) == Unframed(x[4][2])
  IN  [p \in {PayloadOf(x) : x \in contents} |->
         Cardinality({x \in contents : PayloadOf(x) = p})]

\* Peeling (see Iblt) gets through if no two entries are in each other's way in
\* every cell, which is up to their keys; an entry that is there twice is.
decode_round ==
  /\ Recovered /\ NoPadLeft /\ EachOnce
  /\ IF \A x \in Entries : FramingIsValid(call.args.cfg, x[4][2])
     THEN Return(call.args, "Ok", Unframe(Entries))
     ELSE Return(call.args, "BadFraming", None)
  /\ UNCHANGED <<clients, servers>>

fail_to_decode ==
  /\ Recovered
  /\ ~NoPadLeft \/ ~EachOnce \/ Cardinality(Entries) > 1
  /\ Return(call.args, "IbltError", None)
  /\ UNCHANGED <<clients, servers>>

Next ==
  \/ \E x \in ClientCalls : client_contribute(x)
  \/ \E i \in DOMAIN clients : deliver_again(i)
  \/ \E y \in ServerCalls : server_contribute(y)
  \/ \E z \in CombineCalls : combine_round(z)
  \/ aggregate_client \/ combine_partial \/ decode_round \/ fail_to_decode

Spec == Init /\ [][Next]_vars

-----------------------------------------------------------------------------
(***************************************************************************)
(* Properties.                                                             *)
(***************************************************************************)
Returned(status) == result # None /\ result.status = status

\* Types; and combine_round returns: the assertions of the primitive, which
\* would be a panic in the middle of it, hold of whatever it is given.
TypeOK ==
  /\ \A i \in DOMAIN clients :
       /\ clients[i].signer \in Clients /\ clients[i].round \in Rounds
       /\ clients[i].shared_secrets \subseteq Servers
  /\ \A j \in DOMAIN servers :
       /\ servers[j].server_id \in Servers /\ servers[j].round \in Rounds
       /\ servers[j].shared_secrets \subseteq Clients
  /\ call # None => /\ call.summed \in 0 .. Len(clients)
                    /\ call.subtracted \in 0 .. Len(servers)
                    /\ call.dst \in AuctionVector
  /\ result # None => result.status \in {"Ok", "Refused", "IbltError", "BadFraming"}

\* The contributions of client c blinded for server s, and the shares of s that
\* count c.
BlindedFor(c, s) ==
  {i \in DOMAIN clients : clients[i].signer = c /\ s \in clients[i].shared_secrets}

CountedBy(c, s) ==
  {j \in DOMAIN servers : servers[j].server_id = s /\ c \in servers[j].shared_secrets}

\* A round opens only if it is whole: each client a server counts has taken
\* part, once, and each server a client blinded for has given its share, in
\* which it counts the client.  Nothing else tells combine_round that a client
\* is missing, or that one is there twice: "The set of servers must match what
\* the servers use to compute their shares."
OpensOnlyWhole ==
  Returned("Ok") =>
    \A c \in Clients, s \in Servers :
      /\ Cardinality(BlindedFor(c, s)) = Cardinality(CountedBy(c, s))
      /\ Cardinality(BlindedFor(c, s)) <= 1

\* What a round that opens yields is what its clients handed in for it, byte by
\* byte and as often as they did, and nothing of another round.
PayloadsArrive ==
  Returned("Ok") =>
    LET sent == {i \in DOMAIN clients : clients[i].payload # None}
    IN  /\ \A i \in DOMAIN clients : clients[i].round = result.args.round
        /\ DOMAIN result.payloads = {clients[i].payload : i \in sent}
        /\ \A p \in DOMAIN result.payloads :
             result.payloads[p] = Cardinality({i \in sent : clients[i].payload = p})

\* A round in which all do what they should: everybody contributes once, to
\* all servers, and every server counts everybody, with one configuration.
Complete(z) ==
  /\ \A c \in Clients : Cardinality({i \in DOMAIN clients : clients[i].signer = c}) = 1
  /\ \A s \in Servers : Cardinality({j \in DOMAIN servers : servers[j].server_id = s}) = 1
  /\ \A i \in DOMAIN clients :
       /\ clients[i].shared_secrets = Servers
       /\ clients[i].round = z.round /\ clients[i].cfg = z.cfg
  /\ \A j \in DOMAIN servers :
       /\ servers[j].shared_secrets = Clients
       /\ servers[j].round = z.round /\ servers[j].cfg = z.cfg
  /\ z.expected_servers = Cardinality(Servers)

\* Such a round opens: no check refuses it, no payload that client_contribute
\* took is found too long, and only keys that collide can keep it from peeling.
CompleteRoundOpens ==
  result # None /\ Complete(result.args) =>
    \/ result.status = "Ok"
    \/ /\ result.status = "IbltError"
       /\ Cardinality({i \in DOMAIN clients : clients[i].payload # None}) > 1
=============================================================================
