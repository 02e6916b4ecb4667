------------------------------ MODULE Blinding ------------------------------
(***************************************************************************)
(* The algebra of a blinded round: src/crypto/blinding.rs and the vectors  *)
(* of src/protocol/messages.rs.                                            *)
(*                                                                         *)
(* A vector of field elements (or of bytes) is represented by the formal   *)
(* sum it was computed as.  Its terms are the contents a client put in     *)
(* and the PRF pads laid over them; two sums that differ as formal sums    *)
(* differ as vectors unless independent pads happen to collide.  The       *)
(* auction vector is a sum in F_p, so it keeps an integer coefficient for  *)
(* each term; the message vector is a sum under XOR, so it keeps the set   *)
(* of the terms that occur an odd number of times.  A client folded twice  *)
(* therefore has coefficient 2 in the former and vanishes from the latter, *)
(* which is what the arithmetic does.                                      *)
(***************************************************************************)
EXTENDS Integers, FiniteSets

CONSTANTS
  Clients,    \* signing keys of the clients
  Servers,    \* server ids; a server's signing key is identified with its id
  MaxRound,   \* the bound on round numbers (i64 in the code)
  RoundWrap,  \* rounds enter the pad derivation as u32: 2^32 in the code
  Drafts      \* the distinct contents one client may produce for one round

ASSUME RoundAssumption == MaxRound \in Nat /\ RoundWrap \in Nat \ {0}

Rounds == 1..MaxRound

\* `current_round as u32`, on the client (messager.rs blind) and the server.
PadRound(r) == r % RoundWrap

(***************************************************************************)
(* Terms.  One ECDH secret per (client, server) pair and one PRF key per   *)
(* (secret, u32 round) give one pad.  The domain byte keeps the pads of    *)
(* the two vectors apart; as the vectors are never mixed, the same names   *)
(* serve for both.                                                         *)
(***************************************************************************)
Content(c, r, d) == <<"content", c, r, d>>
Pad(c, s, r)     == <<"pad", c, s, PadRound(r)>>

Contents == {Content(c, r, d) : c \in Clients, r \in Rounds, d \in Drafts}
Pads     == {Pad(c, s, r) : c \in Clients, s \in Servers, r \in Rounds}
Term     == Contents \cup Pads

\* The pads the clients cs share with the servers ss in round r.
PadSet(cs, ss, r) == {Pad(c, s, r) : c \in cs, s \in ss}

(***************************************************************************)
(* Auction vectors: add_mod_slice and sub_mod_slice, coefficient-wise.     *)
(***************************************************************************)
AuctionVector == [Term -> Int]
ZeroVector    == [x \in Term |-> 0]
Sum(S)        == [x \in Term |-> IF x \in S THEN 1 ELSE 0]
Add(u, v)     == [x \in Term |-> u[x] + v[x]]
\* Variant for the mutation runs: the operands swapped.
SubSwapped(u, v) == [x \in Term |-> v[x] - u[x]]

Sub(u, v)     == [x \in Term |-> u[x] - v[x]]

(***************************************************************************)
(* Message vectors: xor_inplace is symmetric difference.                   *)
(***************************************************************************)
MessageVector == SUBSET Term
Xor(a, b)     == (a \ b) \cup (b \ a)
=============================================================================
