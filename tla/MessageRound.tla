----------------------------- MODULE MessageRound -----------------------------
(***************************************************************************)
(* The auction and the message round it allocates, with the encoders as    *)
(* library functions: auction_iblt.rs and message_slots.rs of src/encoders *)
(* and src/primitives/xor_round.rs.  Bids are put into a table; those that *)
(* come out of it are given slots; the winners write their payloads, blind *)
(* their vectors, and what is left of the XOR of all is read slot by slot. *)
(*                                                                         *)
(* A byte is a set of unknowns, the exclusive or of two bytes what is in   *)
(* one of them: bit (k, 0, i) is byte i of winner k's payload, (k, s, i)   *)
(* byte i of the pad that winner k shares with server s.  The zero byte is *)
(* the empty set.                                                          *)
(***************************************************************************)
EXTENDS Auction, VectorSums

CONSTANTS
  Bids,        \* the bids there are
  Servers,     \* how many
  MaxBids,     \* bound on the bids of a round
  Threads,     \* what rayon::current_num_threads may be
  None

ASSUME RoundAssumption ==
  /\ Bids \subseteq BidType
  /\ None \notin Seq(SUBSET (Nat \X Nat \X Nat))
  /\ Servers \in Nat /\ MaxBids \in Nat /\ Threads \subseteq Nat \ {0}

VARIABLES
  bids,        \* the bids that the table yields, in its order
  winners,     \* AuctionWinners, or None before the auction
  vec_len,     \* the length that callers give to the message vectors
  written,     \* the payloads written, None where that failed (Overflow)
  vectors,     \* the blinded vectors of the winners
  payloads     \* what is read of the XOR of all, or None

vars == <<bids, winners, vec_len, written, vectors, payloads>>

-----------------------------------------------------------------------------
(***************************************************************************)
(* Vectors of bytes.                                                       *)
(***************************************************************************)
XorBytes(l, r) == (l \ r) \cup (r \ l)

\* xor_inplace, on vectors of one length.
XorInplace(l, r) == [i \in DOMAIN l |-> XorBytes(l[i], r[i])]

ZeroBytes(n) == [i \in 1 .. n |-> {}]

\* derive_xor_blinding_vector for one secret, and for several.
XorPad(k, s, n) == [i \in 1 .. n |-> {<<k, s, i>>}]

DeriveXorBlindingVector(secrets, n) ==
  FoldLeft(XorInplace, ZeroBytes(n),
           [j \in DOMAIN secrets |-> XorPad(secrets[j][1], secrets[j][2], n)])

ClientBlind(k, contents) ==
  XorInplace(contents,
    DeriveXorBlindingVector([s \in 1 .. Servers |-> <<k, s>>], Len(contents)))

ServerShare(s, n_clients, n) ==
  DeriveXorBlindingVector([k \in 1 .. n_clients |-> <<k, s>>], n)

\* The partial sums of the chunks are added to dst in order.
AggregateInto(dst, sources, n_threads) ==
  LET chunks == Chunked(sources, n_threads)
  IN  IF InParallel(sources, n_threads)
      THEN FoldLeft(XorInplace, dst,
             [k \in DOMAIN chunks |-> FoldLeft(XorInplace, ZeroBytes(Len(dst)), chunks[k])])
      ELSE FoldLeft(XorInplace, dst, sources)

CombinePartials(agg, partials) == FoldLeft(XorInplace, agg, partials)

-----------------------------------------------------------------------------
(***************************************************************************)
(* message_slots.rs.                                                       *)
(***************************************************************************)
\* Variant for the mutation runs: the last byte has to stay free.
FitsBelow(slot, payload, n) == slot + Len(payload) < n

\* checked_add and the comparison with the length of the vector.
Fits(slot, payload, n) == slot + Len(payload) <= n

\* A vector of zeros into which the payload is written at `slot`.
Written(slot, payload, n) ==
  [i \in 1 .. n |-> IF i - slot \in DOMAIN payload THEN payload[i - slot] ELSE {}]

\* read_slots: one winner's bytes, as far as the vector goes.
ReadSlot(vec, winner) ==
  LET end == winner.slot_idx + winner.slot_size
  IN  SubSeq(vec, winner.slot_idx + 1, IF end < Len(vec) THEN end ELSE Len(vec))

-----------------------------------------------------------------------------
Init ==
  /\ bids = <<>> /\ winners = None /\ vec_len = 0
  /\ written = <<>> /\ vectors = <<>> /\ payloads = None

\* insert_bid; that the table yields the bids inserted is what Iblt shows.
insert_bid(bid) ==
  /\ winners = None /\ Len(bids) < MaxBids
  /\ bids' = Append(bids, bid)
  /\ UNCHANGED <<winners, vec_len, written, vectors, payloads>>

\* decode_winners; callers take vectors of the length allocated, of the whole
\* bandwidth, or of one byte less than they should.
decode_winners ==
  LET ws == run_auction(bids)
  IN  /\ winners = None
      /\ winners' = ws
      /\ vec_len' \in {Allocated(ws), total_bandwidth, Allocated(ws) - 1} \cap Nat
      /\ bids'    = <<>>
      /\ UNCHANGED <<written, vectors, payloads>>

\* Winner k's client writes n bytes, and sends zeros if there is no room.
Payload(k, n) == [i \in 1 .. n |-> {<<k, 0, i>>}]

Next_k == Len(vectors) + 1

write_slot(n) ==
  /\ winners # None /\ Next_k \in DOMAIN winners /\ payloads = None
  /\ LET w == winners[Next_k]
         p == Payload(Next_k, n)
     IN  IF Fits(w.slot_idx, p, vec_len)
         THEN /\ written' = Append(written, p)
              /\ vectors' = Append(vectors, ClientBlind(Next_k, Written(w.slot_idx, p, vec_len)))
         ELSE /\ written' = Append(written, None)
              /\ vectors' = Append(vectors, ClientBlind(Next_k, ZeroBytes(vec_len)))
  /\ UNCHANGED <<bids, winners, vec_len, payloads>>

\* The vectors are summed up, the servers' shares taken off, the slots read.
read_slots(n_threads) ==
  /\ winners # None /\ Len(vectors) = Len(winners) /\ payloads = None
  /\ LET agg    == AggregateInto(ZeroBytes(vec_len), vectors, n_threads)
         shares == [s \in 1 .. Servers |-> ServerShare(s, Len(vectors), vec_len)]
         vec    == CombinePartials(agg, shares)
     IN  payloads' = [k \in DOMAIN winners |-> ReadSlot(vec, winners[k])]
  /\ UNCHANGED <<bids, winners, vec_len, written, vectors>>

\* A payload is no longer than what was bid for it; it may be shorter, and the
\* client may be gone.
PayloadLengths ==
  IF winners # None /\ Next_k \in DOMAIN winners
  THEN 0 .. winners[Next_k].bid.size ELSE {}

Next ==
  \/ \E bid \in Bids : insert_bid(bid)
  \/ decode_winners
  \/ \E n \in PayloadLengths : write_slot(n)
  \/ \E n \in Threads : read_slots(n)

Spec == Init /\ [][Next]_vars

-----------------------------------------------------------------------------
(***************************************************************************)
(* Properties.                                                             *)
(***************************************************************************)
\* The winners are worth as much as any selection of the valid bids that fits
\* the bandwidth: the rolling row and the keep bits of knapsack trace back to
\* an optimum.
Optimal ==
  winners = None => TotalWeight(run_auction(bids)) = BestWeight(ValidBids(bids))

\* The slots of run_auction follow each other without gap or overlap from byte
\* 0, so their sum, which clients take as the length of the message vector,
\* covers them; all fit the bandwidth, and each holds the whole bid.
SlotsPartitionVector ==
  winners # None =>
    LET length == Allocated(winners)
    IN  /\ length <= total_bandwidth
        /\ UNION {Slot(winners[k]) : k \in DOMAIN winners} = 0 .. (length - 1)
        /\ \A k \in DOMAIN winners :
             /\ winners[k].bid.size <= winners[k].slot_size
             /\ winners[k].bid.size >= min_message_size

\* One more bid never makes the auction worth less, and a bid that does not
\* make it worth more changes no slot: dp improves on strictly greater only,
\* so of equal selections the one that was there stays.
EarlierBidsPreferred ==
  [][Len(bids') > Len(bids) =>
       LET before == run_auction(bids)
           after  == run_auction(bids')
       IN  \/ TotalWeight(after) > TotalWeight(before)
           \/ after = before]_vars

\* What is read in a slot is what its winner wrote, then zeros, and nothing of
\* anybody else, however short the vectors are.  A payload is refused only if
\* the vectors are too short for its slot.
SlotsCarryPayloads ==
  payloads # None =>
    \A k \in DOMAIN winners :
      LET w == winners[k]
          p == IF written[k] = None THEN <<>> ELSE written[k]
      IN  /\ \A i \in DOMAIN payloads[k] :
               payloads[k][i] = IF i \in DOMAIN p THEN p[i] ELSE {}
          /\ Len(p) <= Len(payloads[k])
          /\ vec_len >= Allocated(winners) =>
               written[k] # None /\ Len(payloads[k]) = w.slot_size
=============================================================================
