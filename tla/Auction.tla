------------------------------- MODULE Auction -------------------------------
(***************************************************************************)
(* The auction: struct AuctionEngine of src/auction/auction.rs.  Bids are  *)
(* quantised to chunks, the best selection under the bandwidth is found by *)
(* dynamic programming, and the winners get consecutive slots of the next  *)
(* message vector.                                                         *)
(*                                                                         *)
(* The code keeps one row dp and updates it from the highest capacity      *)
(* down, so that dp[w - size] is still the value of the previous row: a    *)
(* row is a function of the row before it.  Its bit table keep[i][w] says  *)
(* that item i improved capacity w, which is to say that rows i and i + 1  *)
(* differ there.                                                           *)
(***************************************************************************)
EXTENDS Integers, SequencesExt

CONSTANTS
  total_bandwidth,    \* bytes of the next message vector
  min_message_size,   \* a smaller bid pays for this size
  chunk_bytes         \* granularity of the slots

ASSUME EngineAssumption ==
  /\ total_bandwidth \in Nat /\ min_message_size \in Nat
  /\ chunk_bytes \in Nat \ {0}

\* AuctionData and AuctionWinner.  A hash is a number: all the code does with
\* it is to compare it, for equality and for the order of the winners.
AuctionData(hash, weight, size) ==
  [message_hash |-> hash, weight |-> weight, size |-> size]

BidType == [message_hash : Nat, weight : Nat, size : Nat]

AuctionWinner(bid, at, size) ==
  [bid |-> bid, slot_idx |-> at, slot_size |-> size]

-----------------------------------------------------------------------------
(***************************************************************************)
(* run_auction, up to the knapsack.                                        *)
(***************************************************************************)
TotalChunks == total_bandwidth \div chunk_bytes

\* u32::div_ceil.
Chunks(bid) == (bid.size + chunk_bytes - 1) \div chunk_bytes

Clamp(bid) ==
  [bid EXCEPT !.size = IF @ < min_message_size THEN min_message_size ELSE @]

IsValid(bid) ==
  /\ bid.weight # 0
  /\ bid.size <= total_bandwidth
  /\ Chunks(bid) <= TotalChunks

Keep(valid, bid) == IF IsValid(bid) THEN Append(valid, bid) ELSE valid

ValidBids(bids) == FoldLeft(Keep, <<>>, [i \in DOMAIN bids |-> Clamp(bids[i])])

-----------------------------------------------------------------------------
(***************************************************************************)
(* knapsack.                                                               *)
(***************************************************************************)
Capacities == 0 .. TotalChunks

Include(row, bid, w) == row[w - Chunks(bid)] + bid.weight

\* Variant for the mutation runs: dp updated from the lowest capacity up, so
\* that an item meets values that contain it already.
NextRowUpwards(row, bid) ==
  LET up[w \in Capacities] ==
        IF Chunks(bid) <= w /\ up[w - Chunks(bid)] + bid.weight > row[w]
          THEN up[w - Chunks(bid)] + bid.weight ELSE row[w]
  IN  up

NextRow(row, bid) ==
  [w \in Capacities |->
    IF Chunks(bid) <= w /\ Include(row, bid, w) > row[w]
      THEN Include(row, bid, w) ELSE row[w]]

\* The rows of dp: after the first k items.
Rows(items) ==
  LET row[k \in 0 .. Len(items)] ==
        IF k = 0 THEN [w \in Capacities |-> 0] ELSE NextRow(row[k - 1], items[k])
  IN  row

\* Variant for the mutation runs: `>=` for `>`, so that an item which leaves the
\* value as it is gets its bit too.
VisitTies(rows, items, i, at) ==
  IF /\ Chunks(items[i]) <= at.w
     /\ Include(rows[i - 1], items[i], at.w) = rows[i][at.w]
    THEN [w |-> at.w - Chunks(items[i]), selected |-> at.selected \cup {i}]
    ELSE at

\* One step of the trace-back: items[i] is taken if it improved the capacity w
\* that is left.
Visit(rows, items, i, at) ==
  IF rows[i][at.w] # rows[i - 1][at.w]
    THEN [w |-> at.w - Chunks(items[i]), selected |-> at.selected \cup {i}]
    ELSE at

\* From the full capacity and the last item to the first: after k items.
TraceBack(items) ==
  LET rows == Rows(items)
      at[k \in 0 .. Len(items)] ==
        IF k = 0 THEN [w |-> TotalChunks, selected |-> {}]
                 ELSE Visit(rows, items, Len(items) - k + 1, at[k - 1])
  IN  at[Len(items)].selected

\* sort_by_key is stable.
Before(items, i, j) ==
  \/ items[i].message_hash < items[j].message_hash
  \/ items[i].message_hash = items[j].message_hash /\ i < j

Sorted(items, q) == \A j, k \in DOMAIN q : j < k => Before(items, q[j], q[k])

\* The selected items by message_hash.
SortedByHash(items) ==
  LET order == CHOOSE q \in SetToSeqs(TraceBack(items)) : Sorted(items, q)
  IN  [k \in DOMAIN order |-> items[order[k]]]

-----------------------------------------------------------------------------
(***************************************************************************)
(* run_auction, the slots.                                                 *)
(***************************************************************************)
\* `cur`: where the next slot begins.
End(winners) ==
  IF winners = <<>> THEN 0 ELSE Last(winners).slot_idx + Last(winners).slot_size

\* Variant for the mutation runs: `cur` advances by the bytes of the bid.
AddSlotTightly(winners, bid) ==
  Append(winners,
         AuctionWinner(bid, IF winners = <<>> THEN 0
                            ELSE Last(winners).slot_idx + Last(winners).bid.size,
                       Chunks(bid) * chunk_bytes))

AddSlot(winners, bid) ==
  Append(winners, AuctionWinner(bid, End(winners), Chunks(bid) * chunk_bytes))

run_auction(bids) ==
  IF TotalChunks = 0 THEN <<>>
  ELSE FoldLeft(AddSlot, <<>>, SortedByHash(ValidBids(bids)))

-----------------------------------------------------------------------------
(***************************************************************************)
(* What the auction promises.                                              *)
(***************************************************************************)
WeightOf(bids, chosen) ==
  SumFunctionOnSet([i \in DOMAIN bids |-> bids[i].weight], chosen)

ChunksOf(bids, chosen) ==
  SumFunctionOnSet([i \in DOMAIN bids |-> Chunks(bids[i])], chosen)

\* The selections that fit the bandwidth.
Selections(bids) ==
  {chosen \in SUBSET DOMAIN bids : ChunksOf(bids, chosen) <= TotalChunks}

BestWeight(bids) == Max({WeightOf(bids, chosen) : chosen \in Selections(bids)})

TotalWeight(winners) == SumFunction([k \in DOMAIN winners |-> winners[k].bid.weight])

\* The bytes of all slots, which clients take as the length of their vectors.
Allocated(winners) == SumFunction([k \in DOMAIN winners |-> winners[k].slot_size])

Slot(winner) == winner.slot_idx .. (winner.slot_idx + winner.slot_size - 1)
=============================================================================
