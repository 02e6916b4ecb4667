------------------------------ MODULE MCAuction ------------------------------
(***************************************************************************)
(* An instance of MessageRound for TLC: every list of bids up to a length. *)
(***************************************************************************)
EXTENDS MessageRound

CONSTANTS Hashes, Weights, Sizes

AllBids == {AuctionData(h, w, n) : h \in Hashes, w \in Weights, n \in Sizes}
=============================================================================
