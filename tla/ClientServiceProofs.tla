------------------------- MODULE ClientServiceProofs -------------------------
(***************************************************************************)
(* What a client does with the messages it is given, for any number of     *)
(* clients, rounds and messages, any order of the calls and any bids; what *)
(* the auction does with the bids is shown in AuctionProofs.               *)
(*                                                                         *)
(* What a client transmits, and what it keeps for the next round, depends  *)
(* on its own state only: that is the first invariant.  What is written    *)
(* where depends on the broadcasts as well, that of the round before and   *)
(* the auction of it: that is the second, History.                         *)
(***************************************************************************)
EXTENDS ClientService, AuctionProofs

-----------------------------------------------------------------------------
(***************************************************************************)
(* The inductive invariant.                                                *)
(***************************************************************************)
\* The part of the types that the arguments need; a client never goes back
\* behind a round it has made a message for.
BasicTypes ==
  /\ current_round \in [Clients -> Nat]
  /\ DOMAIN scheduled = Clients
  /\ \A c \in Clients : scheduled[c] # None => scheduled[c].auction_round \in Nat
  /\ \A x \in submitted : /\ x.signer \in Clients
                          /\ x.round_number \in Nat
                          /\ x.round_number <= current_round[x.signer]

\* A client that has transmitted a message in its round has none to transmit.
SentIsGone ==
  \A x \in submitted :
    x.writes # {} /\ x.round_number = current_round[x.signer]
      => Transmit(x.signer) = None

IInv == BasicTypes /\ SentIsGone /\ TransmittedOnce

-----------------------------------------------------------------------------
(***************************************************************************)
(* The operations.                                                         *)
(***************************************************************************)
LEMMA InvInit == Init => IInv
BY DEF Init, InitWith, IInv, BasicTypes, SentIsGone, TransmittedOnce

\* A step that leaves the rounds, the scheduled messages and the submissions
\* alone changes nothing of what is said here.
LEMMA Untouched ==
  ASSUME UNCHANGED <<current_round, scheduled, submitted>>
  PROVE  /\ IInv => IInv'
         /\ BidsAreHonoured => BidsAreHonoured'
BY DEF IInv, BasicTypes, SentIsGone, TransmittedOnce, Transmit, BidsAreHonoured,
       MadeForRound

\* The client still has a message it bid for in round r.
Held(c, r) ==
  \E z \in submitted :
    /\ z.signer = c /\ z.round_number = r /\ z.bid # None
    /\ scheduled[c] = [message |-> z.bid.message_hash, auction_round |-> r]

LEMMA HonouredMeansHeld ==
  ASSUME BidsAreHonoured, NEW y \in submitted, y.bid # None,
         current_round[y.signer] = y.round_number \/
         (current_round[y.signer] = y.round_number + 1 /\ ~MadeForRound(y.signer))
  PROVE  Held(y.signer, y.round_number)
BY DEF BidsAreHonoured, Held

LEMMA AdvanceKeeps ==
  ASSUME IInv, NEW c \in Clients, NEW r \in Rounds, advance_to_round(c, r)
  PROVE  /\ IInv'
         /\ BidsAreHonoured => BidsAreHonoured'
<1> USE ClientAssumption DEF advance_to_round
<1>1. r \in Nat /\ current_round[c] \in Nat /\ current_round[c] < r
  BY DEF IInv, BasicTypes
<1>2. /\ current_round'[c] = r
      /\ \A d \in Clients : d # c => current_round'[d] = current_round[d]
      /\ \A d \in Clients : d # c => scheduled'[d] = scheduled[d]
      /\ scheduled'[c] = scheduled[c] \/ scheduled'[c] = None
      /\ scheduled[c] # None /\ r <= scheduled[c].auction_round + 1
           => scheduled'[c] = scheduled[c]
  BY <1>1 DEF IInv, BasicTypes
<1>3. BasicTypes'
  <2>1. current_round' \in [Clients -> Nat] /\ DOMAIN scheduled' = Clients
    BY <1>1 DEF IInv, BasicTypes
  <2>2. \A d \in Clients : scheduled'[d] # None => scheduled'[d].auction_round \in Nat
    BY <1>2 DEF IInv, BasicTypes
  <2>3. \A x \in submitted : x.round_number <= current_round'[x.signer]
    BY <1>1, <1>2 DEF IInv, BasicTypes
  <2> QED BY <2>1, <2>2, <2>3 DEF IInv, BasicTypes
<1>4. \A x \in submitted : x.signer = c => x.round_number < r
  BY <1>1 DEF IInv, BasicTypes
<1>5. SentIsGone'
  BY <1>2, <1>4, <1>1 DEF IInv, BasicTypes, SentIsGone, Transmit
<1>6. TransmittedOnce'
  BY DEF IInv, TransmittedOnce
<1>7. ASSUME BidsAreHonoured, NEW y \in submitted, y.bid # None,
             current_round'[y.signer] = y.round_number \/
             (current_round'[y.signer] = y.round_number + 1 /\ ~MadeForRound(y.signer)')
      PROVE  Held(y.signer, y.round_number)'
  <2>1. /\ y.signer \in Clients /\ y.round_number \in Nat
        /\ y.round_number <= current_round[y.signer]
    BY DEF IInv, BasicTypes
  <2>2. CASE y.signer # c
    BY <1>2, <1>7, <2>1, <2>2, HonouredMeansHeld DEF Held, MadeForRound
  <2>3. CASE y.signer = c
    <3>1. current_round[c] = y.round_number /\ r = y.round_number + 1
      BY <1>1, <1>2, <1>7, <2>1, <2>3
    <3>2. Held(c, y.round_number)
      BY <1>7, <2>3, <3>1, HonouredMeansHeld
    <3>3. PICK z \in submitted :
            /\ z.signer = c /\ z.round_number = y.round_number /\ z.bid # None
            /\ scheduled[c] = [message |-> z.bid.message_hash,
                               auction_round |-> y.round_number]
      BY <3>2 DEF Held
    <3>4. scheduled[c] # None => scheduled'[c] = scheduled[c]
      BY <1>1, <1>2, <3>1, <3>3
    <3>5. scheduled'[c] = scheduled[c]
      BY <1>2, <3>4
    <3> QED BY <2>3, <3>3, <3>5 DEF Held
  <2> QED BY <2>2, <2>3
<1>8. BidsAreHonoured => BidsAreHonoured'
  BY <1>7 DEF BidsAreHonoured, Held
<1> QED BY <1>3, <1>5, <1>6, <1>8 DEF IInv

\* What messages_for_current_round leaves in scheduled.
LEMMA NextScheduled ==
  ASSUME IInv, NEW c \in Clients, messages_for_current_round(c)
  PROVE  /\ pending[c] # None =>
              scheduled'[c] = [message |-> pending[c].message_hash,
                               auction_round |-> current_round[c]]
         /\ pending[c] = None =>
              IF Transmit(c) = None THEN scheduled'[c] = scheduled[c]
                                    ELSE scheduled'[c] = None
         /\ \A d \in Clients : d # c => scheduled'[d] = scheduled[d]
         /\ DOMAIN scheduled' = Clients
BY DEF messages_for_current_round, ScheduleNext, IInv, BasicTypes

LEMMA MessageKeepsTypes ==
  ASSUME IInv, NEW c \in Clients, messages_for_current_round(c)
  PROVE  BasicTypes'
<1>1. current_round' = current_round /\ current_round[c] \in Nat
  BY DEF messages_for_current_round, IInv, BasicTypes
<1>2. \A d \in Clients : scheduled'[d] # None => scheduled'[d].auction_round \in Nat
  <2>1. scheduled'[c] # None => scheduled'[c].auction_round \in Nat
    <3>1. CASE pending[c] # None
      <4>1. scheduled'[c] = [message |-> pending[c].message_hash,
                             auction_round |-> current_round[c]]
        BY <3>1, NextScheduled
      <4> QED BY <4>1, <1>1
    <3>2. CASE pending[c] = None
      BY <3>2, NextScheduled DEF IInv, BasicTypes
    <3> QED BY <3>1, <3>2
  <2>2. \A d \in Clients : d # c => scheduled'[d] = scheduled[d]
    BY NextScheduled
  <2>3. \A d \in Clients : scheduled[d] # None => scheduled[d].auction_round \in Nat
    BY DEF IInv, BasicTypes
  <2> QED BY <2>1, <2>2, <2>3
<1>3. \A x \in submitted' : /\ x.signer \in Clients /\ x.round_number \in Nat
                            /\ x.round_number <= current_round[x.signer]
  BY <1>1 DEF messages_for_current_round, ClientRoundMessage, IInv, BasicTypes
<1> QED BY <1>1, <1>2, <1>3, NextScheduled DEF IInv, BasicTypes

LEMMA MessageKeepsSent ==
  ASSUME IInv, NEW c \in Clients, messages_for_current_round(c)
  PROVE  SentIsGone' /\ TransmittedOnce'
<1> DEFINE new == ClientRoundMessage(c)
<1>1. /\ submitted' = submitted \cup {new} /\ current_round' = current_round
      /\ current_round[c] \in Nat
  BY DEF messages_for_current_round, IInv, BasicTypes
<1>2. /\ new.signer = c /\ new.round_number = current_round[c]
      /\ new.writes # {} => Transmit(c) # None
  BY DEF ClientRoundMessage
<1> HIDE DEF new
<1>3. Transmit(c)' = None
  <2>1. CASE pending[c] # None
    <3>1. scheduled'[c] = [message |-> pending[c].message_hash,
                           auction_round |-> current_round[c]]
      BY <2>1, NextScheduled
    <3>2. scheduled'[c].auction_round # current_round'[c] - 1
      BY <3>1, <1>1
    <3> QED BY <3>2 DEF Transmit
  <2>2. CASE pending[c] = None
    BY <2>2, <1>1, NextScheduled DEF Transmit
  <2> QED BY <2>1, <2>2
<1>4. \A d \in Clients : d # c => Transmit(d)' = Transmit(d)
  BY <1>1, NextScheduled DEF Transmit
<1>5. SentIsGone'
  BY <1>1, <1>2, <1>3, <1>4 DEF SentIsGone, IInv, BasicTypes
<1>6. ASSUME NEW x \in submitted, x.signer = c, x.round_number = current_round[c],
             x.writes # {}
      PROVE  new.writes = {}
  BY <1>2, <1>6 DEF IInv, SentIsGone
<1>7. TransmittedOnce'
  BY <1>1, <1>2, <1>6 DEF IInv, TransmittedOnce
<1> QED BY <1>5, <1>7

\* A message bid for stays scheduled, or the one now bid for takes its place.
LEMMA MessageHonours ==
  ASSUME IInv, BidsAreHonoured, NEW c \in Clients, messages_for_current_round(c)
  PROVE  BidsAreHonoured'
<1> DEFINE new == ClientRoundMessage(c)
<1>1. /\ submitted' = submitted \cup {new} /\ current_round' = current_round
      /\ current_round[c] \in Nat
  BY DEF messages_for_current_round, IInv, BasicTypes
<1>2. new.signer = c /\ new.round_number = current_round[c] /\ new.bid = pending[c]
  BY DEF ClientRoundMessage
<1> HIDE DEF new
<1>3. MadeForRound(c)'
  BY <1>1, <1>2 DEF MadeForRound
<1>4. ASSUME NEW y \in submitted', y.bid # None,
             current_round[y.signer] = y.round_number \/
             (current_round[y.signer] = y.round_number + 1 /\ ~MadeForRound(y.signer)')
      PROVE  Held(y.signer, y.round_number)'
  <2>1. CASE y.signer # c
    <3>1. y \in submitted /\ (~MadeForRound(y.signer)' => ~MadeForRound(y.signer))
      BY <1>1, <1>2, <2>1 DEF MadeForRound
    <3>2. scheduled'[y.signer] = scheduled[y.signer]
      BY <2>1, <3>1, NextScheduled DEF IInv, BasicTypes
    <3>3. Held(y.signer, y.round_number)
      BY <1>4, <3>1, HonouredMeansHeld
    <3> QED BY <1>1, <3>2, <3>3 DEF Held
  <2>2. CASE y.signer = c /\ pending[c] # None
    <3>1. y.round_number = current_round[c]
      BY <1>3, <1>4, <2>2
    <3>2. scheduled'[c] = [message |-> new.bid.message_hash,
                           auction_round |-> current_round[c]]
      BY <1>2, <2>2, NextScheduled
    <3> QED BY <1>1, <1>2, <2>2, <3>1, <3>2 DEF Held
  <2>3. CASE y.signer = c /\ pending[c] = None
    <3>1. y \in submitted /\ y.round_number = current_round[c]
      BY <1>1, <1>2, <1>3, <1>4, <2>3
    <3>2. Held(c, current_round[c])
      BY <1>4, <2>3, <3>1, HonouredMeansHeld
    <3>3. Transmit(c) = None
      BY <1>1, <3>2 DEF Held, Transmit
    <3>4. scheduled'[c] = scheduled[c]
      BY <2>3, <3>3, NextScheduled
    <3> QED BY <1>1, <2>3, <3>1, <3>2, <3>4 DEF Held
  <2> QED BY <2>1, <2>2, <2>3
<1> QED BY <1>1, <1>4 DEF BidsAreHonoured, Held

-----------------------------------------------------------------------------
(***************************************************************************)
(* The theorems.                                                           *)
(***************************************************************************)
LEMMA InvStep ==
  ASSUME IInv, [Next]_vars
  PROVE  /\ IInv'
         /\ BidsAreHonoured => BidsAreHonoured'
<1>1. ASSUME NEW c \in Clients, ClientStep(c)
      PROVE  /\ IInv'
             /\ BidsAreHonoured => BidsAreHonoured'
  <2>1. CASE \E r \in Rounds : advance_to_round(c, r)
    BY <2>1, AdvanceKeeps
  <2>2. CASE messages_for_current_round(c)
    BY <2>2, MessageKeepsTypes, MessageKeepsSent, MessageHonours DEF IInv
  <2>3. CASE \E s \in Servers : register_server(c, s) \/ deregister_server(c, s)
    BY <2>3, Untouched DEF register_server, deregister_server, state
  <2>4. CASE \E m \in MessagesOf[c], v \in BidValues :
               schedule_message_for_next_round(c, m, v)
    BY <2>4, Untouched DEF schedule_message_for_next_round
  <2>5. CASE \E r \in DOMAIN published : process_round_broadcast(c, r)
    BY <2>5, Untouched DEF process_round_broadcast
  <2> QED BY <1>1, <2>1, <2>2, <2>3, <2>4, <2>5 DEF ClientStep
<1>2. CASE \E r \in Rounds : Publish(r)
  BY <1>2, Untouched DEF Publish, state
<1>3. CASE UNCHANGED vars
  BY <1>3, Untouched DEF vars, state
<1> QED BY <1>1, <1>2, <1>3 DEF Next

\* A client transmits a message in one of the results of a round, however often
\* messages_for_current_round is called.
THEOREM OneTransmission == Spec => []TransmittedOnce
<1>1. IInv => TransmittedOnce
  BY DEF IInv
<1> QED BY <1>1, InvInit, InvStep, PTL DEF Spec

\* The client still holds a message it has bid for, the only one unless it was
\* asked twice, when the round comes in which the message may be sent.
THEOREM BidsHonoured == Spec => []BidsAreHonoured
<1> DEFINE J == IInv /\ BidsAreHonoured
<1>1. Init => J
  BY InvInit DEF Init, InitWith, BidsAreHonoured
<1>2. J /\ [Next]_vars => J'
  BY InvStep
<1>3. J => BidsAreHonoured
  OBVIOUS
<1> HIDE DEF J
<1> QED BY <1>1, <1>2, <1>3, PTL DEF Spec

-----------------------------------------------------------------------------
(***************************************************************************)
(* Bids and winners.                                                       *)
(***************************************************************************)
LEMMA BidsTyped ==
  /\ Bids \subseteq BidType
  /\ \A b \in Bids : b.message_hash \in Messages /\ b.size = SizeOf[b.message_hash]
  /\ \A m \in Messages, v \in BidValues :
       BidFor(m, v) \in Bids /\ BidFor(m, v).message_hash = m
  /\ \A m \in Messages : SizeOf[m] \in Nat /\ SizeOf[m] >= 1
<1>1. \A m \in Messages, v \in BidValues :
        /\ BidFor(m, v) = [message_hash |-> m, weight |-> v, size |-> SizeOf[m]]
        /\ m \in Nat /\ v \in Nat /\ SizeOf[m] \in Nat
  BY ClientAssumption DEF BidFor, AuctionData
<1>2. \A m \in Messages : SizeOf[m] \in Nat /\ SizeOf[m] >= 1
  BY ClientAssumption
<1>3. \A m \in Messages, v \in BidValues :
        /\ BidFor(m, v) \in BidType /\ BidFor(m, v).message_hash = m
        /\ BidFor(m, v).size = SizeOf[m]
  BY <1>1 DEF BidType
<1>4. \A b \in Bids : \E m \in Messages, v \in BidValues : b = BidFor(m, v)
  BY DEF Bids
<1>5. \A m \in Messages, v \in BidValues : BidFor(m, v) \in Bids
  BY DEF Bids
<1>6. \A b \in Bids : /\ b \in BidType /\ b.message_hash \in Messages
                      /\ b.size = SizeOf[b.message_hash]
  BY <1>3, <1>4
<1> QED BY <1>2, <1>3, <1>5, <1>6

\* What the auction of a broadcast gives a message room for.
WinnersOK(ws) ==
  /\ ws \in Seq(WinnerType) /\ DOMAIN ws = 1 .. Len(ws) /\ Len(ws) \in Nat
  /\ Allocated(ws) \in 0 .. total_bandwidth
  /\ \A k \in DOMAIN ws :
       /\ ws[k].bid.message_hash \in Messages
       /\ ws[k].slot_idx \in Nat /\ ws[k].slot_size \in Nat
       /\ SizeOf[ws[k].bid.message_hash] <= ws[k].slot_size
       /\ ws[k].slot_idx + ws[k].slot_size <= Allocated(ws)
  /\ \A j, k \in DOMAIN ws : j < k => ws[j].slot_idx + ws[j].slot_size <= ws[k].slot_idx

RecoveredOK(b) == b.bids = None \/ b.bids \in Seq(Bids)

LEMMA WinnersFacts ==
  ASSUME NEW b, RecoveredOK(b)
  PROVE  WinnersOK(Winners(b))
<1>1. CASE b.bids = None
  <2>1. Winners(b) = <<>>
    BY <1>1 DEF Winners
  <2>2. Allocated(<<>>) = 0 /\ 0 \in 0 .. total_bandwidth
    BY NothingRunsWell, EngineAssumption
  <2>3. <<>> \in Seq(WinnerType) /\ DOMAIN <<>> = {} /\ Len(<<>>) = 0 /\ 1 .. 0 = {}
    OBVIOUS
  <2> QED BY <2>1, <2>2, <2>3 DEF WinnersOK
<1>2. CASE b.bids # None
  <2> DEFINE bids == b.bids
             ws == run_auction(bids)
  <2>1. Winners(b) = ws /\ bids \in Seq(Bids)
    BY <1>2 DEF Winners, RecoveredOK
  <2> HIDE DEF bids
  <2>2. bids \in Seq(BidType) /\ \A i \in DOMAIN bids : bids[i] \in Bids
    BY <2>1, BidsTyped
  <2>3. RunsWell(bids, ws)
    BY <2>2, RunAuctionFacts
  <2> HIDE DEF ws
  <2>4. /\ ws \in Seq(WinnerType) /\ Allocated(ws) \in Nat /\ Allocated(ws) <= total_bandwidth
        /\ \A k \in DOMAIN ws :
              /\ \E i \in DOMAIN bids : ws[k].bid = Clamp(bids[i])
              /\ ws[k].bid.size <= ws[k].slot_size
              /\ ws[k].slot_idx + ws[k].slot_size <= Allocated(ws)
        /\ \A j, k \in DOMAIN ws : j < k => ws[j].slot_idx + ws[j].slot_size <= ws[k].slot_idx
    BY <2>3 DEF RunsWell
  <2>5. ASSUME NEW k \in DOMAIN ws
        PROVE  /\ ws[k].bid.message_hash \in Messages
               /\ ws[k].slot_idx \in Nat /\ ws[k].slot_size \in Nat
               /\ SizeOf[ws[k].bid.message_hash] <= ws[k].slot_size
    <3>1. PICK i \in DOMAIN bids : ws[k].bid = Clamp(bids[i])
      BY <2>4
    <3>2. ws[k] \in WinnerType
      BY <2>4
    <3>3. ws[k].slot_idx \in Nat /\ ws[k].slot_size \in Nat
      BY <3>2 DEF WinnerType
    <3>4. bids[i] \in BidType /\ bids[i].message_hash \in Messages
          /\ bids[i].size = SizeOf[bids[i].message_hash]
      BY <2>2, BidsTyped
    <3>5. SizeOf[bids[i].message_hash] \in Nat /\ SizeOf[bids[i].message_hash] >= 1
      BY <3>4, BidsTyped
    <3>6. ws[k].bid.message_hash = bids[i].message_hash /\ ws[k].bid.size = bids[i].size
      BY <3>1, <3>4, <3>5, ClampTyped, ClientAssumption
    <3> QED BY <2>4, <3>3, <3>4, <3>6
  <2>6. DOMAIN ws = 1 .. Len(ws) /\ Len(ws) \in Nat
    BY <2>4
  <2>7. Allocated(ws) \in 0 .. total_bandwidth
    BY <2>4, EngineAssumption
  <2>8. WinnersOK(ws)
    BY <2>4, <2>5, <2>6, <2>7 DEF WinnersOK
  <2> QED BY <2>1, <2>8
<1> QED BY <1>1, <1>2

\* The place of a message is a slot that it won, and it has one if it won.
LEMMA PlacedFacts ==
  ASSUME NEW b, RecoveredOK(b), NEW m
  PROVE  /\ \A w \in Placed(b, m) :
              /\ w.message = m /\ w = [at |-> w.at, message |-> m]
              /\ \E k \in DOMAIN Winners(b) :
                   Winners(b)[k].bid.message_hash = m /\ Winners(b)[k].slot_idx = w.at
         /\ (\E k \in DOMAIN Winners(b) : Winners(b)[k].bid.message_hash = m)
              => \E w : Placed(b, m) = {w} /\ w.message = m
         /\ (\A k \in DOMAIN Winners(b) : Winners(b)[k].bid.message_hash # m)
              => Placed(b, m) = {}
<1> DEFINE ws == Winners(b)
           ours == {k \in DOMAIN ws : ws[k].bid.message_hash = m}
           w == [at |-> ws[Min(ours)].slot_idx, message |-> m]
<1>1. DOMAIN ws = 1 .. Len(ws) /\ Len(ws) \in Nat
  BY WinnersFacts DEF WinnersOK
<1>2. Placed(b, m) = IF ours = {} THEN {} ELSE {w}
  BY DEF Placed
<1>3. w.message = m /\ w.at = ws[Min(ours)].slot_idx /\ w = [at |-> w.at, message |-> m]
  OBVIOUS
<1>4. ours \in SUBSET (1 .. Len(ws)) /\ \A k \in ours : k \in DOMAIN ws /\ ws[k].bid.message_hash = m
  BY <1>1
<1>5. (\E k \in DOMAIN ws : ws[k].bid.message_hash = m) => ours # {}
  OBVIOUS
<1>n. (\A k \in DOMAIN ws : ws[k].bid.message_hash # m) => ours = {}
  OBVIOUS
<1> HIDE DEF ours, w, ws
<1>6. ours # {} => Min(ours) \in ours
  <2> SUFFICES ASSUME ours # {} PROVE Min(ours) \in ours
    OBVIOUS
  <2>1. PICK x \in ours : \A y \in ours : x <= y
    <3> DEFINE n == Len(ws)
               rev == {n + 1 - k : k \in ours}
    <3>a. n \in Nat
      BY <1>1
    <3>2. \A k \in ours : n + 1 - k \in rev /\ k \in 1 .. n
      BY <1>4
    <3>1. rev \in SUBSET (1 .. n) /\ rev # {}
      <4>1. ASSUME NEW k \in ours PROVE n + 1 - k \in 1 .. n
        <5>1. k \in 1 .. n
          BY <1>4
        <5> HIDE DEF n
        <5> QED BY <3>a, <5>1
      <4>2. \A r \in rev : r \in 1 .. n
        BY <4>1
      <4>3. rev # {}
        BY <3>2
      <4> QED BY <4>2, <4>3
    <3>3. \A r \in rev : \E k \in ours : r = n + 1 - k
      OBVIOUS
    <3> HIDE DEF rev
    <3>4. PICK r \in rev : \A y \in rev : r >= y
      <4> HIDE DEF n
      <4> QED BY <3>1, <3>a, GreatestExists
    <3>5. PICK x \in ours : r = n + 1 - x
      BY <3>3
    <3>6. ASSUME NEW y \in ours PROVE x <= y
      <4>1. n + 1 - y \in rev /\ x \in Nat /\ y \in Nat
        BY <3>2, <3>5
      <4>2. n + 1 - x >= n + 1 - y
        BY <3>4, <3>5, <4>1
      <4> QED BY <3>a, <4>1, <4>2
    <3> QED BY <3>6
  <2> QED BY <2>1 DEF Min
<1>7. CASE ours = {}
  BY <1>2, <1>5, <1>7 DEF ws
<1>8. CASE ours # {}
  <2>1. Placed(b, m) = {w}
    BY <1>2, <1>8
  <2>2. Min(ours) \in DOMAIN ws /\ ws[Min(ours)].bid.message_hash = m
    BY <1>4, <1>6, <1>8
  <2>3. \A v \in Placed(b, m) : v = w
    BY <2>1
  <2> QED BY <1>3, <1>n, <1>8, <2>1, <2>2, <2>3 DEF ws
<1> QED BY <1>7, <1>8

-----------------------------------------------------------------------------
(***************************************************************************)
(* The broadcasts, the submissions in them and the bids before them.       *)
(***************************************************************************)
\* The types, and what TypeOK leaves open: the domains of the other functions,
\* and that there are only so many submissions.
DataTypes ==
  /\ TypeOK
  /\ DOMAIN last_broadcast = Clients
  /\ DOMAIN published = Rounds \cup {0}
  /\ IsFiniteSet(submitted)

\* A message is scheduled because it was bid for, in the round noted with it.
ScheduledWasBid ==
  \A c \in Clients : scheduled[c] # None =>
    \E y \in submitted :
      /\ y.signer = c /\ y.round_number = scheduled[c].auction_round
      /\ y.bid # None /\ y.bid.message_hash = scheduled[c].message

\* A submission is made when the broadcast of the round before it is there.
FollowsBroadcast ==
  \A x \in submitted : /\ x.round_number - 1 \in DOMAIN published
                       /\ published[x.round_number - 1] # None

\* A broadcast is the sum of one submission each of some clients.
SumsOfSubmissions ==
  \A r \in DOMAIN published : published[r] # None =>
    /\ \A x \in published[r].taken : x.round_number = r
    /\ \A x, y \in published[r].taken : x.signer = y.signer => x = y
    /\ published[r].writes = Combined(published[r].taken)

\* A user bids for messages of his own.
BidsAreOwn ==
  /\ \A c \in Clients : pending[c] # None => pending[c].message_hash \in MessagesOf[c]
  /\ \A x \in submitted : x.bid # None => x.bid.message_hash \in MessagesOf[x.signer]

History ==
  /\ DataTypes /\ ScheduledWasBid /\ FollowsBroadcast /\ WritesOnlyWhatItWon
  /\ SumsOfSubmissions /\ BidsAreOwn

\* A client that is asked once a round has one submission in it, and writes what
\* it bid for in the round before where that was placed.
OneSubmission ==
  \A x, y \in submitted :
    x.signer = y.signer /\ x.round_number = y.round_number => x = y

BidIsWritten ==
  \A x, y \in submitted :
    x.signer = y.signer /\ x.round_number = y.round_number + 1 /\ y.bid # None
      => x.writes = Placed(published[y.round_number], y.bid.message_hash)

-----------------------------------------------------------------------------
LEMMA HistoryInit ==
  ASSUME NEW servers \in [Clients -> SUBSET Servers], InitWith(servers)
  PROVE  History /\ OneSubmission /\ BidIsWritten
<1> USE DEF InitWith
<1>1. published[0] = Genesis /\ \A r \in DOMAIN published : published[r] # None => r = 0
  OBVIOUS
<1>2. /\ Genesis.round_number = 0 /\ Genesis.bids = <<>>
      /\ Genesis.writes = {} /\ Genesis.taken = {}
  BY DEF Genesis, RoundBroadcast
<1>3. Combined({}) = {}
  BY DEF Combined
<1>4. TypeOK
  <2>1. <<>> \in Seq(Bids)
    OBVIOUS
  <2>2. \A r \in DOMAIN published : published[r] # None =>
          /\ published[r].round_number = r
          /\ published[r].taken \subseteq submitted
          /\ published[r].bids = None \/ published[r].bids \in Seq(Bids)
    BY <1>1, <1>2, <2>1
  <2>3. /\ current_round \in [Clients -> Rounds \cup {0}]
        /\ pending \in [Clients -> Bids \cup {None}]
        /\ scheduled \in [Clients -> Scheduled \cup {None}]
        /\ shared_secrets \in [Clients -> SUBSET Servers]
        /\ \A c \in Clients : last_broadcast[c] = None
        /\ submitted = {}
    OBVIOUS
  <2> QED BY <2>2, <2>3 DEF TypeOK
<1>5. DataTypes
  BY <1>4, FS_EmptySet DEF DataTypes
<1>6. SumsOfSubmissions
  BY <1>1, <1>2, <1>3 DEF SumsOfSubmissions
<1>7. ScheduledWasBid /\ FollowsBroadcast /\ WritesOnlyWhatItWon /\ BidsAreOwn
  BY DEF ScheduledWasBid, FollowsBroadcast, WritesOnlyWhatItWon, BidsAreOwn
<1>8. OneSubmission /\ BidIsWritten
  BY DEF OneSubmission, BidIsWritten
<1> QED BY <1>5, <1>6, <1>7, <1>8 DEF History

\* A step that makes and publishes nothing.
LEMMA NothingMade ==
  ASSUME UNCHANGED <<submitted, published>>
  PROVE  /\ FollowsBroadcast => FollowsBroadcast'
         /\ WritesOnlyWhatItWon => WritesOnlyWhatItWon'
         /\ SumsOfSubmissions => SumsOfSubmissions'
         /\ OneSubmission => OneSubmission'
         /\ BidIsWritten => BidIsWritten'
BY DEF FollowsBroadcast, WritesOnlyWhatItWon, SumsOfSubmissions, OneSubmission,
       BidIsWritten

LEMMA AdvanceKeepsHistory ==
  ASSUME History, NEW c \in Clients, NEW r \in Rounds, advance_to_round(c, r)
  PROVE  History'
<1> USE DEF advance_to_round
<1>1. /\ scheduled \in [Clients -> Scheduled \cup {None}]
      /\ current_round \in [Clients -> Rounds \cup {0}]
  BY DEF History, DataTypes, TypeOK
<1>2. /\ current_round' \in [Clients -> Rounds \cup {0}]
      /\ scheduled' \in [Clients -> Scheduled \cup {None}]
      /\ \A d \in Clients : scheduled'[d] = scheduled[d] \/ scheduled'[d] = None
  BY <1>1
<1>3. DataTypes'
  BY <1>2 DEF History, DataTypes, TypeOK
<1>4. ScheduledWasBid'
  BY <1>2 DEF History, ScheduledWasBid
<1>5. BidsAreOwn'
  BY DEF History, BidsAreOwn
<1> QED BY <1>3, <1>4, <1>5, NothingMade DEF History

LEMMA ScheduleKeepsHistory ==
  ASSUME History, NEW c \in Clients, NEW m \in MessagesOf[c], NEW v \in BidValues,
         schedule_message_for_next_round(c, m, v)
  PROVE  History'
<1> USE DEF schedule_message_for_next_round
<1>1. pending \in [Clients -> Bids \cup {None}]
  BY DEF History, DataTypes, TypeOK
<1>2. BidFor(m, v) \in Bids /\ BidFor(m, v).message_hash = m
  <2>1. m \in Messages
    BY ClientAssumption
  <2> QED BY <2>1, BidsTyped
<1>3. /\ pending' \in [Clients -> Bids \cup {None}]
      /\ pending'[c] = BidFor(m, v)
      /\ \A d \in Clients : d # c => pending'[d] = pending[d]
  BY <1>1, <1>2
<1>4. DataTypes'
  BY <1>3 DEF History, DataTypes, TypeOK
<1>5. ScheduledWasBid'
  BY DEF History, ScheduledWasBid
<1>6. BidsAreOwn'
  BY <1>2, <1>3 DEF History, BidsAreOwn
<1> QED BY <1>4, <1>5, <1>6, NothingMade DEF History

LEMMA CallsKeepHistory ==
  ASSUME History, NEW c \in Clients,
         \/ \E s \in Servers : register_server(c, s) \/ deregister_server(c, s)
         \/ \E r \in DOMAIN published : process_round_broadcast(c, r)
  PROVE  History'
<1>1. UNCHANGED <<current_round, pending, scheduled, submitted, published>>
  BY DEF register_server, deregister_server, process_round_broadcast, state
<1>2. DataTypes'
  <2>1. CASE \E s \in Servers : register_server(c, s) \/ deregister_server(c, s)
    <3>1. UNCHANGED last_broadcast /\ shared_secrets' \in [Clients -> SUBSET Servers]
      BY <2>1 DEF register_server, deregister_server, state, History, DataTypes, TypeOK
    <3> QED BY <1>1, <3>1 DEF History, DataTypes, TypeOK
  <2>2. CASE \E r \in DOMAIN published : process_round_broadcast(c, r)
    <3>1. PICK r \in DOMAIN published : process_round_broadcast(c, r)
      BY <2>2
    <3>2. DOMAIN last_broadcast = Clients
      BY DEF History, DataTypes
    <3>3. /\ DOMAIN last_broadcast' = Clients /\ last_broadcast'[c] = published[r]
          /\ \A d \in Clients : d # c => last_broadcast'[d] = last_broadcast[d]
          /\ shared_secrets' = shared_secrets
      BY <3>1, <3>2 DEF process_round_broadcast
    <3>4. \A d \in Clients : last_broadcast'[d] # None =>
            \E q \in DOMAIN published : last_broadcast'[d] = published[q]
      BY <3>3 DEF History, DataTypes, TypeOK
    <3> QED BY <1>1, <3>3, <3>4 DEF History, DataTypes, TypeOK
  <2> QED BY <2>1, <2>2
<1>3. ScheduledWasBid' /\ BidsAreOwn'
  BY <1>1 DEF History, ScheduledWasBid, BidsAreOwn
<1> QED BY <1>1, <1>2, <1>3, NothingMade DEF History

-----------------------------------------------------------------------------
\* The broadcast that messages_for_current_round works with.
LEMMA PreviousBroadcast ==
  ASSUME History, NEW c \in Clients, HasPreviousBroadcast(c)
  PROVE  /\ current_round[c] \in Rounds /\ current_round[c] \in Nat
         /\ current_round[c] - 1 \in DOMAIN published
         /\ published[current_round[c] - 1] # None
         /\ last_broadcast[c] = published[current_round[c] - 1]
         /\ RecoveredOK(last_broadcast[c])
<1>1. PICK r \in DOMAIN published : last_broadcast[c] = published[r]
  BY DEF HasPreviousBroadcast, History, DataTypes, TypeOK
<1>2. published[r] # None /\ published[r].round_number = current_round[c] - 1
  BY <1>1 DEF HasPreviousBroadcast
<1>3. published[r].round_number = r /\ (published[r].bids = None \/ published[r].bids \in Seq(Bids))
  BY <1>2 DEF History, DataTypes, TypeOK
<1>4. r \in Nat /\ current_round[c] \in Rounds \cup {0} /\ current_round[c] \in Nat
  <2>1. r \in Rounds \cup {0} /\ current_round \in [Clients -> Rounds \cup {0}]
    BY DEF History, DataTypes, TypeOK
  <2>2. Rounds \cup {0} \subseteq Nat
    BY ClientAssumption
  <2> QED BY <2>1, <2>2
<1>5. r = current_round[c] - 1
  BY <1>2, <1>3
<1>6. current_round[c] \in Rounds
  BY <1>4, <1>5
<1>7. RecoveredOK(last_broadcast[c])
  BY <1>1, <1>3 DEF RecoveredOK
<1> QED BY <1>1, <1>2, <1>4, <1>5, <1>6, <1>7

\* The message transmitted is one bid for in the round before.
LEMMA TransmitsABid ==
  ASSUME History, NEW c \in Clients, Transmit(c) # None
  PROVE  /\ Transmit(c) \in Messages
         /\ \E y \in submitted :
              /\ y.signer = c /\ y.round_number = current_round[c] - 1
              /\ y.bid # None /\ y.bid.message_hash = Transmit(c)
<1>1. /\ scheduled[c] # None /\ scheduled[c].auction_round = current_round[c] - 1
      /\ Transmit(c) = scheduled[c].message
  BY DEF Transmit
<1>2. scheduled[c] \in Scheduled
  BY <1>1 DEF History, DataTypes, TypeOK
<1>3. scheduled[c].message \in Messages
  BY <1>2 DEF Scheduled
<1>4. PICK y \in submitted :
        /\ y.signer = c /\ y.round_number = scheduled[c].auction_round
        /\ y.bid # None /\ y.bid.message_hash = scheduled[c].message
  BY <1>1 DEF History, ScheduledWasBid
<1> QED BY <1>1, <1>3, <1>4

\* What a message for the round contains.
LEMMA NewMessage ==
  ASSUME History, NEW c \in Clients, messages_for_current_round(c)
  PROVE  /\ TypeOKSubmission(ClientRoundMessage(c))
         /\ \A w \in ClientRoundMessage(c).writes :
              /\ Transmit(c) # None /\ w.message = Transmit(c)
              /\ \E k \in DOMAIN Winners(last_broadcast[c]) :
                   LET winner == Winners(last_broadcast[c])[k]
                   IN  /\ winner.bid.message_hash = w.message /\ winner.slot_idx = w.at
                       /\ SizeOf[w.message] <= winner.slot_size
                       /\ w.at + SizeOf[w.message]
                            <= ClientRoundMessage(c).message_vector_len
<1> DEFINE b == last_broadcast[c]
           ws == Winners(b)
           new == ClientRoundMessage(c)
<1>1. RecoveredOK(b) /\ current_round[c] \in Rounds
  BY PreviousBroadcast DEF messages_for_current_round
<1>2. /\ new.signer = c /\ new.round_number = current_round[c]
      /\ new.all_server_ids = shared_secrets[c] /\ new.bid = pending[c]
      /\ new.message_vector_len = Allocated(ws)
      /\ Transmit(c) = None => new.writes = {}
      /\ Transmit(c) # None => new.writes = Placed(b, Transmit(c))
  BY DEF ClientRoundMessage
<1> HIDE DEF new
<1>3. WinnersOK(ws)
  BY <1>1, WinnersFacts
<1> HIDE DEF b
<1>4. ASSUME NEW w \in new.writes
      PROVE  /\ Transmit(c) # None /\ w.message = Transmit(c) /\ w \in Writes
             /\ \E k \in DOMAIN ws :
                  /\ ws[k].bid.message_hash = w.message /\ ws[k].slot_idx = w.at
                  /\ SizeOf[w.message] <= ws[k].slot_size
                  /\ w.at + SizeOf[w.message] <= Allocated(ws)
  <2>1. Transmit(c) # None /\ w \in Placed(b, Transmit(c))
    BY <1>2, <1>4
  <2>2. /\ w.message = Transmit(c) /\ w = [at |-> w.at, message |-> Transmit(c)]
        /\ \E k \in DOMAIN ws :
             ws[k].bid.message_hash = Transmit(c) /\ ws[k].slot_idx = w.at
    BY <1>1, <2>1, PlacedFacts
  <2>3. PICK k \in DOMAIN ws :
          ws[k].bid.message_hash = Transmit(c) /\ ws[k].slot_idx = w.at
    BY <2>2
  <2>4. /\ ws[k].slot_idx \in Nat /\ ws[k].slot_size \in Nat
        /\ ws[k].bid.message_hash \in Messages
        /\ SizeOf[ws[k].bid.message_hash] <= ws[k].slot_size
        /\ ws[k].slot_idx + ws[k].slot_size <= Allocated(ws)
        /\ Allocated(ws) \in 0 .. total_bandwidth
    BY <1>3 DEF WinnersOK
  <2>5. SizeOf[w.message] \in Nat /\ w.at \in Nat /\ Allocated(ws) \in Nat
    BY <2>2, <2>3, <2>4, BidsTyped, EngineAssumption
  <2>6. w \in Writes
    BY <2>2, <2>3, <2>4, <2>5 DEF Writes
  <2>7. SizeOf[w.message] <= ws[k].slot_size
    BY <2>2, <2>3, <2>4
  <2>8. w.at + SizeOf[w.message] <= Allocated(ws)
    <3> DEFINE s == SizeOf[w.message]
               a == Allocated(ws)
    <3>1. /\ s \in Nat /\ a \in Nat /\ ws[k].slot_size \in Nat /\ w.at \in Nat
          /\ s <= ws[k].slot_size /\ w.at + ws[k].slot_size <= a
      BY <2>3, <2>4, <2>5, <2>7
    <3> HIDE DEF s, a
    <3>2. w.at + s <= a
      BY <3>1
    <3> QED BY <3>2 DEF s, a
  <2> QED BY <2>1, <2>2, <2>3, <2>6, <2>7, <2>8
<1>5. TypeOKSubmission(new)
  <2>1. shared_secrets[c] \in SUBSET Servers /\ pending[c] \in Bids \cup {None}
    BY DEF History, DataTypes, TypeOK
  <2>2. new.writes \subseteq Writes
    BY <1>4
  <2>3. Allocated(ws) \in 0 .. total_bandwidth
    BY <1>3 DEF WinnersOK
  <2> QED BY <1>1, <1>2, <2>1, <2>2, <2>3 DEF TypeOKSubmission
<1>6. \A w \in new.writes :
        /\ Transmit(c) # None /\ w.message = Transmit(c)
        /\ \E k \in DOMAIN ws :
             /\ ws[k].bid.message_hash = w.message /\ ws[k].slot_idx = w.at
             /\ SizeOf[w.message] <= ws[k].slot_size
             /\ w.at + SizeOf[w.message] <= new.message_vector_len
  BY <1>2, <1>4
<1> HIDE DEF ws
<1> QED BY <1>5, <1>6 DEF new, ws, b

LEMMA MessageKeepsHistory ==
  ASSUME History, NEW c \in Clients, messages_for_current_round(c)
  PROVE  History'
<1> DEFINE new == ClientRoundMessage(c)
           r == current_round[c]
<1>1. /\ submitted' = submitted \cup {new}
      /\ scheduled' = [scheduled EXCEPT ![c] = ScheduleNext(c)]
      /\ pending'   = [pending EXCEPT ![c] = None]
      /\ UNCHANGED <<current_round, last_broadcast, shared_secrets, published>>
      /\ HasPreviousBroadcast(c)
  BY DEF messages_for_current_round
<1>2. new.signer = c /\ new.round_number = r /\ new.bid = pending[c]
  BY DEF ClientRoundMessage
<1>3. /\ r \in Rounds /\ r \in Nat /\ r - 1 \in DOMAIN published
      /\ published[r - 1] # None /\ last_broadcast[c] = published[r - 1]
  BY <1>1, PreviousBroadcast
<1>4. /\ scheduled \in [Clients -> Scheduled \cup {None}]
      /\ pending \in [Clients -> Bids \cup {None}]
  BY DEF History, DataTypes, TypeOK
<1>5. /\ pending[c] # None =>
           ScheduleNext(c) = [message |-> pending[c].message_hash, auction_round |-> r]
      /\ pending[c] = None => ScheduleNext(c) \in {None, scheduled[c]}
  BY DEF ScheduleNext
<1>a. TypeOKSubmission(new)
  BY NewMessage
<1>b. \A w \in new.writes :
        /\ Transmit(c) # None /\ w.message = Transmit(c)
        /\ \E k \in DOMAIN Winners(last_broadcast[c]) :
             LET winner == Winners(last_broadcast[c])[k]
             IN  /\ winner.bid.message_hash = w.message /\ winner.slot_idx = w.at
                 /\ SizeOf[w.message] <= winner.slot_size
                 /\ w.at + SizeOf[w.message] <= new.message_vector_len
  BY NewMessage
<1> HIDE DEF new, r
<1>6. /\ scheduled'[c] = ScheduleNext(c)
      /\ \A d \in Clients : d # c => scheduled'[d] = scheduled[d]
      /\ pending'[c] = None
      /\ \A d \in Clients : d # c => pending'[d] = pending[d]
  BY <1>1, <1>4
<1>7. pending[c] # None => pending[c].message_hash \in Messages
  BY <1>4, BidsTyped
<1>8. ScheduleNext(c) \in Scheduled \cup {None}
  <2>1. CASE pending[c] # None
    BY <2>1, <1>3, <1>5, <1>7 DEF Scheduled
  <2>2. CASE pending[c] = None
    BY <2>2, <1>4, <1>5
  <2> QED BY <2>1, <2>2
<1>9. DataTypes'
  <2>1. scheduled' \in [Clients -> Scheduled \cup {None}]
    BY <1>1, <1>4, <1>8
  <2>2. pending' \in [Clients -> Bids \cup {None}]
    BY <1>1, <1>4
  <2>3. \A x \in submitted' : TypeOKSubmission(x)
    BY <1>1, <1>a DEF History, DataTypes, TypeOK
  <2>4. IsFiniteSet(submitted')
    BY <1>1, FS_AddElement DEF History, DataTypes
  <2>5. \A q \in DOMAIN published' : published'[q] # None =>
          /\ published'[q].round_number = q
          /\ published'[q].taken \subseteq submitted'
          /\ published'[q].bids = None \/ published'[q].bids \in Seq(Bids)
    BY <1>1 DEF History, DataTypes, TypeOK
  <2>6. /\ current_round' \in [Clients -> Rounds \cup {0}]
        /\ shared_secrets' \in [Clients -> SUBSET Servers]
        /\ \A d \in Clients : last_broadcast'[d] # None =>
             \E q \in DOMAIN published' : last_broadcast'[d] = published'[q]
        /\ DOMAIN last_broadcast' = Clients
        /\ DOMAIN published' = Rounds \cup {0}
    BY <1>1 DEF History, DataTypes, TypeOK
  <2> QED BY <2>1, <2>2, <2>3, <2>4, <2>5, <2>6 DEF DataTypes, TypeOK
<1>10. ScheduledWasBid'
  <2>1. ASSUME NEW d \in Clients, scheduled'[d] # None
        PROVE  \E y \in submitted' :
                 /\ y.signer = d /\ y.round_number = scheduled'[d].auction_round
                 /\ y.bid # None /\ y.bid.message_hash = scheduled'[d].message
    <3>1. CASE scheduled'[d] = scheduled[d]
      BY <2>1, <3>1, <1>1 DEF History, ScheduledWasBid
    <3>2. CASE scheduled'[d] # scheduled[d]
      <4>1. d = c /\ pending[c] # None
        BY <2>1, <3>2, <1>5, <1>6
      <4>2. scheduled'[d] = [message |-> pending[c].message_hash, auction_round |-> r]
        BY <4>1, <1>5, <1>6
      <4>3. new \in submitted'
        BY <1>1
      <4> QED BY <4>1, <4>2, <4>3, <1>2
    <3> QED BY <3>1, <3>2
  <2> QED BY <2>1 DEF ScheduledWasBid
<1>11. FollowsBroadcast'
  BY <1>1, <1>2, <1>3 DEF History, FollowsBroadcast
<1>12. WritesOnlyWhatItWon'
  <2>1. ASSUME NEW w \in new.writes
        PROVE  \E y \in submitted :
                 /\ y.signer = c /\ y.round_number = r - 1
                 /\ y.bid # None /\ y.bid.message_hash = w.message
    BY <1>b, TransmitsABid DEF r
  <2>2. ASSUME NEW w \in new.writes
        PROVE  \E k \in DOMAIN Winners(published[r - 1]) :
                 LET winner == Winners(published[r - 1])[k]
                 IN  /\ winner.bid.message_hash = w.message /\ winner.slot_idx = w.at
                     /\ SizeOf[w.message] <= winner.slot_size
                     /\ w.at + SizeOf[w.message] <= new.message_vector_len
    BY <1>b, <1>3
  <2>3. WritesOnlyWhatItWon
    BY DEF History
  <2>4. published' = published
    BY <1>1
  <2>5. ASSUME NEW x \in submitted', NEW w \in x.writes
        PROVE  /\ \E y \in submitted' :
                    /\ y.signer = x.signer /\ y.round_number = x.round_number - 1
                    /\ y.bid # None /\ y.bid.message_hash = w.message
               /\ x.round_number - 1 \in DOMAIN published
               /\ published[x.round_number - 1] # None
               /\ \E k \in DOMAIN Winners(published[x.round_number - 1]) :
                    LET winner == Winners(published[x.round_number - 1])[k]
                    IN  /\ winner.bid.message_hash = w.message /\ winner.slot_idx = w.at
                        /\ SizeOf[w.message] <= winner.slot_size
                        /\ w.at + SizeOf[w.message] <= x.message_vector_len
    <3>1. CASE x \in submitted
      BY <1>1, <2>3, <2>5, <3>1 DEF WritesOnlyWhatItWon
    <3>2. CASE x = new
      BY <1>1, <1>2, <1>3, <2>1, <2>2, <2>5, <3>2
    <3> QED BY <1>1, <2>5, <3>1, <3>2
  <2> QED BY <2>4, <2>5 DEF WritesOnlyWhatItWon
<1>13. SumsOfSubmissions'
  BY <1>1 DEF History, SumsOfSubmissions
<1>14. BidsAreOwn'
  BY <1>1, <1>2, <1>6 DEF History, BidsAreOwn
<1> QED BY <1>9, <1>10, <1>11, <1>12, <1>13, <1>14 DEF History

-----------------------------------------------------------------------------
LEMMA BidOrdersTyped ==
  ASSUME NEW taken, IsFiniteSet(taken), \A x \in taken : x.bid \in Bids \cup {None}
  PROVE  BidOrders(taken) \subseteq Seq(Bids)
<1> DEFINE bidders == {x \in taken : x.bid # None}
           n == Cardinality(bidders)
<1>1. n \in Nat
  BY FS_Subset, FS_CardinalityType
<1>2. \A x \in bidders : x.bid \in Bids
  OBVIOUS
<1>3. \A s \in BidOrders(taken) : \E q \in SetToSeqs(bidders) : s = [i \in DOMAIN q |-> q[i].bid]
  BY DEF BidOrders
<1>4. \A q \in SetToSeqs(bidders) : q \in [1 .. n -> bidders]
  BY DEF SetToSeqs
<1> HIDE DEF bidders, n
<1>5. ASSUME NEW q \in [1 .. n -> bidders]
      PROVE  [i \in DOMAIN q |-> q[i].bid] \in Seq(Bids)
  <2>1. DOMAIN q = 1 .. n /\ \A i \in 1 .. n : q[i].bid \in Bids
    BY <1>2, <1>5
  <2>2. [i \in DOMAIN q |-> q[i].bid] \in [1 .. n -> Bids]
    BY <2>1
  <2> QED BY <1>1, <2>2
<1> QED BY <1>3, <1>4, <1>5

\* A broadcast that is there stays.
LEMMA PublishStep ==
  ASSUME History, NEW r \in Rounds, Publish(r)
  PROVE  /\ UNCHANGED <<current_round, pending, scheduled, last_broadcast,
                        shared_secrets, submitted>>
         /\ DOMAIN published' = DOMAIN published
         /\ \A q \in DOMAIN published : published[q] # None => published'[q] = published[q]
         /\ \A q \in DOMAIN published : q # r => published'[q] = published[q]
         /\ r \in DOMAIN published /\ published'[r] # None =>
              /\ published'[r].round_number = r
              /\ published'[r].bids = None \/ published'[r].bids \in Seq(Bids)
              /\ published'[r].taken \subseteq submitted
              /\ \A x \in published'[r].taken : x.round_number = r
              /\ \A x, y \in published'[r].taken : x.signer = y.signer => x = y
              /\ published'[r].writes = Combined(published'[r].taken)
<1>1. PICK taken \in SUBSET {x \in submitted : x.round_number = r} :
        /\ CanTake(taken, r)
        /\ \E bids \in BidOrders(taken) \cup {None} :
             published' = [published EXCEPT ![r] =
                             RoundBroadcast(r, bids, Combined(taken), taken)]
  BY DEF Publish
<1>2. PICK bids \in BidOrders(taken) \cup {None} :
        published' = [published EXCEPT ![r] =
                        RoundBroadcast(r, bids, Combined(taken), taken)]
  BY <1>1
<1>3. UNCHANGED <<current_round, pending, scheduled, last_broadcast,
                  shared_secrets, submitted>>
  BY DEF Publish, state
<1>4. r \in DOMAIN published /\ published[r] = None
  <2>1. DOMAIN published = Rounds \cup {0}
    BY DEF History, DataTypes
  <2>2. r \in Nat
    BY ClientAssumption
  <2> QED BY <2>1, <2>2 DEF Publish
<1>5. /\ DOMAIN published' = DOMAIN published
      /\ \A q \in DOMAIN published : q # r => published'[q] = published[q]
      /\ published'[r] = RoundBroadcast(r, bids, Combined(taken), taken)
  BY <1>2, <1>4
<1>6. bids = None \/ bids \in Seq(Bids)
  <2>1. taken \in SUBSET submitted /\ IsFiniteSet(submitted)
    BY DEF History, DataTypes
  <2>2. IsFiniteSet(taken)
    BY <2>1, FS_Subset
  <2>3. \A x \in taken : x.bid \in Bids \cup {None}
    BY <2>1 DEF History, DataTypes, TypeOK, TypeOKSubmission
  <2> QED BY <2>2, <2>3, BidOrdersTyped
<1>7. /\ published'[r].round_number = r /\ published'[r].bids = bids
      /\ published'[r].taken = taken /\ published'[r].writes = Combined(taken)
  BY <1>5 DEF RoundBroadcast
<1>8. /\ \A x \in taken : x.round_number = r
      /\ \A x, y \in taken : x.signer = y.signer => x = y
  BY <1>1 DEF CanTake
<1> QED BY <1>3, <1>4, <1>5, <1>6, <1>7, <1>8

LEMMA PublishKeepsHistory ==
  ASSUME History, NEW r \in Rounds, Publish(r)
  PROVE  History'
<1>1. UNCHANGED <<current_round, pending, scheduled, last_broadcast,
                  shared_secrets, submitted>>
  BY PublishStep
<1>2. /\ DOMAIN published' = DOMAIN published
      /\ \A q \in DOMAIN published : published[q] # None => published'[q] = published[q]
      /\ \A q \in DOMAIN published : q # r => published'[q] = published[q]
  BY PublishStep
<1>3. r \in DOMAIN published /\ published'[r] # None =>
        /\ published'[r].round_number = r
        /\ published'[r].bids = None \/ published'[r].bids \in Seq(Bids)
        /\ published'[r].taken \subseteq submitted
  BY PublishStep
<1>4. r \in DOMAIN published /\ published'[r] # None =>
        /\ \A x \in published'[r].taken : x.round_number = r
        /\ \A x, y \in published'[r].taken : x.signer = y.signer => x = y
        /\ published'[r].writes = Combined(published'[r].taken)
  BY PublishStep
<1>5. DataTypes'
  <2>1. \A q \in DOMAIN published' : published'[q] # None =>
          /\ published'[q].round_number = q
          /\ published'[q].taken \subseteq submitted'
          /\ published'[q].bids = None \/ published'[q].bids \in Seq(Bids)
    BY <1>1, <1>2, <1>3 DEF History, DataTypes, TypeOK
  <2>2. \A d \in Clients : last_broadcast'[d] # None =>
          \E q \in DOMAIN published' : last_broadcast'[d] = published'[q]
    BY <1>1, <1>2 DEF History, DataTypes, TypeOK
  <2> QED BY <1>1, <1>2, <2>1, <2>2 DEF History, DataTypes, TypeOK
<1>6. ScheduledWasBid' /\ BidsAreOwn'
  BY <1>1 DEF History, ScheduledWasBid, BidsAreOwn
<1>7. FollowsBroadcast'
  BY <1>1, <1>2 DEF History, FollowsBroadcast
<1>8. WritesOnlyWhatItWon'
  <2>1. WritesOnlyWhatItWon /\ submitted' = submitted
    BY <1>1 DEF History
  <2>2. \A x \in submitted : published'[x.round_number - 1] = published[x.round_number - 1]
    BY <1>2 DEF History, FollowsBroadcast
  <2> QED BY <1>2, <2>1, <2>2 DEF WritesOnlyWhatItWon
<1>9. SumsOfSubmissions'
  BY <1>1, <1>2, <1>4 DEF History, SumsOfSubmissions
<1> QED BY <1>5, <1>6, <1>7, <1>8, <1>9 DEF History

LEMMA HistoryStep ==
  ASSUME History, [Next]_vars
  PROVE  History'
<1>1. ASSUME NEW c \in Clients, ClientStep(c) PROVE History'
  <2>1. CASE \E r \in Rounds : advance_to_round(c, r)
    BY <2>1, AdvanceKeepsHistory
  <2>2. CASE \/ \E s \in Servers : register_server(c, s) \/ deregister_server(c, s)
             \/ \E r \in DOMAIN published : process_round_broadcast(c, r)
    BY <2>2, CallsKeepHistory
  <2>3. CASE \E m \in MessagesOf[c], v \in BidValues :
               schedule_message_for_next_round(c, m, v)
    BY <2>3, ScheduleKeepsHistory
  <2>4. CASE messages_for_current_round(c)
    BY <2>4, MessageKeepsHistory
  <2> QED BY <1>1, <2>1, <2>2, <2>3, <2>4 DEF ClientStep
<1>2. CASE \E r \in Rounds : Publish(r)
  BY <1>2, PublishKeepsHistory
<1>3. CASE UNCHANGED vars
  <2>1. UNCHANGED <<current_round, pending, scheduled, last_broadcast, shared_secrets,
                    submitted, published>>
    BY <1>3 DEF vars, state
  <2>2. DataTypes' /\ ScheduledWasBid' /\ BidsAreOwn'
    BY <2>1 DEF History, DataTypes, TypeOK, ScheduledWasBid, BidsAreOwn
  <2> QED BY <2>1, <2>2, NothingMade DEF History
<1> QED BY <1>1, <1>2, <1>3 DEF Next

-----------------------------------------------------------------------------
\* The slots of a broadcast keep the users apart who send different messages.
LEMMA OwnSlots ==
  ASSUME History, \A c, d \in Clients : c # d => MessagesOf[c] \cap MessagesOf[d] = {}
  PROVE  SlotsKeepClientsApart
<1> SUFFICES ASSUME NEW r \in DOMAIN published, published[r] # None,
                    NEW x \in published[r].taken, NEW y \in published[r].taken, x # y,
                    NEW v \in x.writes, NEW w \in y.writes
             PROVE  Bytes(v) \cap Bytes(w) = {}
  BY DEF SlotsKeepClientsApart
<1>1. /\ x \in submitted /\ y \in submitted
      /\ x.round_number = r /\ y.round_number = r /\ x.signer # y.signer
      /\ x.signer \in Clients /\ y.signer \in Clients
      /\ r - 1 \in DOMAIN published /\ published[r - 1] # None
  <2>1. x \in submitted /\ y \in submitted
    BY DEF History, DataTypes, TypeOK
  <2>2. x.round_number = r /\ y.round_number = r /\ x.signer # y.signer
    BY DEF History, SumsOfSubmissions
  <2>3. x.signer \in Clients /\ y.signer \in Clients
    BY <2>1 DEF History, DataTypes, TypeOK, TypeOKSubmission
  <2> QED BY <2>1, <2>2, <2>3 DEF History, FollowsBroadcast
<1> DEFINE ws == Winners(published[r - 1])
<1>2. WinnersOK(ws)
  <2>1. published[r - 1].bids = None \/ published[r - 1].bids \in Seq(Bids)
    BY <1>1 DEF History, DataTypes, TypeOK
  <2> QED BY <2>1, WinnersFacts DEF RecoveredOK
<1>3. /\ \E k \in DOMAIN ws : /\ ws[k].bid.message_hash = v.message
                              /\ ws[k].slot_idx = v.at
                              /\ SizeOf[v.message] <= ws[k].slot_size
      /\ \E k \in DOMAIN ws : /\ ws[k].bid.message_hash = w.message
                              /\ ws[k].slot_idx = w.at
                              /\ SizeOf[w.message] <= ws[k].slot_size
  BY <1>1 DEF History, WritesOnlyWhatItWon
<1>4. v.message \in MessagesOf[x.signer] /\ w.message \in MessagesOf[y.signer]
  BY <1>1 DEF History, WritesOnlyWhatItWon, BidsAreOwn
<1>5. v.message # w.message /\ v.message \in Messages /\ w.message \in Messages
  BY <1>1, <1>4, ClientAssumption
<1> HIDE DEF ws
<1>6. PICK j \in DOMAIN ws : /\ ws[j].bid.message_hash = v.message
                             /\ ws[j].slot_idx = v.at
                             /\ SizeOf[v.message] <= ws[j].slot_size
  BY <1>3
<1>7. PICK k \in DOMAIN ws : /\ ws[k].bid.message_hash = w.message
                             /\ ws[k].slot_idx = w.at
                             /\ SizeOf[w.message] <= ws[k].slot_size
  BY <1>3
<1>8. /\ ws[j].slot_idx \in Nat /\ ws[j].slot_size \in Nat
      /\ ws[k].slot_idx \in Nat /\ ws[k].slot_size \in Nat
      /\ j \in Int /\ k \in Int
      /\ j < k => ws[j].slot_idx + ws[j].slot_size <= ws[k].slot_idx
      /\ k < j => ws[k].slot_idx + ws[k].slot_size <= ws[j].slot_idx
  BY <1>2 DEF WinnersOK
<1>9. j < k \/ k < j
  BY <1>5, <1>6, <1>7, <1>8
<1>10. SizeOf[v.message] \in Nat /\ SizeOf[w.message] \in Nat
  BY <1>5, BidsTyped
<1>11. v.at + SizeOf[v.message] <= w.at \/ w.at + SizeOf[w.message] <= v.at
  <2> DEFINE s == SizeOf[v.message]
             t == SizeOf[w.message]
             a == ws[j].slot_size
             b == ws[k].slot_size
  <2>1. /\ s \in Nat /\ t \in Nat /\ a \in Nat /\ b \in Nat /\ v.at \in Nat /\ w.at \in Nat
        /\ s <= a /\ t <= b
        /\ v.at + a <= w.at \/ w.at + b <= v.at
    BY <1>6, <1>7, <1>8, <1>9, <1>10
  <2> HIDE DEF s, t, a, b
  <2>2. v.at + s <= w.at \/ w.at + t <= v.at
    BY <2>1
  <2> QED BY <2>2 DEF s, t
<1>12. v.at \in Nat /\ w.at \in Nat
  BY <1>6, <1>7, <1>8
<1> QED BY <1>10, <1>11, <1>12 DEF Bytes

-----------------------------------------------------------------------------
(***************************************************************************)
(* A caller that asks once a round.                                        *)
(***************************************************************************)
\* Other steps than that of asking leave what was written as it is.
LEMMA WrittenStays ==
  ASSUME History, OneSubmission, BidIsWritten, submitted' = submitted,
         \A q \in DOMAIN published : published[q] # None => published'[q] = published[q]
  PROVE  OneSubmission' /\ BidIsWritten'
<1>1. OneSubmission'
  BY DEF OneSubmission
<1>2. ASSUME NEW x \in submitted, NEW y \in submitted, x.round_number = y.round_number + 1
      PROVE  published'[y.round_number] = published[y.round_number]
  <2>1. x.round_number - 1 \in DOMAIN published /\ published[x.round_number - 1] # None
    BY DEF History, FollowsBroadcast
  <2>2. x.round_number \in Nat /\ y.round_number \in Nat
    BY ClientAssumption DEF History, DataTypes, TypeOK, TypeOKSubmission
  <2>3. x.round_number - 1 = y.round_number
    BY <1>2, <2>2
  <2> QED BY <2>1, <2>3
<1>3. BidIsWritten'
  BY <1>2 DEF BidIsWritten
<1> QED BY <1>1, <1>3

\* A client that has bid transmits this bid's message in the next round.
LEMMA AskedOnce ==
  ASSUME History, IInv, BidsAreHonoured, OneSubmission, BidIsWritten,
         NEW c \in Clients, messages_for_current_round(c), AgainIn = {}
  PROVE  OneSubmission' /\ BidIsWritten'
<1> DEFINE new == ClientRoundMessage(c)
           r == current_round[c]
<1>1. /\ submitted' = submitted \cup {new} /\ published' = published
      /\ HasPreviousBroadcast(c) /\ ~MadeForRound(c)
  BY DEF messages_for_current_round
<1>2. /\ new.signer = c /\ new.round_number = r
      /\ Transmit(c) # None => new.writes = Placed(last_broadcast[c], Transmit(c))
  BY DEF ClientRoundMessage
<1>3. r \in Nat /\ last_broadcast[c] = published[r - 1]
  BY <1>1, PreviousBroadcast
<1>4. \A x \in submitted : x.signer = c => x.round_number \in Nat /\ x.round_number < r
  <2>1. \A x \in submitted : x.signer = c => x.round_number # r
    BY <1>1 DEF MadeForRound
  <2>2. \A x \in submitted : x.signer = c =>
          x.round_number \in Nat /\ x.round_number <= r
    BY DEF IInv, BasicTypes
  <2> QED BY <1>3, <2>1, <2>2
<1> HIDE DEF new
<1>5. OneSubmission'
  BY <1>1, <1>2, <1>3, <1>4 DEF OneSubmission
<1>6. ASSUME NEW y \in submitted, y.signer = c, r = y.round_number + 1, y.bid # None
      PROVE  new.writes = Placed(published[y.round_number], y.bid.message_hash)
  <2>1. Held(c, y.round_number)
    BY <1>1, <1>6, HonouredMeansHeld
  <2>2. PICK z \in submitted :
          /\ z.signer = c /\ z.round_number = y.round_number /\ z.bid # None
          /\ scheduled[c] = [message |-> z.bid.message_hash,
                             auction_round |-> y.round_number]
    BY <2>1 DEF Held
  <2>3. z = y
    BY <1>6, <2>2 DEF OneSubmission
  <2>4. y.round_number = r - 1
    BY <1>3, <1>4, <1>6
  <2>5. scheduled[c] = [message |-> y.bid.message_hash, auction_round |-> r - 1]
    BY <2>2, <2>3, <2>4
  <2>6. scheduled[c] # None /\ y.bid.message_hash # None
    <3>1. y.bid \in Bids /\ y.bid.message_hash \in Messages
      BY <1>6, BidsTyped DEF History, DataTypes, TypeOK, TypeOKSubmission
    <3>2. r - 1 \in Rounds
      <4>1. y.round_number \in Rounds
        BY <1>6 DEF History, DataTypes, TypeOK, TypeOKSubmission
      <4> QED BY <2>4, <4>1
    <3>3. scheduled[c] \in [message : Messages, auction_round : Rounds]
      BY <2>5, <3>1, <3>2
    <3> QED BY <3>1, <3>3, ClientAssumption
  <2>7. Transmit(c) = y.bid.message_hash
    BY <2>5, <2>6 DEF Transmit
  <2> QED BY <1>2, <1>3, <2>4, <2>6, <2>7
<1>7. BidIsWritten'
  <2>1. ASSUME NEW x \in submitted', NEW y \in submitted', x.signer = y.signer,
               x.round_number = y.round_number + 1, y.bid # None
        PROVE  x.writes = Placed(published[y.round_number], y.bid.message_hash)
    <3>1. CASE x \in submitted /\ y \in submitted
      BY <2>1, <3>1 DEF BidIsWritten
    <3>2. CASE x = new /\ y \in submitted
      BY <1>2, <1>6, <2>1, <3>2
    <3>3. CASE x \in submitted /\ y = new
      BY <1>2, <1>3, <1>4, <2>1, <3>3
    <3>4. CASE x = new /\ y = new
      BY <1>2, <1>3, <2>1, <3>4
    <3> QED BY <1>1, <2>1, <3>1, <3>2, <3>3, <3>4
  <2> QED BY <1>1, <2>1 DEF BidIsWritten
<1> QED BY <1>5, <1>7

LEMMA OnceStep ==
  ASSUME History, IInv, BidsAreHonoured, OneSubmission, BidIsWritten, [Next]_vars,
         AgainIn = {}
  PROVE  OneSubmission' /\ BidIsWritten'
<1>1. ASSUME NEW c \in Clients, messages_for_current_round(c)
      PROVE  OneSubmission' /\ BidIsWritten'
  BY <1>1, AskedOnce
<1>2. CASE UNCHANGED <<submitted, published>>
  BY <1>2, NothingMade
<1>3. ASSUME NEW r \in Rounds, Publish(r)
      PROVE  OneSubmission' /\ BidIsWritten'
  <2>1. /\ submitted' = submitted
        /\ \A q \in DOMAIN published : published[q] # None => published'[q] = published[q]
    BY <1>3, PublishStep
  <2> QED BY <2>1, WrittenStays
<1>4. ASSUME NEW c \in Clients, ClientStep(c)
      PROVE  messages_for_current_round(c) \/ UNCHANGED <<submitted, published>>
  BY <1>4 DEF ClientStep, advance_to_round, register_server, deregister_server,
              schedule_message_for_next_round, process_round_broadcast, state
<1>5. UNCHANGED vars => UNCHANGED <<submitted, published>>
  BY DEF vars
<1> QED BY <1>1, <1>2, <1>3, <1>4, <1>5 DEF Next

\* A write that one submission of all has is in the sum.
LEMMA OddOne ==
  ASSUME NEW taken, NEW x \in taken, NEW w \in x.writes,
         \A y \in taken : w \in y.writes => y = x
  PROVE  w \in Combined(taken)
<1>1. {y \in taken : w \in y.writes} = {x}
  OBVIOUS
<1>2. Cardinality({y \in taken : w \in y.writes}) = 1
  BY <1>1, FS_Singleton
<1> QED BY <1>2 DEF Combined

LEMMA WinnersAppear ==
  ASSUME History, OneSubmission, BidIsWritten,
         \A c, d \in Clients : c # d => MessagesOf[c] \cap MessagesOf[d] = {}
  PROVE  WinningMessagesAppear
<1> SUFFICES ASSUME NEW r \in Rounds, published[r] # None, published[r - 1] # None,
                    NEW k \in DOMAIN Winners(published[r - 1]),
                    NEW y \in published[r - 1].taken, Answers(r, y),
                    y.bid.message_hash = Winners(published[r - 1])[k].bid.message_hash
             PROVE  \E w \in published[r].writes :
                      w.message = Winners(published[r - 1])[k].bid.message_hash
  BY DEF WinningMessagesAppear
<1>1. /\ r \in DOMAIN published /\ r - 1 \in DOMAIN published /\ y.bid # None
      /\ \E x \in published[r].taken : x.signer = y.signer
  BY DEF Answers, History, DataTypes
<1>2. PICK x \in published[r].taken : x.signer = y.signer
  BY <1>1
<1>3. x \in submitted /\ y \in submitted /\ x.round_number = r /\ y.round_number = r - 1
  BY <1>1 DEF History, DataTypes, TypeOK, SumsOfSubmissions
<1>4. r \in Nat
  BY ClientAssumption
<1>5. x.writes = Placed(published[r - 1], y.bid.message_hash)
  BY <1>1, <1>2, <1>3, <1>4 DEF BidIsWritten
<1>6. RecoveredOK(published[r - 1])
  BY <1>1 DEF RecoveredOK, History, DataTypes, TypeOK
<1>7. PICK w : Placed(published[r - 1], y.bid.message_hash) = {w}
               /\ w.message = y.bid.message_hash
  BY <1>6, PlacedFacts
<1>8. w \in x.writes
  BY <1>5, <1>7
<1>9. ASSUME NEW z \in published[r].taken, w \in z.writes
      PROVE  z = x
  <2>1. z \in submitted /\ z.signer \in Clients /\ x.signer \in Clients
    BY <1>1, <1>3 DEF History, DataTypes, TypeOK, TypeOKSubmission
  <2>2. w.message \in MessagesOf[z.signer] /\ w.message \in MessagesOf[x.signer]
    BY <1>3, <1>8, <1>9, <2>1 DEF History, WritesOnlyWhatItWon, BidsAreOwn
  <2>3. z.signer = x.signer
    BY <2>1, <2>2
  <2> QED BY <1>1, <2>3 DEF History, SumsOfSubmissions
<1>10. w \in Combined(published[r].taken)
  BY <1>8, <1>9, OddOne
<1>11. published[r].writes = Combined(published[r].taken)
  BY <1>1 DEF History, SumsOfSubmissions
<1> QED BY <1>7, <1>10, <1>11

-----------------------------------------------------------------------------
LEMMA HistoryAlways == Spec => []History
<1>1. Init => History
  <2>1. [c \in Clients |-> {}] \in [Clients -> SUBSET Servers]
    OBVIOUS
  <2> QED BY <2>1, HistoryInit DEF Init
<1> QED BY <1>1, HistoryStep, PTL DEF Spec

\* ClientState, the submissions and the broadcasts have their types; a client is
\* only asked when its broadcast is one that was published.
THEOREM TypeCorrect == Spec => []TypeOK
<1>1. History => TypeOK
  BY DEF History, DataTypes
<1> QED BY <1>1, HistoryAlways, PTL

\* A client writes what it bid for and won, inside the slot it won.
THEOREM WritesAreWon == Spec => []WritesOnlyWhatItWon
<1>1. History => WritesOnlyWhatItWon
  BY DEF History
<1> QED BY <1>1, HistoryAlways, PTL

\* Users that send different messages never write to the same byte.
THEOREM SlotsAreApart ==
  ASSUME \A c, d \in Clients : c # d => MessagesOf[c] \cap MessagesOf[d] = {}
  PROVE  Spec => []SlotsKeepClientsApart
<1>1. History => SlotsKeepClientsApart
  BY OwnSlots
<1> QED BY <1>1, HistoryAlways, PTL

\* If users send different messages and each client is asked once a round, a
\* message that won is in the next broadcast that its bidder is part of.
THEOREM WinningMessagesArrive ==
  ASSUME \A c, d \in Clients : c # d => MessagesOf[c] \cap MessagesOf[d] = {},
         AgainIn = {}
  PROVE  Spec => []WinningMessagesAppear
<1> DEFINE J == History /\ IInv /\ BidsAreHonoured /\ OneSubmission /\ BidIsWritten
<1>1. Init => J
  <2>1. [c \in Clients |-> {}] \in [Clients -> SUBSET Servers]
    OBVIOUS
  <2> QED BY <2>1, HistoryInit, InvInit DEF Init, InitWith, BidsAreHonoured
<1>2. J /\ [Next]_vars => J'
  BY HistoryStep, InvStep, OnceStep
<1>3. J => WinningMessagesAppear
  BY WinnersAppear
<1> HIDE DEF J
<1> QED BY <1>1, <1>2, <1>3, PTL DEF Spec
=============================================================================
