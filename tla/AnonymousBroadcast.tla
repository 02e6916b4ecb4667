------------------------- MODULE AnonymousBroadcast -------------------------
(***************************************************************************)
(* What the protocol promises the users of a server, and nothing of how:   *)
(* rounds only go up; in a round a server publishes at most once, and what *)
(* it publishes is the bare sum of one content per client of some set of   *)
(* clients, all made for that round.  Neither which client made which      *)
(* content nor any pad can be told from the sum.                           *)
(***************************************************************************)
EXTENDS Aggregates

VARIABLES
  round,   \* the round each server is in
  output   \* its broadcast of that round, or None

Plaintext(r, contents) ==
  [round_number |-> r, auction_vector |-> Sum(contents),
   message_vector |-> contents]

ABInit ==
  /\ round  = [s \in Servers |-> 0]
  /\ output = [s \in Servers |-> None]

\* The next round begins; rounds may be skipped.
Begin(s) ==
  /\ \E r \in Rounds : round[s] < r /\ round' = [round EXCEPT ![s] = r]
  /\ output' = [output EXCEPT ![s] = None]

Publish(s) ==
  /\ round[s] # 0 /\ output[s] = None
  /\ \E cs \in SUBSET Clients : \E draft \in [cs -> Drafts] :
       output' = [output EXCEPT ![s] =
                    Plaintext(round[s],
                              {Content(c, round[s], draft[c]) : c \in cs})]
  /\ UNCHANGED round

ABNext == \E s \in Servers : Begin(s) \/ Publish(s)

ABSpec == ABInit /\ [][ABNext]_<<round, output>>
=============================================================================
