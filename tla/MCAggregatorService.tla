------------------------- MODULE MCAggregatorService -------------------------
(***************************************************************************)
(* Instances of AggregatorService for TLC.                                 *)
(***************************************************************************)
EXTENDS AggregatorService

CONSTANTS s1, s2, c1, c2, d1, d2, L, M, Odd

\* One message of each client for each round; a second content of c1; c2 with
\* another roster, another slot allocation, another auction size.
Good(c, r)  == Blind(c, r, d1, Servers, L)
Second      == Blind(c1, 1, d2, Servers, L)
OtherRoster == Blind(c2, 1, d1, {s1}, L)
OtherLength == Blind(c2, 1, d1, Servers, M)
OtherAuction == Blind(c2, 1, d1, Servers, Odd)

Messages == {Good(c, r) : c \in Clients, r \in Rounds}
              \cup {Second, OtherRoster, OtherLength, OtherAuction}

Signed(ms) == [i \in DOMAIN ms |-> [message |-> ms[i], valid |-> TRUE]]

\* A message of c2 that was changed on its way: its signature does not verify.
Changed == [message |-> Blind(c2, 1, d2, Servers, L), valid |-> FALSE]

\* Every batch of up to two of them (replays and stale rounds included), some
\* of three, and one with the message that was changed.
AllBatches ==
  {Signed(b) : b \in UNION {[1..n -> Messages] : n \in 0..2}}
    \cup {Signed(<<OtherRoster, Good(c1, 1), Good(c2, 1)>>),
          Signed(<<Good(c1, 1), OtherLength, Good(c2, 1)>>),
          Signed(<<Good(c1, 2), Second, Second>>),
          Signed(<<Good(c1, 1)>>) \o <<Changed>>}

\* What other aggregators made of c2's messages, and of c1's for another roster.
Draft == [c \in Clients |-> d1]
OtherLeaves ==
  {AggregateOf(<<c2>>, 1, Draft, Servers, L), AggregateOf(<<c2>>, 2, Draft, Servers, L),
   AggregateOf(<<c1>>, 1, Draft, {s1}, L)}
=============================================================================
