--------------------------------- MODULE Round ---------------------------------
(***************************************************************************)
(* The four phases of a round and the order of rounds, of                  *)
(* src/protocol/round.rs.                                                  *)
(*                                                                         *)
(* A number is an i64 with MaxNumber the greatest; past it the code would  *)
(* panic or wrap around, and the theorems say nothing of it.               *)
(***************************************************************************)
EXTENDS Integers

CONSTANT MaxNumber

\* RoundContext as its discriminants: Client, Aggregator, ServerPartial and
\* ServerLeader.
RoundContext == 0 .. 3
Client       == 0
ServerLeader == 3

Rounds == [number : {n \in Int : n <= MaxNumber}, context : RoundContext]

\* RoundContext::next, and whether it wrapped.
next(context) ==
  [context |-> IF context = ServerLeader THEN Client ELSE context + 1,
   wrapped |-> context = ServerLeader]

is_after(r, other) ==
  \/ r.number > other.number
  \/ r.number = other.number /\ r.context > other.context

advance(r) ==
  LET n == next(r.context)
  IN  [number |-> IF n.wrapped THEN r.number + 1 ELSE r.number, context |-> n.context]
=============================================================================
