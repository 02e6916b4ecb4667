--------------------------- MODULE MCClientService ---------------------------
(***************************************************************************)
(* Instances of ClientService for TLC.  A vector of two chunks of two      *)
(* bytes; messages 1 and 3 need one chunk, message 2 needs both.           *)
(***************************************************************************)
EXTENDS ClientService

CONSTANTS c1, c2

Lengths == <<1, 3, 2>>

\* Every user has messages of his own.
OwnMessages == [c \in Clients |-> IF c = c1 THEN {1, 2} ELSE {3}]

\* All users send the same message.
SameMessages == [c \in Clients |-> {1}]

\* Clients that know all servers from the start, and are not told otherwise.
RegisteredInit == InitWith([c \in Clients |-> Servers])

RegisteredSpec ==
  RegisteredInit /\ [][Next /\ UNCHANGED shared_secrets]_vars

\* Only c1's caller goes on asking; those of the others may stop.
AskedSpec == RegisteredSpec /\ AskingCaller(c1)

\* RoundsAreAnswered: no client depends on the callers of another.
EveryRoundIsAnswered == RoundsAreAnswered(c1)
=============================================================================
