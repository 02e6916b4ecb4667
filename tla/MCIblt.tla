------------------------------- MODULE MCIblt -------------------------------
(***************************************************************************)
(* Instances of Iblt for TLC.                                              *)
(***************************************************************************)
EXTENDS IbltRound

\* Every hash of the keys; hashes differ from each other only by the places
\* they give, so the first key may be taken to be in the first column.
AllBuckets == {b \in [Keys -> [Row -> Column]] : \A row \in Row : b[0][row] = 0}

\* Keystreams in which a word is rejected now and then (15, with words of four
\* bits and a field of five elements), a different one for each secret.  The
\* pads of the first two clients add up to zero, so that sums are P itself.
AnyWords(c, s) == [k \in 1 .. 27 |-> (3 * k * c + k * k * s + (k \div 5)) % Word]

Opposite(words) ==
  [k \in DOMAIN words |-> IF IsCandidate(words[k]) THEN (15 - words[k]) % 15 ELSE words[k]]

SomeKeystream ==
  [x \in Secrets |-> IF x[1] = 2 THEN Opposite(AnyWords(1, x[2])) ELSE AnyWords(x[1], x[2])]

\* Entries with a key and a value that are not zero.
SomeContributions == {e \in Entries : e.key # 0 /\ e.value = 2}
=============================================================================
