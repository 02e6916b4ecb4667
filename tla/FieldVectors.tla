---------------------------- MODULE FieldVectors ----------------------------
(***************************************************************************)
(* Arithmetic on vectors of field elements, in machine words:              *)
(* add_mod_slice and sub_mod_slice of src/crypto/fields.rs with their AVX2 *)
(* lanes, and the pads that src/crypto/blinding.rs draws from a keystream. *)
(*                                                                         *)
(* A word has 2 Half values (2^64 in the code).  Lanes know no carry and   *)
(* no unsigned comparison: sums wrap, and the code compares words as       *)
(* signed ones with the sign bit flipped.                                  *)
(***************************************************************************)
EXTENDS Integers, SequencesExt

CONSTANTS
  P,       \* the field
  Half,    \* 2^63
  LANES    \* words in a vector register

ASSUME FieldAssumption ==
  /\ P \in Nat \ {0} /\ Half \in Nat \ {0} /\ LANES \in Nat \ {0}
  /\ P <= Half                     \* the sum of two elements is a word

Field == 0 .. P - 1
Word  == 2 * Half
Words == 0 .. Word - 1

-----------------------------------------------------------------------------
(***************************************************************************)
(* One element.  add_mod and sub_mod are negacyclic_rings'.                *)
(***************************************************************************)
AddMod(a, b) == (a + b) % P
SubMod(a, b) == (a - b) % P

\* _mm256_add_epi64, _mm256_sub_epi64.
WrapAdd(a, b) == IF a + b < Word THEN a + b ELSE a + b - Word
WrapSub(a, b) == IF a >= b THEN a - b ELSE a - b + Word

\* Exclusive or with i64::MIN, and what _mm256_cmpgt_epi64 takes a word for.
SignFlip(x) == IF x < Half THEN x + Half ELSE x - Half
Signed(x)   == IF x < Half THEN x ELSE x - Word

CmpGt(x, y) == Signed(x) > Signed(y)

\* Variant for the mutation runs: compared with P, which is left as it is.
LaneAddLate(a, b) ==
  LET s == WrapAdd(a, b)
  IN  IF CmpGt(SignFlip(s), SignFlip(P)) THEN WrapSub(s, P) ELSE s

LaneAdd(a, b) ==
  LET s == WrapAdd(a, b)
  IN  IF CmpGt(SignFlip(s), SignFlip(P - 1)) THEN WrapSub(s, P) ELSE s

LaneSub(a, b) ==
  LET d == WrapSub(a, b)
  IN  IF CmpGt(SignFlip(b), SignFlip(a)) THEN WrapAdd(d, P) ELSE d

-----------------------------------------------------------------------------
(***************************************************************************)
(* Slices: whole registers as long as there are any, and a scalar tail.    *)
(***************************************************************************)
Shorter(l, r) == IF Len(l) < Len(r) THEN Len(l) ELSE Len(r)

InLanes(i, n, avx2) == avx2 /\ i <= n - (n % LANES)

AddModSlice(dst, src, avx2) ==
  LET n == Shorter(dst, src)
  IN  [i \in DOMAIN dst |->
         IF i > n THEN dst[i]
         ELSE IF InLanes(i, n, avx2) THEN LaneAdd(dst[i], src[i]) ELSE AddMod(dst[i], src[i])]

SubModSlice(dst, src, avx2) ==
  LET n == Shorter(dst, src)
  IN  [i \in DOMAIN dst |->
         IF i > n THEN dst[i]
         ELSE IF InLanes(i, n, avx2) THEN LaneSub(dst[i], src[i]) ELSE SubMod(dst[i], src[i])]

\* One after the other.
AddAll(dst, sources, avx2) == FoldLeft(LAMBDA acc, src : AddModSlice(acc, src, avx2), dst, sources)
SubAll(dst, sources, avx2) == FoldLeft(LAMBDA acc, src : SubModSlice(acc, src, avx2), dst, sources)

-----------------------------------------------------------------------------
(***************************************************************************)
(* single_field_pad: words of the keystream, below a multiple of P, modulo *)
(* P.  Every pass encrypts as many blocks of two words as would do if none *)
(* was rejected; the words of the last block that are not needed are lost. *)
(***************************************************************************)
\* Variant for the mutation runs: every word is taken.
AnyWord == Word

FIELD_SAMPLE_THRESHOLD == (Word \div P) * P

\* field_candidate.
IsCandidate(word) == word < FIELD_SAMPLE_THRESHOLD

Accept(out, word) == IF IsCandidate(word) THEN Append(out, word % P) ELSE out

Candidates(words) == FoldLeft(Accept, <<>>, words)

\* Variant for the mutation runs: every pass begins at block 0.
RefillFromStart(pad, stream, n) ==
  LET n_blocks == (n - Len(pad.out) + 1) \div 2
      out      == pad.out \o Candidates(SubSeq(stream, 1, 2 * n_blocks))
  IN  [counter |-> n_blocks, out |-> IF Len(out) > n THEN SubSeq(out, 1, n) ELSE out]

\* One pass: `counter` blocks of the keystream have been used up.
Refill(pad, stream, n) ==
  LET n_blocks == (n - Len(pad.out) + 1) \div 2
      drawn    == SubSeq(stream, 2 * pad.counter + 1, 2 * (pad.counter + n_blocks))
      out      == pad.out \o Candidates(drawn)
  IN  [counter |-> pad.counter + n_blocks,
       out     |-> IF Len(out) > n THEN SubSeq(out, 1, n) ELSE out]

\* Passes without need draw nothing, so as many as there are words will do.
SingleFieldPad(stream, n) ==
  LET pass[k \in Nat] ==
        IF k = 0 THEN [counter |-> 0, out |-> <<>>] ELSE Refill(pass[k - 1], stream, n)
  IN  pass[Len(stream)].out

\* A keystream has no end.  A finite one will do for n elements if there are as
\* many without its last n + 1 words, since a pass may draw that many too many.
Suffices(stream, n) == Len(Candidates(SubSeq(stream, 1, Len(stream) - n - 1))) >= n

\* derive_blinding_vector: the sum of the pads of all secrets.
DeriveBlindingVector(pads, n, avx2) == AddAll([i \in 1 .. n |-> 0], pads, avx2)
=============================================================================
