----------------------------- MODULE VectorSums -----------------------------
(***************************************************************************)
(* How aggregate_clients_into of src/primitives/field_round.rs and of      *)
(* src/primitives/xor_round.rs divide the vectors that they add up.        *)
(***************************************************************************)
EXTENDS Integers, SequencesExt

\* usize::div_ceil.
DivCeil(a, b) == (a + b - 1) \div b

\* par_chunks: the last chunk may be shorter.
ParChunks(sources, size) ==
  [k \in 1 .. DivCeil(Len(sources), size) |->
     SubSeq(sources, (k - 1) * size + 1, IF k * size < Len(sources) THEN k * size ELSE Len(sources))]

\* Chunks are summed on their own if there are two sources for each thread.
InParallel(sources, n_threads) == Len(sources) >= 2 * n_threads

Chunked(sources, n_threads) == ParChunks(sources, DivCeil(Len(sources), n_threads))
=============================================================================
