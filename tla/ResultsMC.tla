------------------------------- MODULE ResultsMC -------------------------------
(* Results for TLC.  No property tells one word or one chunk from another.  *)
EXTENDS Results, TLC

SeriesLengths   == {4, 9, 10, 11, 13}
Interchangeable == Permutations(Word) \cup Permutations(Chunk)
===============================================================================
