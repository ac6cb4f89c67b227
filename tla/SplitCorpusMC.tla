----------------------------- MODULE SplitCorpusMC -----------------------------
(* Chunk sizes for TLC: too small, fitting, zero and negative.             *)
EXTENDS SplitCorpus, TLC
Asks == {<<-9, TRUE>>, <<0, FALSE>>, <<1, FALSE>>, <<2, TRUE>>, <<3, FALSE>>, <<3, TRUE>>}
Interchangeable == Permutations(Splitter)
===============================================================================
