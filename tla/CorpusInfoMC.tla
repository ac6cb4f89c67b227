------------------------------ MODULE CorpusInfoMC ------------------------------
(* CorpusInfo for TLC: requests differ in the corpus, in the language or   *)
(* in nothing.                                                             *)
EXTENDS CorpusInfo

CONSTANTS c1, c2, l1, l2
FewAsks == {<<c1, l1>>, <<c1, l2>>, <<c2, l1>>}
================================================================================
