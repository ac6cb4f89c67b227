------------------------------ MODULE ResultsInv ------------------------------
(***************************************************************************)
(* The inductive invariant behind the properties of FreqMerge and Results. *)
(* TLC evaluates it on the instance of Results.cfg, Results_proofs proves  *)
(* it.                                                                     *)
(***************************************************************************)
EXTENDS Results

InputInv ==
  /\ freqs \in [Chunk -> [Word -> 0..MaxFreq]]
  /\ norms \in [Word -> Nat] /\ known \in [Chunk -> SUBSET Word]
  /\ maxItems \in Nat
  /\ ~textTypes => norms = [w \in Word |-> 1]

(* The type of a list.                                                     *)
ListOK(list) ==
  /\ DOMAIN list \subseteq Word
  /\ \A w \in DOMAIN list : list[w] \in [freq : Nat, base : Nat]

(* What may be counted has a base, also before anything has been counted.  *)
BasesInv == \A w \in DOMAIN result : norms[w] > 0 => result[w].base > 0

MergeInv ==
  /\ merged \subseteq Chunk
  /\ final => merged = Chunk
  /\ ListOK(result)
  /\ maxItems = 0 => DOMAIN result = {}
  /\ BasesInv /\ MergeIsExact /\ FinalIsTop

(* A bin in which there is an item.                                        *)
Bin == [label : Nat \ {0}, freq : Nat, base : Nat \ {0}]

(* The items of bin b, by what the bin says.                               *)
Run(b) == bins[b].label..(bins[b].label + bins[b].base - 1)

(* The bins are apart, in order, and cover the first items, to the end.    *)
Tiled(end) ==
  /\ \A b \in DOMAIN bins :
       /\ bins[b] \in Bin
       /\ bins[b].label + bins[b].base - 1 <= end
       /\ bins[b].freq = Cardinality(Tokens(Run(b)))
  /\ \A b, d \in DOMAIN bins : b < d => bins[b].label + bins[b].base <= bins[d].label
  /\ \A i \in 1..end : \E b \in DOMAIN bins : i \in Run(b)

(* While bins are made: all of them are full, and bin has the rest of what *)
(* has been taken.                                                         *)
BinningInv ==
  /\ Len(series) >= 5 /\ perBin = ItemsPerBin(series)
  /\ taken \in 0..Len(series)
  /\ bin \in [label : Nat, freq : Nat, base : Nat] /\ bin.base < perBin
  /\ bin.label = IF bin.base = 0 THEN 0 ELSE taken - bin.base + 1
  /\ bin.freq = Cardinality(Tokens((taken - bin.base + 1)..taken))
  /\ Len(bins) * perBin = taken - bin.base
  /\ Tiled(taken - bin.base)

(* When they have been made, only zeros are left.                          *)
BinnedInv ==
  /\ \E end \in 0..Len(series) :
       Tiled(end) /\ \A i \in DOMAIN series : i > end => series[i] = 0
  /\ Len(series) >= 5 => Len(bins) <= NumBins(series) + 1

BinsInv ==
  /\ series \in Seq(0..MaxItem)
  /\ bins \in Seq(Bin)
  /\ task = "bin" => bin = NoBin /\ taken = 0
  /\ task \notin {"binning", "binned"} => bins = <<>>
  /\ task = "binning" => BinningInv
  /\ task = "binned" => BinnedInv

ContextInv ==
  /\ asked \in [idx : Nat, left : Nat, kwic : Nat, right : Nat]
  /\ task = "done" => shown = Context(asked)
  /\ task # "done" => shown = [left |-> {}, kwic |-> {}, right |-> {}]

(* The kinds of computation.                                               *)
Tasks == {"merge", "bin", "binning", "binned", "context", "done"}

ResultsInv ==
  /\ task \in Tasks /\ final \in BOOLEAN
  /\ InputInv /\ MergeInv /\ BinsInv /\ ContextInv
===============================================================================
