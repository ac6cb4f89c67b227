-------------------------------- MODULE Results --------------------------------
(***************************************************************************)
(* What is computed between Manatee and the client, for inputs within      *)
(* bounds:                                                                 *)
(*   "merge"    frequencies of chunks are merged (FreqMerge);              *)
(*   "bin"      a time series is grouped into bins, as                     *)
(*              FreqsByYears does with what it streams                     *)
(*              (rdb/results/results.go BinAsDataSeries, tfbinning.go);    *)
(*   "context"  the surroundings of a token are put together               *)
(*              (worker/actions.go tokenContext).                          *)
(* Init chooses one of these and its input.                                *)
(*                                                                         *)
(* A series is the sequence of its frequencies in the order of the dates;  *)
(* the base of each item is one.  Floating point numbers are compared      *)
(* without being computed: squared, and multiplied by their denominators.  *)
(***************************************************************************)
EXTENDS FreqMerge, Sequences, SequencesExt

CONSTANTS
  Lengths,   \* the lengths of series
  Window,    \* analysisWindowSize
  Peak,      \* the frequency of the one item that stands out
  Size       \* the number of positions of the corpus

ASSUME LengthsAssumption == Lengths \subseteq Nat
ASSUME WindowAssumption  == Window \in Nat \ {0, 1}
ASSUME ValuesAssumption  == Peak \in Nat /\ Size \in Nat

VARIABLES
  task,     \* what is computed
  series,   \* the time series
  bins,     \* its bins
  bin,      \* the bin begun
  perBin,   \* the number of items of a bin
  taken,    \* the number of items taken into bins
  asked,    \* the token and the width of its surroundings
  shown     \* the tokens left of it, in it and right of it

binVars    == <<bins, bin, perBin, taken>>
resultVars == <<task, series, binVars, asked, shown>>
vars       == <<mergeVars, resultVars>>

-------------------------------------------------------------------------------
(* Binning.                                                                *)

SumOf(s) == FoldLeft(LAMBDA x, y : x + y, 0, s)
Ceil(n, d) == (n + d - 1) \div d

(* The window that begins with item i.                                     *)
WindowAt(s, i) == SubSeq(s, i, i + Window - 1)

(* With T the sum and Q the sum of squares of a window of w items, the     *)
(* square of the z-score of its first item f is                            *)
(*     (w f - T)^2 (w - 1)  /  w (w Q - T^2),                              *)
(* and no number at all if all items of the window are the same.           *)
Scatter(win)  == Window * SumOf([i \in 1..Window |-> win[i] * win[i]]) - SumOf(win) * SumOf(win)
Distance(win) == Window * win[1] - SumOf(win)

(* The greatest absolute z-score is below half of h.  It is not a number,  *)
(* and below nothing, if one of them is not.                               *)
ZScoresBelow(s, h) ==
  \A i \in 1..(Len(s) - Window + 1) :
    LET win == WindowAt(s, i)
    IN  4 * Distance(win) * Distance(win) * (Window - 1) < h * h * Window * Scatter(win)

NumZeroFreq(s) == Cardinality({i \in DOMAIN s : s[i] = 0})

(* The heuristic: the calmer the series, the fewer bins.                   *)
NumBins(s) ==
  IF Len(s) <= 10 THEN Len(s)
  ELSE IF ZScoresBelow(s, 5)
    THEN (IF NumZeroFreq(s) > Len(s) \div 10 THEN Ceil(Len(s), 10) ELSE Ceil(Len(s), 5))
  ELSE IF ZScoresBelow(s, 7) THEN Ceil(Len(s), 3)
  ELSE Len(s)

(* math.RoundToEven of a / b.                                              *)
RoundToEven(a, b) ==
  LET q == a \div b  twice == 2 * (a % b)
  IN  IF twice < b THEN q ELSE IF twice > b THEN q + 1 ELSE q + (q % 2)

ItemsPerBin(s) == RoundToEven(Len(s), NumBins(s))

NoBin == [label |-> 0, freq |-> 0, base |-> 0]

Panics(s) == Len(s) >= 5 /\ Window > Len(s)

-------------------------------------------------------------------------------
(* The context of a token.                                                 *)

(* Manatee's region, without its last position.                            *)
CorpRegion(from, to) == {p \in 0..(Size - 1) : from <= p /\ p < to}
AtLeastZero(n) == IF n < 0 THEN 0 ELSE n

(* Variant: the left region begins where it may be negative and is empty.  *)
ContextUnbounded(a) ==
  [left  |-> IF a.idx - a.left < 0 THEN {} ELSE CorpRegion(a.idx - a.left, a.idx),
   kwic  |-> CorpRegion(a.idx, a.idx + a.kwic),
   right |-> CorpRegion(a.idx + a.kwic + 1, a.idx + a.right + a.kwic)]

(* The three regions tokenContext asks for.                                *)
Context(a) ==
  [left  |-> CorpRegion(AtLeastZero(a.idx - a.left), AtLeastZero(a.idx)),
   kwic  |-> CorpRegion(a.idx, a.idx + a.kwic),
   right |-> CorpRegion(a.idx + a.kwic + 1, a.idx + a.right + a.kwic)]

-------------------------------------------------------------------------------
NoSeries == <<>>
NoToken  == [idx |-> 0, left |-> 0, kwic |-> 0, right |-> 0]
NoMerge  == /\ freqs = [c \in Chunk |-> [w \in Word |-> 0]] /\ textTypes = FALSE
            /\ norms = [w \in Word |-> 1] /\ known = [c \in Chunk |-> Word] /\ maxItems = 0
            /\ merged = {} /\ result = [w \in {} |-> {}] /\ final = FALSE

(* A series of zeros and ones, in which one item may stand out.            *)
Calm(lengths) == UNION {[1..n -> {0, 1}] : n \in lengths}
Series == Calm(Lengths) \cup {[s EXCEPT ![1] = Peak] : s \in Calm(Lengths \ {0})}

Init ==
  /\ bins = <<>> /\ bin = NoBin /\ perBin = 0 /\ taken = 0
  /\ shown = [left |-> {}, kwic |-> {}, right |-> {}]
  /\ \/ task = "merge" /\ MergeInit /\ series = NoSeries /\ asked = NoToken
     \/ task = "bin" /\ NoMerge /\ series \in Series /\ asked = NoToken
     \/ /\ task = "context" /\ NoMerge /\ series = NoSeries
        /\ asked \in [idx : 0..Size, left : 0..Size, kwic : 0..2, right : 0..Size]

(* BinAsDataSeries.  A short series stays as it is; a series longer than   *)
(* that and shorter than the window panics.                                *)
BeginBins ==
  /\ task = "bin" /\ ~Panics(series)
  /\ \/ /\ Len(series) < 5 /\ task' = "binned"
        /\ bins' = [i \in DOMAIN series |-> [label |-> i, freq |-> series[i], base |-> 1]]
        /\ UNCHANGED perBin
     \/ /\ Len(series) >= 5 /\ task' = "binning"
        /\ perBin' = ItemsPerBin(series)
        /\ UNCHANGED bins
  /\ UNCHANGED <<mergeVars, series, bin, taken, asked, shown>>

(* The bin begun, with item i.                                             *)
Joined(i) ==
  [label |-> IF bin.label = 0 THEN i ELSE bin.label,
   freq  |-> bin.freq + series[i], base |-> bin.base + 1]

(* Variant: the frequency of a full bin is carried over to the next.       *)
TakeItemKeeping ==
  /\ task = "binning" /\ taken < Len(series) /\ taken' = taken + 1
  /\ \/ /\ taken' % perBin = 0
        /\ bins' = Append(bins, Joined(taken')) /\ bin' = [NoBin EXCEPT !.freq = Joined(taken').freq]
     \/ /\ taken' % perBin # 0
        /\ bin' = Joined(taken') /\ UNCHANGED bins
  /\ UNCHANGED <<mergeVars, task, series, perBin, asked, shown>>

(* One turn of the loop: the next item joins the bin begun, which may be   *)
(* full now.                                                               *)
TakeItem ==
  /\ task = "binning" /\ taken < Len(series) /\ taken' = taken + 1
  /\ \/ /\ taken' % perBin = 0
        /\ bins' = Append(bins, Joined(taken')) /\ bin' = NoBin
     \/ /\ taken' % perBin # 0
        /\ bin' = Joined(taken') /\ UNCHANGED bins
  /\ UNCHANGED <<mergeVars, task, series, perBin, asked, shown>>

(* Variant: what does not fill a bin is dropped.                           *)
EndBinsDroppingLast ==
  /\ task = "binning" /\ taken = Len(series) /\ task' = "binned"
  /\ UNCHANGED <<mergeVars, series, binVars, asked, shown>>

(* The last bin, if it is not full, is kept only with a frequency.         *)
EndBins ==
  /\ task = "binning" /\ taken = Len(series) /\ task' = "binned"
  /\ bins' = IF bin.freq > 0 THEN Append(bins, bin) ELSE bins
  /\ UNCHANGED <<mergeVars, series, bin, perBin, taken, asked, shown>>

TokenContext ==
  /\ task = "context"
  /\ shown' = Context(asked)
  /\ task' = "done"
  /\ UNCHANGED <<mergeVars, series, binVars, asked>>

Next ==
  \/ task = "merge" /\ MergeNext /\ UNCHANGED resultVars
  \/ BeginBins \/ TakeItem \/ EndBins
  \/ TokenContext

Spec == Init /\ [][Next]_vars

-------------------------------------------------------------------------------
(* Properties.                                                             *)

TypeOK ==
  /\ task \in {"merge", "bin", "binning", "binned", "context", "done"}
  /\ merged \subseteq Chunk /\ DOMAIN result \subseteq Word /\ final \in BOOLEAN
  /\ \A w \in DOMAIN result :
       result[w] \in [freq : 0..(MaxFreq * Cardinality(Chunk)), base : Nat]
  /\ \A i \in DOMAIN bins : bins[i] \in [label : 1..Len(series), freq : Nat, base : 1..Len(series)]
  /\ \A r \in DOMAIN shown : shown[r] \subseteq 0..(Size - 1)

(* The items of bin b: from its label to the label of the next one.        *)
Grouped(b) ==
  {i \in DOMAIN series : bins[b].label <= i /\ (b < Len(bins) => i < bins[b + 1].label)
                         /\ i < bins[b].label + bins[b].base}

(* The tokens of some items.  The sum of their frequencies is their number.*)
MaxItem   == IF Peak > 1 THEN Peak ELSE 1
Tokens(S) == {o \in S \X (1..MaxItem) : o[2] <= series[o[1]]}

(* Bins are runs of consecutive items, as large as they say, and say how   *)
(* frequent their items are; no item is in two bins, and at most the zeros *)
(* at the end are in none: no frequency is lost or counted twice.  There   *)
(* is at most one bin more than the heuristic wants.                       *)
(* (rdb/results/results.go:86-144)                                         *)
BinsKeepTotals ==
  task = "binned" =>
    /\ \A b \in DOMAIN bins :
         /\ Cardinality(Grouped(b)) = bins[b].base
         /\ bins[b].freq = Cardinality(Tokens(Grouped(b)))
         /\ \A d \in DOMAIN bins \ {b} : Grouped(b) \cap Grouped(d) = {}
    /\ \A i \in DOMAIN series :
         (\A b \in DOMAIN bins : i \notin Grouped(b)) =>
           \A j \in DOMAIN series : j >= i => series[j] = 0
    /\ Len(series) >= 5 => Len(bins) <= NumBins(series) + 1

(* The three regions of a context are apart, in order and without a gap on *)
(* the left: they show the window asked for, clipped to the corpus, but    *)
(* for the first token right of the match, which is missing.               *)
(* (worker/actions.go:261-319)                                             *)
ContextIsWindow ==
  task = "done" =>
    LET a      == asked
        window == {p \in 0..(Size - 1) : p >= a.idx - a.left /\ p < a.idx + a.kwic + a.right}
    IN  /\ shown.left \cup shown.kwic \cup shown.right = window \ {a.idx + a.kwic}
        /\ \A p \in shown.left, q \in shown.kwic, r \in shown.right : p < q /\ q < r
        /\ shown.kwic = {p \in 0..(Size - 1) : a.idx <= p /\ p < a.idx + a.kwic}
===============================================================================
