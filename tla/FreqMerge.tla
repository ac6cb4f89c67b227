------------------------------- MODULE FreqMerge -------------------------------
(***************************************************************************)
(* Frequencies of a split corpus: each worker compiles the list of one     *)
(* chunk (worker/common.go CompileFreqResult), the handlers of parallel    *)
(* frequencies merge the lists in the order in which they arrive           *)
(* (rdb/results/results.go MergeWith) and cut the result.                  *)
(*                                                                         *)
(* A list is a function from its words to their frequency and their base,  *)
(* the number of tokens the IPM is computed from.  Lists are sorted by     *)
(* frequency and cut; which of equally frequent words stay is open.        *)
(* FanOut has the goroutines and the lock around all this.                 *)
(***************************************************************************)
EXTENDS Integers, FiniteSets, Functions

CONSTANTS
  Chunk,     \* the chunks of the corpus
  Word,      \* the words, or the values of a text type
  MaxFreq    \* the highest frequency of a word in a chunk

ASSUME MaxFreqAssumption == MaxFreq \in Nat
ASSUME FiniteAssumption  == IsFiniteSet(Chunk) /\ IsFiniteSet(Word)

VARIABLES
  freqs,      \* what Manatee finds: the frequency of each word in each chunk
  textTypes,  \* whether these are frequencies of text types
  norms,      \* the sizes of the text types
  known,      \* the values that the sizes cached by each chunk's worker know of
  maxItems,   \* the argument maxItems, of each job and of the request
  merged,     \* the chunks merged so far
  result,     \* the merged list
  final       \* whether it has been cut

inputs    == <<freqs, textTypes, norms, known, maxItems>>
mergeVars == <<inputs, merged, result, final>>

-------------------------------------------------------------------------------
(* The number of tokens of a chunk; chunks differ.                         *)
ChunkSize(c) == 1 + Cardinality({o \in Word \X (1..MaxFreq) : o[2] <= freqs[c][o[1]]})

MergeInit ==
  /\ freqs \in [Chunk -> [Word -> 0..MaxFreq]]
  /\ textTypes \in BOOLEAN
  /\ norms \in [Word -> 0..1] /\ Cardinality({w \in Word : norms[w] = 0}) <= 1
  /\ known \in [Chunk -> {S \in SUBSET Word : Cardinality(Word \ S) <= 1}]
  /\ ~textTypes => norms = [w \in Word |-> 1] /\ known = [c \in Chunk |-> Word]
  /\ maxItems \in 0..Cardinality(Word)
  /\ merged = {} /\ result = [w \in {} |-> {}] /\ final = FALSE

-------------------------------------------------------------------------------
(* All ways to cut a list, sorted by frequency, to n items.                *)
Cuts(list, n) ==
  {Restrict(list, S) : S \in
    {T \in SUBSET DOMAIN list :
       /\ Cardinality(T) = (IF Cardinality(DOMAIN list) <= n THEN Cardinality(DOMAIN list) ELSE n)
       /\ \A w \in T, v \in DOMAIN list \ T : list[w].freq >= list[v].freq}}

Item(freq, base) == [freq |-> freq, base |-> base]

Found(c) == {w \in Word : freqs[c][w] > 0}

(* Text types that have been found and have a size; all others that the    *)
(* worker knows of are added with a frequency of zero.                     *)
TypeList(c) ==
  [w \in known[c] |-> Item(IF norms[w] > 0 THEN freqs[c][w] ELSE 0, norms[w])]

(* CompileFreqResult.  A value without a known size ends it there and      *)
(* then: the worker ignores the error and takes the items so far, which    *)
(* have neither been completed nor sorted nor cut.                         *)
CompileFreqResult(c) ==
  IF ~textTypes
    THEN Cuts([w \in Found(c) |-> Item(freqs[c][w], ChunkSize(c))], maxItems)
  ELSE IF Found(c) \subseteq known[c] THEN Cuts(TypeList(c), maxItems)
  ELSE {Restrict(TypeList(c), S) : S \in SUBSET {w \in Found(c) \cap known[c] : norms[w] > 0}}

(* What arrives.  The worker rejects a maxItems of zero with an error, and *)
(* the handler merges the empty list that comes with it.                   *)
Lists(c) == IF maxItems = 0 THEN {[w \in {} |-> {}]} ELSE CompileFreqResult(c)

(* Variant: a frequency is overwritten.                                    *)
MergeWithOverwrite(list, other) ==
  [w \in DOMAIN list \cup DOMAIN other |->
     IF w \in DOMAIN other THEN other[w] ELSE list[w]]

(* Items already there keep their base; new ones are appended as they are. *)
MergeWith(list, other) ==
  [w \in DOMAIN list \cup DOMAIN other |->
     IF w \notin DOMAIN list THEN other[w]
     ELSE Item(list[w].freq + (IF w \in DOMAIN other THEN other[w].freq ELSE 0), list[w].base)]

Merge(c) ==
  /\ c \notin merged
  /\ \E list \in Lists(c) : result' = MergeWith(result, list)
  /\ merged' = merged \cup {c}
  /\ UNCHANGED <<inputs, final>>

(* Variant: the limit is taken for the last index.                         *)
CutOneMore ==
  /\ merged = Chunk /\ ~final
  /\ result' \in Cuts(result, maxItems + 1)
  /\ final' = TRUE
  /\ UNCHANGED <<inputs, merged>>

(* The handler sorts the result and cuts it, to a limit of its own if      *)
(* maxItems is zero (and the result empty).                                *)
Cut ==
  /\ merged = Chunk /\ ~final
  /\ result' \in IF maxItems = 0 THEN {result} ELSE Cuts(result, maxItems)
  /\ final' = TRUE
  /\ UNCHANGED <<inputs, merged>>

MergeNext == (\E c \in Chunk : Merge(c)) \/ Cut

-------------------------------------------------------------------------------
(* Properties.                                                             *)

(* What there is to report of a word: nothing of a text type without size. *)
(* Sums are taken by counting occurrences.                                 *)
Reported(c, w) == IF norms[w] = 0 THEN 0 ELSE freqs[c][w]
Occurrences(w) == {o \in merged \X (1..MaxFreq) : o[2] <= Reported(o[1], w)}
Total(w)       == Cardinality(Occurrences(w))

(* The worker knows the sizes of all that occurs in the chunk, and the     *)
(* word is too frequent in the chunk to be cut off.                        *)
Listed(c, w) ==
  /\ textTypes => Found(c) \subseteq known[c]
  /\ Cardinality({v \in Word : Reported(c, v) >= Reported(c, w)}) <= maxItems

(* Whatever the order in which the chunks arrive, a word has at most the   *)
(* frequency it has in them together, and just that if no chunk cut it off *)
(* or failed to know its size.  Text types are related to their own size,  *)
(* and nothing with a frequency to a size of zero.                         *)
(* (worker/common.go:35-88, rdb/results/results.go:240-255)                *)
MergeIsExact ==
  \A w \in Word :
    /\ w \in DOMAIN result =>
         /\ result[w].freq <= Total(w)
         /\ result[w].freq > 0 => result[w].base > 0
         /\ textTypes => result[w].base = norms[w]
    /\ ~final /\ Total(w) > 0 /\ (\A c \in merged : Reported(c, w) > 0 => Listed(c, w))
         => w \in DOMAIN result /\ result[w].freq = Total(w)

(* At the end, the most frequent words are there, if no chunk has cut off  *)
(* any word of its own, and never more of them than asked for.             *)
(* (corpus/handlers/freqs.go:265-278, rdb/results/results.go:38-43)        *)
FinalIsTop ==
  final =>
    /\ Cardinality(DOMAIN result) <= maxItems
    /\ (\A c \in Chunk, w \in Word : Reported(c, w) > 0 => Listed(c, w)) =>
         \A w \in DOMAIN result, v \in Word \ DOMAIN result : Total(w) >= Total(v)
===============================================================================
