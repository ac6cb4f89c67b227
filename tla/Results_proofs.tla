---------------------------- MODULE Results_proofs ----------------------------
(***************************************************************************)
(* Proofs about Results and FreqMerge.                                     *)
(***************************************************************************)
EXTENDS ResultsInv, FiniteSetTheorems, TLAPS

-------------------------------------------------------------------------------
(* Counting.                                                               *)

(* There are n numbers from one to n.                                      *)
LEMMA CountUpTo ==
  ASSUME NEW n \in Nat, NEW c
  PROVE  IsFiniteSet({c} \X (1..n)) /\ Cardinality({c} \X (1..n)) = n
<1>1. IsFiniteSet(1..n) /\ Cardinality(1..n) = n
  BY FS_Interval
<1>2. IsFiniteSet({c}) /\ Cardinality({c}) = 1
  BY FS_Singleton
<1>3. /\ Cardinality({c} \X (1..n)) = Cardinality({c}) * Cardinality(1..n)
      /\ IsFiniteSet({c} \X (1..n))
  BY <1>1, <1>2, FS_Product, Zenon
<1> QED  BY <1>1, <1>2, <1>3

(* What there is to report of a word is one of the frequencies Manatee can *)
(* find.                                                                   *)
LEMMA ReportedIsBounded ==
  ASSUME InputInv, NEW c \in Chunk, NEW w \in Word
  PROVE  Reported(c, w) \in 0..MaxFreq
<1>1. freqs[c][w] \in 0..MaxFreq
  BY DEF InputInv
<1> QED  BY <1>1, MaxFreqAssumption DEF Reported

(* The occurrences of a word are finitely many.                            *)
LEMMA TotalIsNatural ==
  ASSUME merged \subseteq Chunk, NEW w \in Word
  PROVE  IsFiniteSet(Occurrences(w)) /\ Total(w) \in Nat
<1>1. IsFiniteSet(merged) /\ IsFiniteSet(1..MaxFreq)
  BY FiniteAssumption, MaxFreqAssumption, FS_Subset, FS_Interval
<1>2. IsFiniteSet(merged \X (1..MaxFreq))
  BY <1>1, FS_Product
<1>3. Occurrences(w) \subseteq merged \X (1..MaxFreq)
  BY DEF Occurrences
<1>4. IsFiniteSet(Occurrences(w))
  BY <1>2, <1>3, FS_Subset
<1> QED  BY <1>4, FS_CardinalityType DEF Total

(* A chunk merged adds what there is to report of it to the total.         *)
LEMMA TotalGrows ==
  ASSUME InputInv, merged \subseteq Chunk, NEW c \in Chunk, c \notin merged,
         merged' = merged \cup {c}, UNCHANGED inputs, NEW w \in Word
  PROVE  Total(w)' = Total(w) + Reported(c, w)
<1> DEFINE here == {c} \X (1..Reported(c, w))
<1>0. Reported(c, w) \in 0..MaxFreq
  BY ReportedIsBounded
<1>1. IsFiniteSet(here) /\ Cardinality(here) = Reported(c, w)
  BY <1>0, CountUpTo, MaxFreqAssumption
<1>2. IsFiniteSet(Occurrences(w)) /\ Total(w) \in Nat
  BY TotalIsNatural
<1>3. Occurrences(w)' = Occurrences(w) \cup here
  <2>1. \A d : Reported(d, w)' = Reported(d, w)
    BY DEF Reported, inputs
  <2>2. ASSUME NEW o  PROVE o \in Occurrences(w)' <=> o \in Occurrences(w) \cup here
    BY <1>0, <2>1, MaxFreqAssumption DEF Occurrences
  <2> QED  BY <2>2
<1>4. Occurrences(w) \cap here = {}
  BY DEF Occurrences
<1>5. Cardinality(Occurrences(w) \cup here) = Cardinality(Occurrences(w)) + Cardinality(here) - 0
  BY <1>1, <1>2, <1>4, FS_Union, FS_EmptySet
<1> HIDE DEF here
<1> QED  BY <1>0, <1>1, <1>2, <1>3, <1>5 DEF Total

(* A chunk has at least one token.                                         *)
LEMMA ChunkSizeIsPositive ==
  ASSUME NEW c \in Chunk
  PROVE  ChunkSize(c) \in Nat /\ ChunkSize(c) > 0
<1> DEFINE occurring == {o \in Word \X (1..MaxFreq) : o[2] <= freqs[c][o[1]]}
<1>1. IsFiniteSet(Word \X (1..MaxFreq))
  <2>1. IsFiniteSet(Word) /\ IsFiniteSet(1..MaxFreq)
    BY FiniteAssumption, MaxFreqAssumption, FS_Interval
  <2> QED  BY <2>1, FS_Product
<1>2. IsFiniteSet(occurring)
  <2>1. occurring \subseteq Word \X (1..MaxFreq)
    OBVIOUS
  <2> QED  BY <1>1, <2>1, FS_Subset
<1>3. Cardinality(occurring) \in Nat
  BY <1>2, FS_CardinalityType
<1>4. ChunkSize(c) = 1 + Cardinality(occurring)
  BY DEF ChunkSize
<1> HIDE DEF occurring
<1> QED  BY <1>3, <1>4

-------------------------------------------------------------------------------
(* Numbers.                                                                *)

(* Division, where the quotient is known.                                  *)
LEMMA Divided ==
  ASSUME NEW a \in Nat, NEW p \in Nat \ {0}
  PROVE  a \div p \in Nat /\ a % p \in 0..(p - 1) /\ a = p * (a \div p) + (a % p)
OBVIOUS

(* The next multiple is one multiplicand away at least.                    *)
LEMMA Multiples ==
  ASSUME NEW p \in Nat \ {0}, NEW k \in Nat, NEW l \in Nat, k < l
  PROVE  p * k + p <= p * l
<1>1. PICK m \in Nat : l = k + 1 + m
  <2>1. l - k - 1 \in Nat /\ l = k + 1 + (l - k - 1)
    OBVIOUS
  <2> QED  BY <2>1
<1>2. p * l = p * k + p + p * m /\ p * m \in Nat
  BY <1>1
<1>3. p * k \in Nat
  OBVIOUS
<1> QED  BY <1>2, <1>3

(* A remainder is unique.                                                  *)
LEMMA Remainder ==
  ASSUME NEW a \in Nat, NEW p \in Nat \ {0}, NEW l \in Nat, NEW r \in 0..(p - 1),
         a = l * p + r
  PROVE  a % p = r
<1> DEFINE q == a \div p
           m == a % p
<1>1. q \in Nat /\ m \in 0..(p - 1) /\ a = p * q + m
  BY Divided
<1> HIDE DEF q, m
<1>2. a = p * l + r /\ p * l \in Nat /\ p * q \in Nat
  BY <1>1
<1>3. ~(q < l)
  BY <1>1, <1>2, Multiples
<1>4. ~(l < q)
  BY <1>1, <1>2, Multiples
<1>5. q = l
  BY <1>1, <1>3, <1>4
<1> QED  BY <1>1, <1>2, <1>5 DEF m

(* An item fills the bin begun just if that lacks no more than one.        *)
LEMMA Filled ==
  ASSUME NEW p \in Nat \ {0}, NEW l \in Nat, NEW r \in 0..(p - 1), NEW a \in Nat,
         a = l * p + r
  PROVE  /\ (a + 1) % p = 0 <=> r + 1 = p
         /\ r + 1 = p => (l + 1) * p = a + 1
<1>1. CASE r + 1 = p
  <2>1. (l + 1) * p = l * p + p /\ l * p \in Nat
    OBVIOUS
  <2>2. a + 1 = (l + 1) * p + 0
    BY <1>1, <2>1
  <2>3. (a + 1) % p = 0
    BY <2>2, Remainder
  <2> QED  BY <1>1, <2>2, <2>3
<1>2. CASE r + 1 # p
  <2>1. l * p \in Nat
    OBVIOUS
  <2>2. r + 1 \in 0..(p - 1) /\ a + 1 = l * p + (r + 1)
    BY <1>2, <2>1
  <2>3. (a + 1) % p = r + 1
    BY <2>2, Remainder
  <2> QED  BY <1>2, <2>3
<1> QED  BY <1>1, <1>2

(* A quotient is rounded to an integer not further away than a half.       *)
LEMMA Rounded ==
  ASSUME NEW a \in Nat, NEW b \in Nat \ {0}
  PROVE  /\ RoundToEven(a, b) \in Nat
         /\ 2 * a <= 2 * (b * RoundToEven(a, b)) + b
         /\ 2 * (b * RoundToEven(a, b)) <= 2 * a + b
<1> DEFINE q == a \div b
           m == a % b
           r == RoundToEven(a, b)
<1>1. q \in Nat /\ m \in 0..(b - 1) /\ a = b * q + m
  BY Divided
<1>2. q % 2 \in {0, 1}
  BY <1>1
<1>3. r = IF 2 * m < b THEN q ELSE IF 2 * m > b THEN q + 1 ELSE q + (q % 2)
  BY DEF RoundToEven
<1> HIDE DEF q, m, r
<1>4. b * (q + 1) = b * q + b /\ b * q \in Nat
  BY <1>1
<1>5. CASE r = q /\ 2 * m <= b
  BY <1>1, <1>4, <1>5 DEF r
<1>6. CASE r = q + 1 /\ 2 * m >= b
  BY <1>1, <1>4, <1>6 DEF r
<1>7. (r = q /\ 2 * m <= b) \/ (r = q + 1 /\ 2 * m >= b)
  BY <1>1, <1>2, <1>3
<1> QED  BY <1>5, <1>6, <1>7

(* Ceil rounds up.                                                         *)
LEMMA RoundedUp ==
  ASSUME NEW n \in Nat, NEW d \in {3, 5, 10}
  PROVE  Ceil(n, d) \in Nat /\ n <= d * Ceil(n, d) /\ d * Ceil(n, d) <= n + d - 1
<1>1. CASE d = 3
  BY <1>1 DEF Ceil
<1>2. CASE d = 5
  BY <1>2 DEF Ceil
<1>3. CASE d = 10
  BY <1>3 DEF Ceil
<1> QED  BY <1>1, <1>2, <1>3

(* If n items are put into bins of p, where p has been rounded from the    *)
(* quotient of n and the number of bins wanted, w, and w from that of n    *)
(* and d, there is at most one bin more than wanted.                       *)
LEMMA FewBins ==
  ASSUME NEW d \in {3, 5, 10}, NEW n \in Nat, n > 10, NEW w \in Nat,
         n <= d * w, d * w <= n + d - 1,
         NEW p \in Nat, 2 * n <= 2 * (w * p) + w, 2 * (w * p) <= 2 * n + w
  PROVE  /\ p > 0
         /\ \A l \in Nat, r \in 0..(p - 1) :
              n = l * p + r => l + (IF r > 0 THEN 1 ELSE 0) <= w + 1
<1>1. p \in 1..d
  <2>1. w > 0
    OBVIOUS
  <2>2. ASSUME p = 0  PROVE FALSE
    BY <2>2
  <2>3. ASSUME p > d  PROVE FALSE
    <3>1. PICK k \in Nat : p = d + 1 + k
      <4>1. p - d - 1 \in Nat /\ p = d + 1 + (p - d - 1)
        BY <2>3
      <4> QED  BY <4>1
    <3>2. w * p = w * d + w + w * k /\ w * k \in Nat
      BY <3>1
    <3>3. 2 * (d * w) + 2 * w <= 2 * n + w
      BY <3>2
    <3> QED  BY <2>1, <3>3
  <2> QED  BY <2>2, <2>3
<1>2. ASSUME NEW l \in Nat, NEW r \in 0..(p - 1), n = l * p + r
      PROVE  l + (IF r > 0 THEN 1 ELSE 0) <= w + 1
  <2>1. CASE d = 3
    <3>1. p \in {1, 2, 3}
      BY <1>1, <2>1
    <3> QED  BY <1>2, <2>1, <3>1
  <2>2. CASE d = 5
    <3>1. p \in {1, 2, 3, 4, 5}
      BY <1>1, <2>2
    <3> QED  BY <1>2, <2>2, <3>1
  <2>3. CASE d = 10
    <3>1. p \in {1, 2, 3, 4, 5} \/ p \in {6, 7, 8, 9, 10}
      BY <1>1, <2>3
    <3> QED  BY <1>2, <2>3, <3>1
  <2> QED  BY <2>1, <2>2, <2>3
<1> QED  BY <1>1, <1>2

-------------------------------------------------------------------------------
(* Lists.                                                                  *)

(* What is cut off leaves the rest as it was, is not too little, and is    *)
(* not more frequent than anything that stays.                             *)
LEMMA CutKeepsTop ==
  ASSUME NEW list, IsFiniteSet(DOMAIN list), NEW n \in Nat, NEW cut \in Cuts(list, n)
  PROVE  /\ DOMAIN cut \subseteq DOMAIN list
         /\ \A w \in DOMAIN cut : cut[w] = list[w]
         /\ Cardinality(DOMAIN cut) <= n
         /\ \A w \in DOMAIN cut, v \in DOMAIN list \ DOMAIN cut :
              list[w].freq >= list[v].freq
         /\ \A v \in DOMAIN list \ DOMAIN cut : Cardinality(DOMAIN cut) = n
<1>1. PICK T \in SUBSET DOMAIN list :
        /\ cut = Restrict(list, T)
        /\ Cardinality(T) = (IF Cardinality(DOMAIN list) <= n
                               THEN Cardinality(DOMAIN list) ELSE n)
        /\ \A w \in T, v \in DOMAIN list \ T : list[w].freq >= list[v].freq
  BY DEF Cuts
<1>2. DOMAIN cut = T /\ \A w \in T : cut[w] = list[w]
  BY <1>1 DEF Restrict
<1>3. Cardinality(DOMAIN list) \in Nat
  BY FS_CardinalityType
<1>4. Cardinality(T) <= n
  BY <1>1, <1>3
<1>5. ASSUME NEW v \in DOMAIN list \ T  PROVE Cardinality(T) = n
  <2>1. Cardinality(T) # Cardinality(DOMAIN list)
    BY <1>1, <1>5, FS_Subset
  <2> QED  BY <1>1, <2>1
<1> QED  BY <1>1, <1>2, <1>4, <1>5

(* A word that at most n words are as frequent as is among the n first.    *)
LEMMA FrequentStays ==
  ASSUME NEW list, DOMAIN list \subseteq Word, NEW n \in Nat, NEW cut \in Cuts(list, n),
         NEW atLeast \in SUBSET Word, Cardinality(atLeast) <= n,
         NEW w \in DOMAIN list, w \in atLeast,
         \A v \in DOMAIN list : list[v].freq >= list[w].freq => v \in atLeast
  PROVE  w \in DOMAIN cut
<1>1. SUFFICES ASSUME w \notin DOMAIN cut  PROVE FALSE
  OBVIOUS
<1>2. IsFiniteSet(DOMAIN list) /\ IsFiniteSet(atLeast)
  BY FiniteAssumption, FS_Subset
<1>3. /\ DOMAIN cut \subseteq DOMAIN list /\ Cardinality(DOMAIN cut) = n
      /\ \A v \in DOMAIN cut : list[v].freq >= list[w].freq
  BY <1>1, <1>2, CutKeepsTop
<1>4. IsFiniteSet(DOMAIN cut)
  BY <1>2, <1>3, FS_Subset
<1>5. IsFiniteSet(DOMAIN cut \cup {w}) /\ Cardinality(DOMAIN cut \cup {w}) = n + 1
  BY <1>1, <1>3, <1>4, FS_AddElement
<1>6. DOMAIN cut \cup {w} \subseteq atLeast
  BY <1>3
<1>7. Cardinality(DOMAIN cut \cup {w}) <= Cardinality(atLeast)
  BY <1>2, <1>6, FS_Subset
<1>8. Cardinality(atLeast) \in Nat
  BY <1>2, FS_CardinalityType
<1> QED  BY <1>5, <1>7, <1>8

(* What a list of a chunk says of the chunk: nothing if maxItems is zero;  *)
(* no more of a word than there is to report, related to the right base;   *)
(* and just that of every word which is listed.                            *)
ListIsRight(c, list) ==
  /\ ListOK(list)
  /\ maxItems = 0 => DOMAIN list = {}
  /\ \A w \in DOMAIN list :
       /\ list[w].freq <= Reported(c, w)
       /\ norms[w] > 0 => list[w].base > 0
       /\ textTypes => list[w].base = norms[w]
  /\ \A w \in Word : Reported(c, w) > 0 /\ Listed(c, w) =>
       w \in DOMAIN list /\ list[w].freq = Reported(c, w)

(* A list in which all there is to report is reported, once it is cut.     *)
LEMMA CutOfFullList ==
  ASSUME InputInv, maxItems > 0, NEW c \in Chunk, NEW full, NEW list \in Cuts(full, maxItems),
         ListOK(full),
         \A w \in DOMAIN full :
           /\ full[w].freq = Reported(c, w)
           /\ norms[w] > 0 => full[w].base > 0
           /\ textTypes => full[w].base = norms[w],
         \A w \in Word : Reported(c, w) > 0 => w \in DOMAIN full
  PROVE  ListIsRight(c, list)
<1>1. maxItems \in Nat /\ DOMAIN full \subseteq Word
  BY DEF InputInv, ListOK
<1>2. IsFiniteSet(DOMAIN full)
  BY <1>1, FiniteAssumption, FS_Subset
<1>3. DOMAIN list \subseteq DOMAIN full /\ \A w \in DOMAIN list : list[w] = full[w]
  BY <1>1, <1>2, CutKeepsTop
<1>4. ListOK(list)
  BY <1>1, <1>3 DEF ListOK
<1>5. \A w \in DOMAIN list :
        /\ list[w].freq <= Reported(c, w)
        /\ norms[w] > 0 => list[w].base > 0
        /\ textTypes => list[w].base = norms[w]
  <2> TAKE w \in DOMAIN list
  <2>1. w \in Word /\ list[w] = full[w] /\ w \in DOMAIN full
    BY <1>1, <1>3
  <2>2. Reported(c, w) \in Nat
    BY <2>1, ReportedIsBounded, MaxFreqAssumption
  <2> QED  BY <2>1, <2>2
<1>6. ASSUME NEW w \in Word, Reported(c, w) > 0, Listed(c, w)
      PROVE  w \in DOMAIN list /\ list[w].freq = Reported(c, w)
  <2> DEFINE atLeast == {v \in Word : Reported(c, v) >= Reported(c, w)}
  <2>1. Cardinality(atLeast) <= maxItems
    BY <1>6 DEF Listed
  <2>2. w \in DOMAIN full /\ w \in atLeast /\ atLeast \in SUBSET Word
    BY <1>6, ReportedIsBounded, MaxFreqAssumption
  <2>3. \A v \in DOMAIN full : full[v].freq >= full[w].freq => v \in atLeast
    BY <1>1, <2>2
  <2> HIDE DEF atLeast
  <2>4. w \in DOMAIN list
    BY <1>1, <2>1, <2>2, <2>3, FrequentStays
  <2> QED  BY <1>3, <2>4
<1> QED  BY <1>4, <1>5, <1>6 DEF ListIsRight

(* What arrives of a chunk is right.                                       *)
LEMMA ListsAreRight ==
  ASSUME InputInv, NEW c \in Chunk, NEW list \in Lists(c)
  PROVE  ListIsRight(c, list)
<1>1. /\ maxItems \in Nat /\ known[c] \subseteq Word
      /\ \A w \in Word : freqs[c][w] \in 0..MaxFreq /\ norms[w] \in Nat
  BY DEF InputInv
<1>2. ASSUME NEW f, NEW b  PROVE Item(f, b).freq = f /\ Item(f, b).base = b
  BY DEF Item
<1>3. CASE maxItems = 0
  <2>1. DOMAIN list = {}
    BY <1>3 DEF Lists
  <2>2. ASSUME NEW w \in Word  PROVE ~Listed(c, w)
    <3> DEFINE atLeast == {v \in Word : Reported(c, v) >= Reported(c, w)}
    <3>1. IsFiniteSet(atLeast)
      <4>1. atLeast \subseteq Word
        OBVIOUS
      <4> QED  BY <4>1, FiniteAssumption, FS_Subset
    <3>2. w \in atLeast
      BY ReportedIsBounded, MaxFreqAssumption
    <3>3. Cardinality(atLeast) \in Nat /\ Cardinality(atLeast) # 0
      BY <3>1, <3>2, FS_CardinalityType, FS_EmptySet
    <3>4. Listed(c, w) => Cardinality(atLeast) <= 0
      BY <1>3 DEF Listed
    <3> HIDE DEF atLeast
    <3> QED  BY <3>3, <3>4
  <2> QED  BY <2>1, <2>2 DEF ListIsRight, ListOK
<1>4. CASE maxItems > 0
  <2>1. list \in CompileFreqResult(c)
    BY <1>4 DEF Lists
  <2>2. CASE ~textTypes
    <3> DEFINE full == [w \in Found(c) |-> Item(freqs[c][w], ChunkSize(c))]
    <3>1. list \in Cuts(full, maxItems)
      BY <2>1, <2>2 DEF CompileFreqResult
    <3>2. \A w \in Word : norms[w] = 1 /\ Reported(c, w) = freqs[c][w]
      BY <2>2 DEF InputInv, Reported
    <3>3. DOMAIN full = Found(c) /\ Found(c) \subseteq Word
      BY DEF Found
    <3>4. \A w \in Found(c) : full[w].freq = freqs[c][w] /\ full[w].base = ChunkSize(c)
      BY <1>2
    <3>5. \A w \in Found(c) : full[w] \in [freq : Nat, base : Nat]
      BY <1>1, <3>3, ChunkSizeIsPositive, MaxFreqAssumption DEF Item
    <3>6. \A w \in Word : Reported(c, w) > 0 => w \in Found(c)
      BY <3>2 DEF Found
    <3> HIDE DEF full
    <3>7. ListOK(full)
      BY <3>3, <3>5 DEF ListOK
    <3>8. \A w \in DOMAIN full :
            /\ full[w].freq = Reported(c, w)
            /\ norms[w] > 0 => full[w].base > 0
            /\ textTypes => full[w].base = norms[w]
      BY <2>2, <3>2, <3>3, <3>4, ChunkSizeIsPositive
    <3> QED  BY <1>4, <3>1, <3>3, <3>6, <3>7, <3>8, CutOfFullList
  <2>3. ASSUME textTypes
        PROVE  /\ DOMAIN TypeList(c) = known[c] /\ ListOK(TypeList(c))
               /\ \A w \in known[c] :
                    /\ TypeList(c)[w].freq = Reported(c, w)
                    /\ TypeList(c)[w].base = norms[w]
    <3>1. ASSUME NEW w \in known[c]
          PROVE  /\ TypeList(c)[w].freq = Reported(c, w)
                 /\ TypeList(c)[w].base = norms[w]
                 /\ TypeList(c)[w] \in [freq : Nat, base : Nat]
      <4>1. freqs[c][w] \in Nat /\ norms[w] \in Nat
        BY <1>1, MaxFreqAssumption
      <4>2. TypeList(c)[w] = Item(Reported(c, w), norms[w])
        BY <4>1 DEF TypeList, Reported
      <4>3. Reported(c, w) \in Nat
        BY <4>1 DEF Reported
      <4> QED  BY <4>1, <4>2, <4>3 DEF Item
    <3>2. DOMAIN TypeList(c) = known[c]
      BY DEF TypeList
    <3> QED  BY <1>1, <3>1, <3>2 DEF ListOK
  <2>4. CASE textTypes /\ Found(c) \subseteq known[c]
    <3>1. list \in Cuts(TypeList(c), maxItems)
      BY <2>1, <2>4 DEF CompileFreqResult
    <3>2. \A w \in Word : Reported(c, w) > 0 => w \in known[c]
      BY <1>1, <2>4 DEF Found, Reported
    <3> QED  BY <1>4, <2>3, <2>4, <3>1, <3>2, CutOfFullList
  <2>5. CASE textTypes /\ ~(Found(c) \subseteq known[c])
    <3>1. PICK S \in SUBSET {w \in Found(c) \cap known[c] : norms[w] > 0} :
            list = Restrict(TypeList(c), S)
      BY <2>1, <2>5 DEF CompileFreqResult
    <3>2. DOMAIN list = S /\ S \subseteq known[c] /\ \A w \in S : list[w] = TypeList(c)[w]
      BY <3>1 DEF Restrict
    <3>3. ListOK(list)
      BY <2>3, <2>5, <3>2 DEF ListOK
    <3>4. \A w \in Word : ~Listed(c, w)
      BY <2>5 DEF Listed
    <3>5. ASSUME NEW w \in S
          PROVE  /\ list[w].freq <= Reported(c, w)
                 /\ norms[w] > 0 => list[w].base > 0
                 /\ textTypes => list[w].base = norms[w]
      <4>1. w \in Word /\ Reported(c, w) \in Nat
        BY <1>1, <3>2, ReportedIsBounded, MaxFreqAssumption
      <4> QED  BY <2>3, <2>5, <3>2, <4>1
    <3> QED  BY <1>4, <3>2, <3>3, <3>4, <3>5 DEF ListIsRight
  <2> QED  BY <2>2, <2>4, <2>5
<1> QED  BY <1>1, <1>3, <1>4

-------------------------------------------------------------------------------
(* The steps.                                                              *)

(* A list that has the words of two others, with the sum of what they say. *)
Combines(m, list, other) ==
  /\ ListOK(m) /\ DOMAIN m = DOMAIN list \cup DOMAIN other
  /\ \A w \in DOMAIN list :
       /\ m[w].base = list[w].base
       /\ m[w].freq = list[w].freq + (IF w \in DOMAIN other THEN other[w].freq ELSE 0)
  /\ \A w \in DOMAIN other \ DOMAIN list : m[w] = other[w]

(* MergeWith combines.                                                     *)
LEMMA MergedList ==
  ASSUME NEW list, NEW other, ListOK(list), ListOK(other)
  PROVE  Combines(MergeWith(list, other), list, other)
<1> DEFINE m == MergeWith(list, other)
<1>1. DOMAIN m = DOMAIN list \cup DOMAIN other
  BY DEF MergeWith
<1>2. ASSUME NEW w \in DOMAIN list
      PROVE  m[w] = Item(list[w].freq + (IF w \in DOMAIN other THEN other[w].freq ELSE 0),
                         list[w].base)
  BY DEF MergeWith
<1>3. \A w \in DOMAIN other \ DOMAIN list : m[w] = other[w]
  BY DEF MergeWith
<1>4. ASSUME NEW w \in DOMAIN list
      PROVE  /\ m[w].base = list[w].base
             /\ m[w].freq = list[w].freq + (IF w \in DOMAIN other THEN other[w].freq ELSE 0)
             /\ m[w] \in [freq : Nat, base : Nat]
  <2> DEFINE more == IF w \in DOMAIN other THEN other[w].freq ELSE 0
  <2>1. list[w].freq \in Nat /\ list[w].base \in Nat /\ more \in Nat
    BY DEF ListOK
  <2>2. m[w] = Item(list[w].freq + more, list[w].base)
    BY <1>2
  <2> HIDE DEF more
  <2>3. /\ m[w].base = list[w].base /\ m[w].freq = list[w].freq + more
        /\ m[w] \in [freq : Nat, base : Nat]
    BY <2>1, <2>2 DEF Item
  <2> QED  BY <2>3 DEF more
<1>5. ListOK(m)
  BY <1>1, <1>3, <1>4 DEF ListOK
<1> QED  BY <1>1, <1>3, <1>4, <1>5 DEF Combines

(* The invariant of merging holds at the start, in both kinds of states    *)
(* that Init offers.                                                       *)
LEMMA InitialMerge ==
  ASSUME MergeInit \/ NoMerge
  PROVE  InputInv /\ MergeInv
<1>1. merged = {} /\ DOMAIN result = {} /\ final = FALSE
  BY DEF MergeInit, NoMerge
<1>2. InputInv
  <2>1. CASE MergeInit
    <3>1. Cardinality(Word) \in Nat
      BY FiniteAssumption, FS_CardinalityType
    <3>2. maxItems \in Nat
      BY <2>1, <3>1 DEF MergeInit
    <3>3. freqs \in [Chunk -> [Word -> 0..MaxFreq]] /\ norms \in [Word -> Nat]
      BY <2>1 DEF MergeInit
    <3>4. known \in [Chunk -> SUBSET Word] /\ (~textTypes => norms = [w \in Word |-> 1])
      BY <2>1 DEF MergeInit
    <3> QED  BY <3>2, <3>3, <3>4 DEF InputInv
  <2>2. CASE NoMerge
    <3>1. freqs \in [Chunk -> [Word -> 0..MaxFreq]] /\ norms \in [Word -> Nat]
      BY <2>2, MaxFreqAssumption DEF NoMerge
    <3>2. known \in [Chunk -> SUBSET Word] /\ norms = [w \in Word |-> 1] /\ maxItems \in Nat
      BY <2>2 DEF NoMerge
    <3> QED  BY <3>1, <3>2 DEF InputInv
  <2> QED  BY <2>1, <2>2
<1>3. \A w \in Word : Total(w) = 0
  <2> TAKE w \in Word
  <2>1. Occurrences(w) = {}
    BY <1>1 DEF Occurrences
  <2> QED  BY <2>1, FS_EmptySet DEF Total
<1>4. MergeIsExact /\ FinalIsTop
  BY <1>1, <1>3 DEF MergeIsExact, FinalIsTop
<1> QED  BY <1>1, <1>2, <1>4 DEF MergeInv, ListOK, BasesInv

(* A chunk is merged.                                                      *)
LEMMA MergeStep ==
  ASSUME InputInv, MergeInv, NEW c \in Chunk, Merge(c)
  PROVE  MergeInv'
<1>1. /\ merged \subseteq Chunk /\ c \notin merged /\ merged' = merged \cup {c}
      /\ UNCHANGED inputs /\ final' = final /\ ~final
      /\ ListOK(result) /\ (maxItems = 0 => DOMAIN result = {})
      /\ BasesInv /\ MergeIsExact
  BY DEF Merge, MergeInv
<1>2. PICK list \in Lists(c) : result' = MergeWith(result, list)
  BY DEF Merge
<1>3. ListIsRight(c, list)
  BY ListsAreRight
<1>4. /\ ListOK(list) /\ (maxItems = 0 => DOMAIN list = {})
      /\ \A w \in DOMAIN list :
           /\ list[w].freq <= Reported(c, w)
           /\ norms[w] > 0 => list[w].base > 0
           /\ textTypes => list[w].base = norms[w]
      /\ \A w \in Word : Reported(c, w) > 0 /\ Listed(c, w) =>
           w \in DOMAIN list /\ list[w].freq = Reported(c, w)
  BY <1>3 DEF ListIsRight
<1>5. /\ ListOK(result') /\ DOMAIN result' = DOMAIN result \cup DOMAIN list
      /\ \A w \in DOMAIN result :
           /\ result'[w].base = result[w].base
           /\ result'[w].freq = result[w].freq + (IF w \in DOMAIN list THEN list[w].freq ELSE 0)
      /\ \A w \in DOMAIN list \ DOMAIN result : result'[w] = list[w]
  <2>1. Combines(result', result, list)
    BY <1>1, <1>2, <1>4, MergedList
  <2> QED  BY <2>1 DEF Combines
<1>6. /\ textTypes' = textTypes /\ norms' = norms /\ maxItems' = maxItems
      /\ \A d, w : Reported(d, w)' = Reported(d, w) /\ Listed(d, w)' = Listed(d, w)
  BY <1>1 DEF inputs, Reported, Listed, Found
<1>7. BasesInv'
  BY <1>1, <1>4, <1>5, <1>6 DEF BasesInv
<1>8. MergeIsExact'
  <2> SUFFICES ASSUME NEW w \in Word
        PROVE  /\ w \in DOMAIN result' =>
                    /\ result'[w].freq <= Total(w)'
                    /\ result'[w].freq > 0 => result'[w].base > 0
                    /\ textTypes => result'[w].base = norms[w]
               /\ Total(w)' > 0 /\ (\A d \in merged' : Reported(d, w) > 0 => Listed(d, w))
                    => w \in DOMAIN result' /\ result'[w].freq = Total(w)'
    BY <1>6 DEF MergeIsExact
  <2>1. /\ Total(w) \in Nat /\ Reported(c, w) \in Nat
        /\ Total(w)' = Total(w) + Reported(c, w)
    BY <1>1, TotalIsNatural, TotalGrows, ReportedIsBounded, MaxFreqAssumption
  <2>2. /\ w \in DOMAIN result =>
             /\ result[w].freq \in Nat /\ result[w].freq <= Total(w)
             /\ textTypes => result[w].base = norms[w]
        /\ Total(w) > 0 /\ (\A d \in merged : Reported(d, w) > 0 => Listed(d, w))
             => w \in DOMAIN result /\ result[w].freq = Total(w)
    BY <1>1 DEF MergeIsExact, ListOK
  <2>3. w \in DOMAIN list => list[w].freq \in Nat /\ list[w].freq <= Reported(c, w)
    BY <1>4 DEF ListOK
  <2>4. w \in DOMAIN result' => result'[w].freq \in Nat /\ result'[w].freq <= Total(w)'
    BY <1>5, <2>1, <2>2, <2>3
  <2>5. ASSUME w \in DOMAIN result', textTypes  PROVE result'[w].base = norms[w]
    BY <1>4, <1>5, <2>2, <2>5
  <2>6. ASSUME w \in DOMAIN result', result'[w].freq > 0  PROVE result'[w].base > 0
    <3>1. SUFFICES norms[w] > 0
      BY <1>6, <1>7, <2>6 DEF BasesInv
    <3>2. Total(w)' > 0
      BY <2>1, <2>4, <2>6
    <3>3. norms[w] # 0
      <4> SUFFICES ASSUME norms[w] = 0  PROVE Total(w)' = 0
        BY <3>2
      <4>1. Occurrences(w)' = {}
        BY <1>6 DEF Occurrences, Reported
      <4> QED  BY <4>1, FS_EmptySet DEF Total
    <3> QED  BY <3>3 DEF InputInv
  <2>7. ASSUME Total(w)' > 0, \A d \in merged' : Reported(d, w) > 0 => Listed(d, w)
        PROVE  w \in DOMAIN result' /\ result'[w].freq = Total(w)'
    <3>1. Total(w) > 0 => w \in DOMAIN result /\ result[w].freq = Total(w)
      BY <1>1, <2>2, <2>7
    <3>2. Reported(c, w) > 0 => w \in DOMAIN list /\ list[w].freq = Reported(c, w)
      BY <1>1, <1>4, <2>7
    <3> QED  BY <1>5, <2>1, <2>2, <2>3, <2>7, <3>1, <3>2
  <2> QED  BY <2>4, <2>5, <2>6, <2>7
<1>9. FinalIsTop'
  BY <1>1 DEF FinalIsTop
<1>10. maxItems' = 0 => DOMAIN result' = {}
  BY <1>1, <1>4, <1>5, <1>6
<1>11. ListOK(result)'
  BY <1>5 DEF ListOK
<1> QED  BY <1>1, <1>7, <1>8, <1>9, <1>10, <1>11 DEF MergeInv

(* The result is cut.                                                      *)
LEMMA CutStep ==
  ASSUME InputInv, MergeInv, Cut
  PROVE  MergeInv'
<1>1. /\ merged = Chunk /\ merged' = merged /\ ~final /\ final' = TRUE
      /\ UNCHANGED inputs /\ ListOK(result) /\ (maxItems = 0 => DOMAIN result = {})
      /\ BasesInv /\ MergeIsExact /\ maxItems \in Nat
  BY DEF Cut, MergeInv, InputInv
<1>2. DOMAIN result \subseteq Word /\ IsFiniteSet(DOMAIN result)
  BY <1>1, FiniteAssumption, FS_Subset DEF ListOK
<1>3. /\ DOMAIN result' \subseteq DOMAIN result
      /\ \A w \in DOMAIN result' : result'[w] = result[w]
      /\ Cardinality(DOMAIN result') <= maxItems
      /\ \A w \in DOMAIN result', v \in DOMAIN result \ DOMAIN result' :
           result[w].freq >= result[v].freq
  <2>1. CASE maxItems = 0
    <3>1. result' = result
      BY <2>1 DEF Cut
    <3>2. DOMAIN result = {} /\ Cardinality({}) = 0
      BY <1>1, <2>1, FS_EmptySet
    <3> QED  BY <2>1, <3>1, <3>2
  <2>2. CASE maxItems # 0
    <3>1. result' \in Cuts(result, maxItems)
      BY <2>2 DEF Cut
    <3> QED  BY <1>1, <1>2, <3>1, CutKeepsTop
  <2> QED  BY <2>1, <2>2
<1>4. /\ textTypes' = textTypes /\ norms' = norms /\ maxItems' = maxItems
      /\ \A w : Total(w)' = Total(w)
      /\ \A d, w : Reported(d, w)' = Reported(d, w) /\ Listed(d, w)' = Listed(d, w)
  BY <1>1 DEF inputs, Reported, Listed, Found, Total, Occurrences
<1>5. ListOK(result)'
  BY <1>1, <1>3 DEF ListOK
<1>6. BasesInv'
  BY <1>1, <1>3, <1>4 DEF BasesInv
<1>7. MergeIsExact'
  BY <1>1, <1>2, <1>3, <1>4 DEF MergeIsExact
<1>8. FinalIsTop'
  <2>1. ASSUME \A d \in Chunk, w \in Word : Reported(d, w) > 0 => Listed(d, w),
               NEW w \in DOMAIN result', NEW v \in Word \ DOMAIN result'
        PROVE  Total(w) >= Total(v)
    <3>1. w \in Word /\ w \in DOMAIN result /\ Total(w) \in Nat /\ Total(v) \in Nat
      BY <1>1, <1>2, <1>3, TotalIsNatural
    <3>2. result[w].freq <= Total(w) /\ result[w].freq \in Nat
      BY <1>1, <3>1 DEF MergeIsExact, ListOK
    <3>3. ASSUME Total(v) > 0  PROVE v \in DOMAIN result /\ result[v].freq = Total(v)
      BY <1>1, <2>1, <3>3 DEF MergeIsExact
    <3> QED  BY <1>3, <3>1, <3>2, <3>3
  <2> QED  BY <1>3, <1>4, <2>1 DEF FinalIsTop
<1>9. maxItems' = 0 => DOMAIN result' = {}
  BY <1>1, <1>3, <1>4
<1> QED  BY <1>1, <1>5, <1>6, <1>7, <1>8, <1>9 DEF MergeInv

(* The invariant of merging depends on nothing else.                       *)
LEMMA MergeStutter ==
  ASSUME MergeInv, UNCHANGED mergeVars
  PROVE  MergeInv'
<1>1. /\ merged' = merged /\ result' = result /\ final' = final
      /\ textTypes' = textTypes /\ norms' = norms /\ maxItems' = maxItems
      /\ \A w : Total(w)' = Total(w)
      /\ \A d, w : Reported(d, w)' = Reported(d, w) /\ Listed(d, w)' = Listed(d, w)
  BY DEF mergeVars, inputs, Reported, Listed, Found, Total, Occurrences
<1>2. MergeIsExact' /\ FinalIsTop'
  BY <1>1 DEF MergeInv, MergeIsExact, FinalIsTop
<1>3. ListOK(result)' /\ BasesInv'
  BY <1>1 DEF MergeInv, ListOK, BasesInv
<1> QED  BY <1>1, <1>2, <1>3 DEF MergeInv

-------------------------------------------------------------------------------
(* Bins.                                                                   *)

(* The frequencies of a series are bounded.                                *)
LEMMA ItemsAreBounded ==
  ASSUME series \in Seq(0..MaxItem), NEW i \in 1..Len(series)
  PROVE  /\ i \in Nat \ {0} /\ i \in DOMAIN series
         /\ series[i] \in Nat /\ series[i] <= MaxItem
<1>1. MaxItem \in Nat
  BY ValuesAssumption DEF MaxItem
<1>2. ASSUME NEW S, series \in Seq(S)  PROVE series[i] \in S
  BY <1>2
<1> QED  BY <1>1, <1>2

(* Tokens of finitely many items are finitely many.                        *)
LEMMA TokensAreFinite ==
  ASSUME NEW S, IsFiniteSet(S)
  PROVE  IsFiniteSet(Tokens(S)) /\ Cardinality(Tokens(S)) \in Nat
<1>1. MaxItem \in Nat
  BY ValuesAssumption DEF MaxItem
<1>2. IsFiniteSet(1..MaxItem)
  BY <1>1, FS_Interval
<1>3. IsFiniteSet(S \X (1..MaxItem))
  BY <1>2, FS_Product
<1>4. Tokens(S) \subseteq S \X (1..MaxItem)
  BY DEF Tokens
<1>5. IsFiniteSet(Tokens(S))
  BY <1>3, <1>4, FS_Subset
<1> QED  BY <1>5, FS_CardinalityType

(* An item more has as many tokens more as its frequency is.               *)
LEMMA TokensOfNext ==
  ASSUME NEW from \in Nat, NEW i \in Nat, from <= i,
         series[i] \in Nat, series[i] <= MaxItem
  PROVE  Cardinality(Tokens(from..i)) = Cardinality(Tokens(from..(i - 1))) + series[i]
<1> DEFINE before == from..(i - 1)
           here   == {i} \X (1..series[i])
<1>1. MaxItem \in Nat
  BY ValuesAssumption DEF MaxItem
<1>2. IsFiniteSet(here) /\ Cardinality(here) = series[i]
  BY CountUpTo
<1>3. IsFiniteSet(before)
  BY FS_Interval
<1>4. IsFiniteSet(Tokens(before)) /\ Cardinality(Tokens(before)) \in Nat
  BY <1>3, TokensAreFinite
<1>5. Tokens(from..i) = Tokens(before) \cup here
  <2>1. ASSUME NEW o  PROVE o \in Tokens(from..i) <=> o \in Tokens(before) \cup here
    BY <1>1 DEF Tokens
  <2> QED  BY <2>1
<1>6. Tokens(before) \cap here = {}
  BY <1>1 DEF Tokens
<1> HIDE DEF here, before
<1>7. Cardinality(Tokens(before) \cup here) = Cardinality(Tokens(before)) + Cardinality(here) - 0
  <2>1. Cardinality(Tokens(before) \cap here) = 0
    BY <1>6, FS_EmptySet
  <2> QED  BY <1>2, <1>4, <2>1, FS_Union
<1>8. Cardinality(Tokens(from..i)) = Cardinality(Tokens(before)) + series[i]
  <2>1. Cardinality(Tokens(from..i)) = Cardinality(Tokens(before) \cup here)
    BY <1>5, Zenon
  <2> QED  BY <1>1, <1>2, <1>4, <1>7, <2>1
<1> QED  BY <1>8 DEF before

(* Nothing has no tokens.                                                  *)
LEMMA TokensOfNothing ==
  ASSUME NEW from \in Int, NEW to \in Int, to < from
  PROVE  Cardinality(Tokens(from..to)) = 0
<1>1. Tokens(from..to) = {}
  BY DEF Tokens
<1> QED  BY <1>1, FS_EmptySet

(* Without tokens all items are zeros.                                     *)
LEMMA NoTokens ==
  ASSUME NEW from \in Nat, NEW to \in Nat, Cardinality(Tokens(from..to)) = 0,
         NEW i \in from..to, series[i] \in Nat
  PROVE  series[i] = 0
<1>1. IsFiniteSet(from..to)
  BY FS_Interval
<1>2. Tokens(from..to) = {}
  BY <1>1, TokensAreFinite, FS_EmptySet
<1>3. MaxItem \in Nat /\ MaxItem >= 1
  BY ValuesAssumption DEF MaxItem
<1>4. series[i] >= 1 => <<i, 1>> \in Tokens(from..to)
  BY <1>3 DEF Tokens
<1> QED  BY <1>2, <1>3, <1>4

(* What the heuristic wants can be had: bins of one item at least, and at  *)
(* most one bin more.                                                      *)
LEMMA BinsWanted ==
  ASSUME series \in Seq(0..MaxItem), Len(series) >= 5
  PROVE  /\ ItemsPerBin(series) \in Nat \ {0} /\ NumBins(series) \in Nat
         /\ \A l \in Nat, r \in 0..(ItemsPerBin(series) - 1) :
              Len(series) = l * ItemsPerBin(series) + r
                => l + (IF r > 0 THEN 1 ELSE 0) <= NumBins(series) + 1
<1> DEFINE n == Len(series)
           w == NumBins(series)
           p == ItemsPerBin(series)
<1>1. n \in Nat /\ n >= 5
  OBVIOUS
<1>2. w = n \/ (n > 10 /\ \E d \in {3, 5, 10} : w = Ceil(n, d))
  BY <1>1 DEF NumBins
<1>3. p = RoundToEven(n, w)
  BY DEF ItemsPerBin
<1> HIDE DEF n, w, p
<1>4. CASE w = n
  <2>1. p \in Nat /\ 2 * n <= 2 * (n * p) + n /\ 2 * (n * p) <= 2 * n + n
    BY <1>1, <1>3, <1>4, Rounded
  <2>2. p = 1
    <3>1. ASSUME p = 0  PROVE FALSE
      BY <1>1, <2>1, <3>1
    <3>2. ASSUME p > 1  PROVE FALSE
      <4>1. PICK k \in Nat : p = 2 + k
        <5>1. p - 2 \in Nat /\ p = 2 + (p - 2)
          BY <2>1, <3>2
        <5> QED  BY <5>1
      <4>2. n * p = 2 * n + n * k /\ n * k \in Nat
        BY <1>1, <4>1
      <4> QED  BY <1>1, <2>1, <4>2
    <3> QED  BY <2>1, <3>1, <3>2
  <2> QED  BY <1>1, <1>4, <2>2 DEF n, w, p
<1>5. ASSUME n > 10, NEW d \in {3, 5, 10}, w = Ceil(n, d)
      PROVE  /\ p \in Nat \ {0} /\ w \in Nat
             /\ \A l \in Nat, r \in 0..(p - 1) :
                  n = l * p + r => l + (IF r > 0 THEN 1 ELSE 0) <= w + 1
  <2>1. w \in Nat /\ n <= d * w /\ d * w <= n + d - 1
    BY <1>1, <1>5, RoundedUp
  <2>2. w # 0
    BY <1>1, <1>5, <2>1
  <2>3. p \in Nat /\ 2 * n <= 2 * (w * p) + w /\ 2 * (w * p) <= 2 * n + w
    BY <1>1, <1>3, <2>1, <2>2, Rounded
  <2>4. /\ p > 0
        /\ \A l \in Nat, r \in 0..(p - 1) :
             n = l * p + r => l + (IF r > 0 THEN 1 ELSE 0) <= w + 1
    BY <1>1, <1>5, <2>1, <2>3, FewBins
  <2> QED  BY <2>1, <2>3, <2>4
<1> QED  BY <1>2, <1>4, <1>5 DEF n, w, p

(* A further bin continues the tiling, if it begins where that ends.       *)
LEMMA TilesGrow ==
  ASSUME NEW end \in Nat, Tiled(end), NEW m \in Nat, DOMAIN bins = 1..m,
         NEW size \in Nat \ {0}, DOMAIN bins' = 1..(m + 1), series' = series,
         \A b \in 1..m : bins'[b] = bins[b],
         bins'[m + 1] \in Bin, bins'[m + 1].label = end + 1, bins'[m + 1].base = size,
         bins'[m + 1].freq = Cardinality(Tokens((end + 1)..(end + size)))
  PROVE  Tiled(end + size)'
<1>1. /\ \A b \in 1..m : /\ bins[b].label \in Nat \ {0} /\ bins[b].base \in Nat \ {0}
                         /\ bins[b].label + bins[b].base - 1 <= end
                         /\ bins[b].freq = Cardinality(Tokens(Run(b))) /\ bins[b] \in Bin
      /\ \A b, d \in 1..m : b < d => bins[b].label + bins[b].base <= bins[d].label
      /\ \A i \in 1..end : \E b \in 1..m : i \in Run(b)
  BY DEF Tiled, Bin
<1> DEFINE NewRun(b) == bins'[b].label..(bins'[b].label + bins'[b].base - 1)
<1>2. \A b \in 1..m : NewRun(b) = Run(b)
  BY DEF Run
<1>3. NewRun(m + 1) = (end + 1)..(end + size)
  <2>1. (end + 1) + size - 1 = end + size
    OBVIOUS
  <2> QED  BY <2>1
<1>4. \A b : NewRun(b) = Run(b)'
  BY DEF Run
<1> HIDE DEF NewRun
<1>5. ASSUME NEW b \in 1..(m + 1)
      PROVE  /\ bins'[b] \in Bin
             /\ bins'[b].label + bins'[b].base - 1 <= end + size
             /\ bins'[b].freq = Cardinality(Tokens(NewRun(b)))
  <2>1. CASE b \in 1..m
    <3>1. bins'[b] = bins[b] /\ NewRun(b) = Run(b)
      BY <1>2, <2>1
    <3>2. bins'[b].freq = Cardinality(Tokens(NewRun(b)))
      <4>1. bins[b].freq = Cardinality(Tokens(Run(b)))
        BY <1>1, <2>1
      <4> QED  BY <3>1, <4>1, Zenon
    <3>3. /\ bins[b] \in Bin /\ bins[b].label \in Nat /\ bins[b].base \in Nat
          /\ bins[b].label + bins[b].base - 1 <= end
      BY <1>1, <2>1
    <3>4. bins[b].label + bins[b].base - 1 <= end + size
      BY <3>3
    <3> QED  BY <3>1, <3>2, <3>3, <3>4
  <2>2. CASE b = m + 1
    <3>1. bins'[b].freq = Cardinality(Tokens(NewRun(b)))
      BY <1>3, <2>2
    <3> QED  BY <2>2, <3>1 DEF Bin
  <2> QED  BY <2>1, <2>2
<1>6. ASSUME NEW b \in 1..(m + 1), NEW d \in 1..(m + 1), b < d
      PROVE  bins'[b].label + bins'[b].base <= bins'[d].label
  <2>1. b \in 1..m /\ bins'[b] = bins[b]
    BY <1>6
  <2>2. CASE d \in 1..m
    <3>1. bins[b].label + bins[b].base <= bins[d].label
      BY <1>1, <1>6, <2>1, <2>2, Zenon
    <3>2. bins'[d] = bins[d]
      BY <2>2
    <3> QED  BY <2>1, <3>1, <3>2, Zenon
  <2>3. CASE d = m + 1
    <3>1. /\ bins[b].label \in Nat /\ bins[b].base \in Nat
          /\ bins[b].label + bins[b].base - 1 <= end
      BY <1>1, <2>1
    <3>2. bins[b].label + bins[b].base <= end + 1
      BY <3>1
    <3> QED  BY <2>1, <2>3, <3>2
  <2> QED  BY <2>2, <2>3
<1>7. ASSUME NEW i \in 1..(end + size)
       PROVE  \E b \in 1..(m + 1) : i \in NewRun(b)
  <2>1. CASE i \in 1..end
    BY <1>1, <1>2, <2>1
  <2>2. CASE i \in (end + 1)..(end + size)
    BY <1>3, <2>2
  <2> QED  BY <2>1, <2>2
<1>8. \A b : Cardinality(Tokens(NewRun(b))) = Cardinality(Tokens(Run(b)))'
  BY <1>4 DEF Tokens
<1> QED  BY <1>4, <1>5, <1>6, <1>7, <1>8 DEF Tiled

(* A tiling depends on nothing but the bins and the series.                *)
LEMMA TilesStay ==
  ASSUME NEW end, Tiled(end), bins' = bins, series' = series
  PROVE  Tiled(end)'
BY DEF Tiled, Run, Tokens

(* The loop begins, or a short series stays as it is.                      *)
LEMMA BeginStep ==
  ASSUME BinsInv, BeginBins
  PROVE  BinsInv'
<1>1. /\ series' = series /\ bin' = bin /\ taken' = taken
      /\ series \in Seq(0..MaxItem) /\ bin = NoBin /\ taken = 0 /\ bins = <<>>
  BY DEF BinsInv, BeginBins
<1>2. Len(series) \in Nat /\ DOMAIN series = 1..Len(series)
  BY <1>1
<1>3. CASE Len(series) < 5
  <2> DEFINE one(i) == [label |-> i, freq |-> series[i], base |-> 1]
  <2>1. task' = "binned" /\ bins' = [i \in DOMAIN series |-> one(i)]
    BY <1>3 DEF BeginBins
  <2>2. ASSUME NEW i \in DOMAIN series
        PROVE  /\ one(i) \in Bin /\ one(i).label = i /\ one(i).base = 1
               /\ one(i).freq = Cardinality(Tokens(i..i))
    <3>1. i \in Nat \ {0} /\ i <= i
      BY <1>2
    <3>2. Cardinality(Tokens(i..(i - 1))) = 0
      BY <3>1, TokensOfNothing
    <3>3. series[i] \in Nat /\ series[i] <= MaxItem
      BY <1>1, <1>2, ItemsAreBounded
    <3>4. Cardinality(Tokens(i..i)) = Cardinality(Tokens(i..(i - 1))) + series[i]
      BY <3>1, <3>3, TokensOfNext, Zenon
    <3>5. one(i) \in Bin
      BY <3>1, <3>3 DEF Bin
    <3> QED  BY <3>2, <3>3, <3>4, <3>5
  <2> HIDE DEF one
  <2>3. DOMAIN bins' = DOMAIN series /\ \A i \in DOMAIN series : bins'[i] = one(i)
    BY <2>1
  <2>4. bins' \in Seq(Bin)
    <3>1. bins' \in [1..Len(series) -> Bin]
      BY <1>2, <2>1, <2>2
    <3> QED  BY <1>2, <3>1
  <2>9. ASSUME NEW i \in DOMAIN series
        PROVE  /\ bins'[i] \in Bin /\ bins'[i].label = i /\ bins'[i].base = 1
               /\ bins'[i].freq = Cardinality(Tokens(i..i))
    <3>1. bins'[i] = one(i)
      BY <2>3
    <3>2. /\ one(i) \in Bin /\ one(i).label = i /\ one(i).base = 1
          /\ one(i).freq = Cardinality(Tokens(i..i))
      BY <2>2
    <3> QED  BY <3>1, <3>2, Zenon
  <2>5. \A i \in DOMAIN series : Run(i)' = i..i
    <3> TAKE i \in DOMAIN series
    <3>1. bins'[i].label = i /\ bins'[i].base = 1
      BY <2>9
    <3>2. i + 1 - 1 = i
      BY <1>2
    <3> QED  BY <3>1, <3>2, Zenon DEF Run
  <2>6. \A i \in DOMAIN series : bins'[i].freq = Cardinality(Tokens(Run(i)))'
    <3> TAKE i \in DOMAIN series
    <3>1. bins'[i].freq = Cardinality(Tokens(i..i))
      BY <2>9
    <3>2. Tokens(Run(i))' = Tokens(i..i)
      BY <1>1, <2>5 DEF Tokens
    <3> QED  BY <3>1, <3>2
  <2>7. Tiled(Len(series))'
    <3>1. \A i \in DOMAIN series : bins'[i].label = i /\ bins'[i].base = 1 /\ bins'[i] \in Bin
      BY <2>9
    <3>2. DOMAIN bins' = 1..Len(series) /\ series' = series
      BY <1>1, <1>2, <2>3
    <3>3. ASSUME NEW b \in DOMAIN bins'
          PROVE  /\ bins'[b] \in Bin' /\ bins'[b].label + bins'[b].base - 1 <= Len(series)'
                 /\ bins'[b].freq = Cardinality(Tokens(Run(b)))'
      BY <1>2, <2>3, <2>6, <3>1, <3>2, <3>3 DEF Bin
    <3>4. ASSUME NEW b \in DOMAIN bins', NEW d \in DOMAIN bins', b < d
          PROVE  bins'[b].label + bins'[b].base <= bins'[d].label
      BY <1>2, <3>1, <3>2, <3>4
    <3>5. ASSUME NEW i \in 1..Len(series)'  PROVE \E b \in DOMAIN bins' : i \in Run(b)'
      BY <1>2, <2>5, <3>2, <3>5
    <3> QED  BY <3>3, <3>4, <3>5 DEF Tiled
  <2>8. BinnedInv'
    BY <1>1, <1>2, <1>3, <2>7 DEF BinnedInv
  <2> QED  BY <1>1, <2>1, <2>4, <2>8 DEF BinsInv, MaxItem, Bin
<1>4. CASE Len(series) >= 5
  <2>1. task' = "binning" /\ bins' = bins /\ perBin' = ItemsPerBin(series)
    BY <1>4 DEF BeginBins
  <2>2. ItemsPerBin(series) \in Nat \ {0}
    BY <1>1, <1>4, BinsWanted
  <2>3. bin'.base = 0 /\ bin'.label = 0 /\ bin'.freq = 0
        /\ bin' \in [label : Nat, freq : Nat, base : Nat]
    BY <1>1 DEF NoBin
  <2>4. Cardinality(Tokens((taken - bin.base + 1)..taken))' = 0
    <3>1. Tokens((taken - bin.base + 1)..taken)' = {}
      BY <1>1, <2>3 DEF Tokens
    <3> QED  BY <3>1, FS_EmptySet
  <2>5. Tiled(taken - bin.base)'
    BY <1>1, <2>1, <2>3 DEF Tiled
  <2>6. (Len(bins) * perBin)' = 0
    BY <1>1, <2>1, <2>2
  <2>7. BinningInv'
    BY <1>1, <1>2, <1>4, <2>1, <2>2, <2>3, <2>4, <2>5, <2>6 DEF BinningInv
  <2>8. bins' \in Seq(Bin)
    BY <1>1, <2>1
  <2> QED  BY <1>1, <2>1, <2>7, <2>8 DEF BinsInv, MaxItem, Bin
<1> QED  BY <1>2, <1>3, <1>4

(* An item is taken.                                                       *)
LEMMA TakeStep ==
  ASSUME BinsInv, TakeItem
  PROVE  BinsInv'
<1>1. /\ task = "binning" /\ task' = task /\ taken < Len(series) /\ taken' = taken + 1
      /\ series' = series /\ perBin' = perBin
      /\ series \in Seq(0..MaxItem) /\ bins \in Seq(Bin)
      /\ Len(series) >= 5 /\ perBin = ItemsPerBin(series)
      /\ taken \in 0..Len(series)
      /\ bin \in [label : Nat, freq : Nat, base : Nat] /\ bin.base < perBin
      /\ bin.label = (IF bin.base = 0 THEN 0 ELSE taken - bin.base + 1)
      /\ bin.freq = Cardinality(Tokens((taken - bin.base + 1)..taken))
      /\ Tiled(taken - bin.base)
  BY DEF BinsInv, BinningInv, TakeItem
<1>2. PICK n \in Nat, p \in Nat \ {0}, l \in Nat, a \in Nat, r \in Nat :
        /\ n = Len(series) /\ p = perBin /\ l = Len(bins) /\ a = taken /\ r = bin.base
        /\ Len(series) \in Nat /\ perBin \in Nat /\ Len(bins) \in Nat
        /\ taken \in Nat /\ bin.base \in Nat
  <2>1. Len(series) \in Nat /\ Len(bins) \in Nat /\ taken \in Nat /\ bin.base \in Nat
    BY <1>1
  <2>2. perBin \in Nat \ {0}
    BY <1>1, BinsWanted
  <2> QED  BY <2>1, <2>2
<1>0. l * p = a - r /\ a = l * p + r /\ a - r \in Nat
  <2>1. l * p \in Nat
    OBVIOUS
  <2>2. l * p = a - r
    BY <1>1, <1>2 DEF BinsInv, BinningInv
  <2> QED  BY <2>1, <2>2
<1>3. r \in 0..(p - 1) /\ a < n /\ a - r \in Nat
  <2>1. r < p /\ a < n
    BY <1>1, <1>2, Zenon
  <2> QED  BY <1>0, <2>1
<1>4. /\ (a + 1) % p = 0 <=> r + 1 = p
      /\ r + 1 = p => (l + 1) * p = a + 1
  BY <1>0, <1>3, Filled
<1> DEFINE joined == Joined(a + 1)
<1>5. /\ joined \in Bin /\ joined.base = r + 1 /\ joined.label = (a - r) + 1
      /\ joined.freq = Cardinality(Tokens(((a - r) + 1)..(a + 1)))
  <2>1. a + 1 \in 1..Len(series)
    BY <1>2, <1>3
  <2>2. series[a + 1] \in Nat /\ series[a + 1] <= MaxItem
    BY <1>1, <2>1, ItemsAreBounded
  <2>3. Cardinality(Tokens(((a - r) + 1)..(a + 1)))
          = Cardinality(Tokens(((a - r) + 1)..((a + 1) - 1))) + series[a + 1]
    <3>1. a + 1 \in Nat /\ (a - r) + 1 \in Nat /\ (a - r) + 1 <= a + 1
      BY <1>3
    <3> QED  BY <2>2, <3>1, TokensOfNext
  <2>4. (a + 1) - 1 = a
    OBVIOUS
  <2>5. bin.freq \in Nat /\ bin.freq = Cardinality(Tokens(((a - r) + 1)..a))
    BY <1>1, <1>2
  <2>6. /\ bin.label \in Nat /\ (r = 0 => bin.label = 0) /\ (r # 0 => bin.label = (a - r) + 1)
    BY <1>1, <1>2
  <2>7. joined.freq = bin.freq + series[a + 1] /\ joined.base = r + 1
        /\ joined.label = IF bin.label = 0 THEN a + 1 ELSE bin.label
    BY <1>2 DEF Joined
  <2>8. joined.label = (a - r) + 1
    BY <1>3, <2>6, <2>7
  <2>9. joined = [label |-> (a - r) + 1, freq |-> bin.freq + series[a + 1], base |-> r + 1]
    BY <1>2, <2>7, <2>8 DEF Joined
  <2>10. joined \in Bin
    BY <1>3, <2>2, <2>5, <2>9 DEF Bin
  <2> QED  BY <2>3, <2>4, <2>5, <2>7, <2>8, <2>10
<1> HIDE DEF joined
<1>6. CASE (a + 1) % p = 0
  <2>1. bins' = Append(bins, joined) /\ bin' = NoBin
    BY <1>1, <1>2, <1>6 DEF TakeItem, joined
  <2>2. r + 1 = p /\ (a - r) + p = a + 1
    BY <1>3, <1>4, <1>6
  <2>3. /\ bins' \in Seq(Bin) /\ Len(bins') = l + 1
        /\ DOMAIN bins = 1..l /\ DOMAIN bins' = 1..(l + 1)
        /\ bins'[l + 1] = joined /\ \A b \in 1..l : bins'[b] = bins[b]
    BY <1>1, <1>2, <1>5, <2>1
  <2>4. Tiled((a - r) + p)'
    <3>1. Tiled(a - r)
      BY <1>1, <1>2
    <3>2. /\ bins'[l + 1] \in Bin /\ bins'[l + 1].label = (a - r) + 1 /\ bins'[l + 1].base = p
          /\ bins'[l + 1].freq = Cardinality(Tokens(((a - r) + 1)..((a - r) + p)))
      BY <1>5, <2>2, <2>3
    <3> QED  BY <1>1, <1>3, <2>3, <3>1, <3>2, TilesGrow
  <2>5. /\ bin'.base = 0 /\ bin'.label = 0 /\ bin'.freq = 0
        /\ bin' \in [label : Nat, freq : Nat, base : Nat]
    BY <2>1 DEF NoBin
  <2>6. taken' - bin'.base = a + 1
    BY <1>1, <1>2, <2>5
  <2>7. Tiled(taken - bin.base)'
    BY <2>2, <2>4, <2>6 DEF Tiled
  <2>8. Cardinality(Tokens((taken - bin.base + 1)..taken))' = 0
    <3>1. (taken' - bin'.base + 1)..taken' = {}
      BY <1>1, <1>2, <2>6
    <3>2. Tokens((taken - bin.base + 1)..taken)' = {}
      BY <3>1 DEF Tokens
    <3> QED  BY <3>2, FS_EmptySet
  <2>9. (Len(bins) * perBin)' = (taken - bin.base)'
    BY <1>1, <1>2, <1>4, <2>2, <2>3, <2>6
  <2>10. BinningInv'
    <3>1. taken' \in 0..Len(series)' /\ bin'.base < perBin' /\ perBin' = ItemsPerBin(series)'
          /\ Len(series)' >= 5
      <4>1. taken' = a + 1 /\ Len(series)' = n /\ perBin' = p
        BY <1>1, <1>2, Zenon
      <4>2. perBin' = ItemsPerBin(series)' /\ Len(series)' >= 5
        BY <1>1
      <4> QED  BY <1>3, <2>5, <4>1, <4>2
    <3>2. bin'.label = IF bin'.base = 0 THEN 0 ELSE taken' - bin'.base + 1
      BY <2>5
    <3> QED  BY <2>5, <2>7, <2>8, <2>9, <3>1, <3>2 DEF BinningInv
  <2> QED  BY <1>1, <2>3, <2>10 DEF BinsInv, MaxItem, Bin
<1>7. CASE (a + 1) % p # 0
  <2>1. bins' = bins /\ bin' = joined
    BY <1>1, <1>2, <1>7 DEF TakeItem, joined
  <2>2. r + 1 # p
    BY <1>4, <1>7
  <2>3. /\ bin'.base = r + 1 /\ bin'.base < p /\ bin'.label = (a - r) + 1
        /\ bin'.freq = Cardinality(Tokens(((a - r) + 1)..(a + 1)))
        /\ bin' \in [label : Nat, freq : Nat, base : Nat]
    BY <1>3, <1>5, <2>1, <2>2 DEF Bin
  <2>4. taken' - bin'.base = a - r /\ taken' = a + 1
    BY <1>1, <1>2, <2>3
  <2>5. Tiled(taken - bin.base)'
    <3>1. Tiled(a - r)'
      BY <1>1, <1>2, <2>1, TilesStay
    <3> QED  BY <2>4, <3>1 DEF Tiled
  <2>6. bin'.freq = Cardinality(Tokens((taken - bin.base + 1)..taken))'
    BY <1>1, <2>3, <2>4 DEF Tokens
  <2>7. (Len(bins) * perBin)' = (taken - bin.base)'
    BY <1>0, <1>1, <1>2, <2>1, <2>4
  <2>8. bin'.label = IF bin'.base = 0 THEN 0 ELSE taken' - bin'.base + 1
    BY <2>3, <2>4
  <2>9. BinningInv'
    <3>1. taken' \in 0..Len(series)' /\ bin'.base < perBin' /\ perBin' = ItemsPerBin(series)'
          /\ Len(series)' >= 5
      BY <1>1, <1>2, <1>3, <2>3, <2>4
    <3> QED  BY <2>3, <2>5, <2>6, <2>7, <2>8, <3>1 DEF BinningInv
  <2> QED  BY <1>1, <2>1, <2>9 DEF BinsInv, MaxItem, Bin
<1> QED  BY <1>6, <1>7

(* The loop has ended.                                                     *)
LEMMA EndStep ==
  ASSUME BinsInv, EndBins
  PROVE  BinsInv'
<1>1. /\ task = "binning" /\ task' = "binned" /\ taken = Len(series) /\ series' = series
      /\ bins' = (IF bin.freq > 0 THEN Append(bins, bin) ELSE bins)
      /\ series \in Seq(0..MaxItem) /\ bins \in Seq(Bin)
      /\ Len(series) >= 5 /\ perBin = ItemsPerBin(series)
      /\ bin \in [label : Nat, freq : Nat, base : Nat] /\ bin.base < perBin
      /\ bin.label = (IF bin.base = 0 THEN 0 ELSE taken - bin.base + 1)
      /\ bin.freq = Cardinality(Tokens((taken - bin.base + 1)..taken))
      /\ Tiled(taken - bin.base)
  BY DEF BinsInv, BinningInv, EndBins
<1>2. PICK n \in Nat, p \in Nat \ {0}, l \in Nat, r \in Nat, w \in Nat :
        /\ n = Len(series) /\ p = perBin /\ l = Len(bins) /\ r = bin.base /\ n = taken
        /\ w = NumBins(series)
        /\ Len(series) \in Nat /\ perBin \in Nat /\ Len(bins) \in Nat
        /\ taken \in Nat /\ bin.base \in Nat /\ NumBins(series) \in Nat
  <2>1. Len(series) \in Nat /\ Len(bins) \in Nat /\ bin.base \in Nat
    BY <1>1
  <2>2. perBin \in Nat \ {0} /\ NumBins(series) \in Nat
    BY <1>1, BinsWanted
  <2> QED  BY <1>1, <2>1, <2>2
<1>0. l * p = n - r /\ n = l * p + r /\ n - r \in Nat
  <2>1. l * p \in Nat
    OBVIOUS
  <2>2. l * p = n - r
    BY <1>1, <1>2 DEF BinsInv, BinningInv
  <2> QED  BY <2>1, <2>2
<1>3. r \in 0..(p - 1) /\ n - r \in Nat
  BY <1>0, <1>1, <1>2
<1>4. l + (IF r > 0 THEN 1 ELSE 0) <= w + 1
  <2>1. \A k \in Nat, m \in 0..(p - 1) : n = k * p + m => k + (IF m > 0 THEN 1 ELSE 0) <= w + 1
    BY <1>1, <1>2, BinsWanted
  <2> QED  BY <1>0, <1>3, <2>1
<1>5. Tiled(n - r) /\ bin.freq = Cardinality(Tokens(((n - r) + 1)..n)) /\ bin.freq \in Nat
  BY <1>1, <1>2
<1>6. NumBins(series)' = w
  BY <1>1, <1>2
<1>7. CASE bin.freq > 0
  <2>1. r > 0
    <3>1. SUFFICES ASSUME r = 0  PROVE FALSE
      BY <1>2
    <3>2. Cardinality(Tokens(((n - r) + 1)..n)) = 0
      BY <3>1, TokensOfNothing
    <3> QED  BY <1>5, <1>7, <3>2
  <2>2. bin.label = (n - r) + 1 /\ bin.base = r
    BY <1>1, <1>2, <2>1
  <2>3. bin \in Bin
    BY <1>1, <1>3, <2>1, <2>2 DEF Bin
  <2>4. bins' = Append(bins, bin)
    BY <1>1, <1>7
  <2>5. /\ bins' \in Seq(Bin) /\ Len(bins') = l + 1
        /\ DOMAIN bins = 1..l /\ DOMAIN bins' = 1..(l + 1)
        /\ bins'[l + 1] = bin /\ \A b \in 1..l : bins'[b] = bins[b]
    <3>1. bins \in Seq(Bin) /\ Len(bins) = l
      BY <1>1, <1>2
    <3> QED  BY <2>3, <2>4, <3>1
  <2>6. Tiled((n - r) + r)'
    <3>1. (n - r) + r = n
      OBVIOUS
    <3>2. /\ bins'[l + 1] \in Bin /\ bins'[l + 1].label = (n - r) + 1 /\ bins'[l + 1].base = r
          /\ bins'[l + 1].freq = Cardinality(Tokens(((n - r) + 1)..((n - r) + r)))
      BY <1>5, <2>2, <2>3, <2>5, <3>1
    <3> QED  BY <1>1, <1>3, <1>5, <2>1, <2>5, <3>2, TilesGrow
  <2>7. Tiled(Len(series))'
    <3>1. (n - r) + r = n
      OBVIOUS
    <3> QED  BY <1>1, <1>2, <2>6, <3>1 DEF Tiled
  <2>8. Len(bins') <= NumBins(series)' + 1
    BY <1>4, <1>6, <2>1, <2>5
  <2>9. BinnedInv'
    <3>1. Len(series)' \in 0..Len(series)'
          /\ \A i \in DOMAIN series' : i > Len(series)' => series'[i] = 0
      BY <1>1, <1>2
    <3> QED  BY <2>7, <2>8, <3>1, Zenon DEF BinnedInv
  <2>10. series' \in Seq((0..MaxItem)')
    BY <1>1 DEF MaxItem
  <2>11. bins' \in Seq(Bin') /\ task' = "binned"
    BY <1>1, <2>5 DEF Bin
  <2> QED  BY <2>9, <2>10, <2>11 DEF BinsInv
<1>8. CASE bin.freq = 0
  <2>1. bins' = bins
    BY <1>1, <1>8
  <2>2. Tiled(n - r)'
    BY <1>1, <1>5, <2>1, TilesStay
  <2>3. ASSUME NEW i \in DOMAIN series, i > n - r  PROVE series[i] = 0
    <3>1. i \in 1..Len(series) /\ i \in Nat /\ i <= n
      BY <1>1, <1>2
    <3>2. series[i] \in Nat
      BY <1>1, <3>1, ItemsAreBounded
    <3>3. i \in ((n - r) + 1)..n /\ (n - r) + 1 \in Nat
      BY <1>3, <2>3, <3>1
    <3>4. Cardinality(Tokens(((n - r) + 1)..n)) = 0
      BY <1>5, <1>8
    <3> QED  BY <3>2, <3>3, <3>4, NoTokens
  <2>4. Len(bins') <= NumBins(series)' + 1
    BY <1>2, <1>4, <1>6, <2>1
  <2>5. BinnedInv'
    <3>1. n - r \in 0..Len(series')
      BY <1>1, <1>2, <1>3
    <3>2. Tiled(n - r)' /\ \A i \in DOMAIN series' : i > n - r => series'[i] = 0
      BY <1>1, <2>2, <2>3
    <3>3. \E end \in 0..Len(series') :
            Tiled(end)' /\ \A i \in DOMAIN series' : i > end => series'[i] = 0
      BY <3>1, <3>2
    <3> QED  BY <2>4, <3>3 DEF BinnedInv
  <2> QED  BY <1>1, <2>1, <2>5 DEF BinsInv, MaxItem, Bin
<1> QED  BY <1>5, <1>7, <1>8

(* A step of something else.                                               *)
LEMMA BinsStutter ==
  ASSUME BinsInv, UNCHANGED <<series, binVars>>,
         task' = task \/ (task = "context" /\ task' = "done")
  PROVE  BinsInv'
<1>1. /\ series' = series /\ bins' = bins /\ bin' = bin /\ perBin' = perBin /\ taken' = taken
      /\ series \in Seq(0..MaxItem) /\ bins \in Seq(Bin)
  BY DEF binVars, BinsInv
<1>2. \A end : Tiled(end)' <=> Tiled(end)
  BY <1>1 DEF Tiled, Run, Tokens
<1>3. CASE task' = "binning"
  <2>1. task = "binning" /\ BinningInv
    BY <1>3 DEF BinsInv
  <2>2. Cardinality(Tokens((taken - bin.base + 1)..taken))'
          = Cardinality(Tokens((taken - bin.base + 1)..taken))
    BY <1>1 DEF Tokens
  <2>3. BinningInv'
    BY <1>1, <1>2, <2>1, <2>2 DEF BinningInv
  <2> QED  BY <1>1, <1>3, <2>3 DEF BinsInv
<1>4. CASE task' = "binned"
  <2>1. task = "binned" /\ BinnedInv
    BY <1>4 DEF BinsInv
  <2>2. BinnedInv'
    BY <1>1, <1>2, <2>1 DEF BinnedInv
  <2> QED  BY <1>1, <1>4, <2>2 DEF BinsInv
<1>5. CASE task' \notin {"binning", "binned"}
  BY <1>1, <1>5 DEF BinsInv
<1> QED  BY <1>3, <1>4, <1>5

(* Init offers series of numbers no greater than MaxItem.                  *)
LEMMA InitialBins ==
  ASSUME Init
  PROVE  BinsInv
<1>1. bins = <<>> /\ bin = NoBin /\ taken = 0 /\ task \notin {"binning", "binned"}
  BY DEF Init
<1>2. MaxItem \in Nat /\ 0 \in 0..MaxItem /\ 1 \in 0..MaxItem /\ Peak \in 0..MaxItem
  BY ValuesAssumption DEF MaxItem
<1>3. series \in Seq(0..MaxItem)
  <2>1. ASSUME NEW n \in Lengths, NEW s \in [1..n -> {0, 1}]
        PROVE  s \in Seq(0..MaxItem) /\ [s EXCEPT ![1] = Peak] \in Seq(0..MaxItem)
    <3>1. n \in Nat
      BY LengthsAssumption
    <3>2. s \in [1..n -> 0..MaxItem] /\ [s EXCEPT ![1] = Peak] \in [1..n -> 0..MaxItem]
      BY <1>2
    <3>3. ASSUME NEW S, NEW f \in [1..n -> S]  PROVE f \in Seq(S)
      BY <3>1
    <3> QED  BY <3>2, <3>3
  <2>2. NoSeries \in Seq(0..MaxItem)
    BY DEF NoSeries
  <2>3. series = NoSeries \/ series \in Series
    BY DEF Init
  <2>4. ASSUME series \in Series  PROVE series \in Seq(0..MaxItem)
    <3>1. series \in Calm(Lengths)
            \/ \E s \in Calm(Lengths \ {0}) : series = [s EXCEPT ![1] = Peak]
      BY <2>4 DEF Series
    <3>2. ASSUME NEW s \in Calm(Lengths)
          PROVE  s \in Seq(0..MaxItem) /\ [s EXCEPT ![1] = Peak] \in Seq(0..MaxItem)
      <4>1. PICK n \in Lengths : s \in [1..n -> {0, 1}]
        BY DEF Calm
      <4> QED  BY <2>1, <4>1
    <3>3. Calm(Lengths \ {0}) \subseteq Calm(Lengths)
      BY DEF Calm
    <3> QED  BY <3>1, <3>2, <3>3
  <2> QED  BY <2>2, <2>3, <2>4
<1>4. bins \in Seq(Bin)
  BY <1>1
<1> QED  BY <1>1, <1>3, <1>4 DEF BinsInv

-------------------------------------------------------------------------------
(* The invariant.                                                          *)

(* The invariant holds at first.                                           *)
LEMMA Initially ==
  ASSUME Init
  PROVE  ResultsInv
<1>1. MergeInit \/ NoMerge
  BY DEF Init
<1>2. task \in {"merge", "bin", "context"} /\ shown = [left |-> {}, kwic |-> {}, right |-> {}]
  BY DEF Init
<1>3. asked \in [idx : Nat, left : Nat, kwic : Nat, right : Nat]
  <2>1. CASE asked = NoToken
    BY <2>1 DEF NoToken
  <2>2. CASE asked \in [idx : 0..Size, left : 0..Size, kwic : 0..2, right : 0..Size]
    BY <2>2, ValuesAssumption
  <2> QED  BY <2>1, <2>2 DEF Init
<1>4. ContextInv
  BY <1>2, <1>3 DEF ContextInv
<1>5. task \in Tasks
  BY <1>2 DEF Tasks
<1>6. final \in BOOLEAN
  BY <1>1 DEF MergeInit, NoMerge
<1> QED  BY <1>1, <1>4, <1>5, <1>6, InitialMerge, InitialBins DEF ResultsInv

(* Every step preserves the invariant.                                     *)
LEMMA Preserved ==
  ASSUME ResultsInv, [Next]_vars
  PROVE  ResultsInv'
<1>0. task \in Tasks /\ final \in BOOLEAN /\ InputInv /\ MergeInv /\ BinsInv /\ ContextInv
  BY DEF ResultsInv
<1>1. CASE task = "merge" /\ MergeNext /\ UNCHANGED resultVars
  <2>1. MergeInv'
    BY <1>0, <1>1, MergeStep, CutStep DEF MergeNext
  <2>2. UNCHANGED inputs
    BY <1>1 DEF MergeNext, Merge, Cut
  <2>3. InputInv'
    BY <1>0, <2>2 DEF InputInv, inputs
  <2>4. ContextInv' /\ task' \in Tasks
    BY <1>0, <1>1 DEF ContextInv, resultVars
  <2>5. BinsInv'
    BY <1>0, <1>1, BinsStutter DEF resultVars
  <2>6. final' \in BOOLEAN
    <3>1. final' = final \/ final' = TRUE
      BY <1>1 DEF MergeNext, Merge, Cut
    <3> QED  BY <1>0, <3>1
  <2> QED  BY <2>1, <2>3, <2>4, <2>5, <2>6 DEF ResultsInv
<1>2. ASSUME UNCHANGED mergeVars
      PROVE  InputInv' /\ MergeInv' /\ final' \in BOOLEAN
  <2>1. MergeInv'
    BY <1>0, <1>2, MergeStutter
  <2>2. InputInv'
    BY <1>0, <1>2 DEF InputInv, mergeVars, inputs
  <2>3. final' \in BOOLEAN
    BY <1>0, <1>2 DEF mergeVars
  <2> QED  BY <2>1, <2>2, <2>3
<1>3. CASE BeginBins \/ TakeItem \/ EndBins
  <2>1. UNCHANGED <<mergeVars, asked, shown>>
    BY <1>3 DEF BeginBins, TakeItem, EndBins
  <2>2. task' \in {"binning", "binned"} /\ task # "done"
    BY <1>3 DEF BeginBins, TakeItem, EndBins
  <2>3. task' \in Tasks
    BY <2>2 DEF Tasks
  <2>4. ContextInv'
    BY <1>0, <2>1, <2>2 DEF ContextInv
  <2>5. BinsInv'
    BY <1>0, <1>3, BeginStep, TakeStep, EndStep
  <2> QED  BY <1>2, <2>1, <2>3, <2>4, <2>5 DEF ResultsInv
<1>4. CASE TokenContext
  <2>1. UNCHANGED <<mergeVars, series, binVars, asked>> /\ shown' = Context(asked)
        /\ task = "context" /\ task' = "done"
    BY <1>4 DEF TokenContext
  <2>2. ContextInv'
    BY <1>0, <2>1 DEF ContextInv, Context, CorpRegion
  <2>3. BinsInv' /\ task' \in Tasks
    BY <1>0, <2>1, BinsStutter DEF Tasks
  <2> QED  BY <1>2, <2>1, <2>2, <2>3 DEF ResultsInv
<1>5. CASE UNCHANGED vars
  <2>1. UNCHANGED <<mergeVars, task, series, binVars, asked, shown>>
    BY <1>5 DEF vars, resultVars
  <2>2. ContextInv' /\ task' \in Tasks
    BY <1>0, <2>1 DEF ContextInv
  <2>3. BinsInv'
    BY <1>0, <2>1, BinsStutter
  <2> QED  BY <1>2, <2>1, <2>2, <2>3 DEF ResultsInv
<1> QED  BY <1>1, <1>3, <1>4, <1>5 DEF Next

(* The inductive invariant of merging, binning and contexts holds, for any *)
(* chunks, words, frequencies, lengths and windows                         *)
(* (rdb/results/results.go, worker/actions.go:261-319).                    *)
THEOREM Invariance == Spec => []ResultsInv
<1>1. ResultsInv /\ [Next]_vars => ResultsInv'
  BY Preserved
<1> QED  BY <1>1, Initially, PTL DEF Spec

(* The region of a corpus between two positions is the context shown.      *)
LEMMA ContextIsTheWindow ==
  ASSUME ContextInv
  PROVE  ContextIsWindow
<1> SUFFICES ASSUME task = "done"
    PROVE  LET a      == asked
               window == {p \in 0..(Size - 1) : p >= a.idx - a.left /\ p < a.idx + a.kwic + a.right}
           IN  /\ shown.left \cup shown.kwic \cup shown.right = window \ {a.idx + a.kwic}
               /\ \A p \in shown.left, q \in shown.kwic, r \in shown.right : p < q /\ q < r
               /\ shown.kwic = {p \in 0..(Size - 1) : a.idx <= p /\ p < a.idx + a.kwic}
  BY DEF ContextIsWindow
<1>1. /\ asked.idx \in Nat /\ asked.left \in Nat /\ asked.kwic \in Nat /\ asked.right \in Nat
      /\ shown = Context(asked)
  BY DEF ContextInv
<1>2. /\ shown.left = CorpRegion(AtLeastZero(asked.idx - asked.left), AtLeastZero(asked.idx))
      /\ shown.kwic = CorpRegion(asked.idx, asked.idx + asked.kwic)
      /\ shown.right = CorpRegion(asked.idx + asked.kwic + 1, asked.idx + asked.right + asked.kwic)
  BY <1>1 DEF Context
<1> DEFINE window == {p \in 0..(Size - 1) : /\ p >= asked.idx - asked.left
                                             /\ p < asked.idx + asked.kwic + asked.right}
<1>3. ASSUME NEW p
      PROVE  p \in shown.left \cup shown.kwic \cup shown.right
               <=> p \in window \ {asked.idx + asked.kwic}
  BY <1>1, <1>2, ValuesAssumption DEF CorpRegion, AtLeastZero
<1>4. \A p \in shown.left, q \in shown.kwic, r \in shown.right : p < q /\ q < r
  BY <1>1, <1>2, ValuesAssumption DEF CorpRegion, AtLeastZero
<1>5. shown.kwic = {p \in 0..(Size - 1) : asked.idx <= p /\ p < asked.idx + asked.kwic}
  BY <1>2 DEF CorpRegion
<1> QED  BY <1>3, <1>4, <1>5

(* What is grouped in a bin is its run.                                    *)
LEMMA GroupIsRun ==
  ASSUME series \in Seq(0..MaxItem), bins \in Seq(Bin), NEW end \in 0..Len(series), Tiled(end),
         NEW b \in DOMAIN bins
  PROVE  /\ Grouped(b) = Run(b) /\ Run(b) \subseteq 1..end
         /\ Cardinality(Run(b)) = bins[b].base
         /\ bins[b].label \in 1..Len(series) /\ bins[b].base \in 1..Len(series)
         /\ bins[b].freq \in Nat
<1>1. /\ Len(series) \in Nat /\ DOMAIN series = 1..Len(series) /\ end \in Nat /\ end <= Len(series)
      /\ Len(bins) \in Nat /\ DOMAIN bins = 1..Len(bins) /\ b \in 1..Len(bins)
  OBVIOUS
<1>2. PICK x \in Nat \ {0}, y \in Nat \ {0} : x = bins[b].label /\ y = bins[b].base
  BY DEF Tiled, Bin
<1>3. x + y - 1 <= end /\ bins[b].freq \in Nat
  BY <1>2 DEF Tiled, Bin
<1>4. Run(b) = x..(x + y - 1)
  BY <1>2 DEF Run
<1>5. b < Len(bins) => b + 1 \in DOMAIN bins /\ bins[b + 1].label \in Nat /\ x + y <= bins[b + 1].label
  <2>1. SUFFICES ASSUME b < Len(bins)
                 PROVE  /\ b + 1 \in DOMAIN bins /\ bins[b + 1].label \in Nat
                        /\ x + y <= bins[b + 1].label
    OBVIOUS
  <2>2. b + 1 \in DOMAIN bins /\ b < b + 1
    BY <1>1, <2>1
  <2> QED  BY <1>2, <2>2 DEF Tiled, Bin
<1>6. ASSUME NEW i  PROVE i \in Grouped(b) <=> i \in Run(b)
  <2>1. i \in Grouped(b) <=> /\ i \in 1..Len(series) /\ x <= i /\ i < x + y
                             /\ (b < Len(bins) => i < bins[b + 1].label)
    BY <1>1, <1>2 DEF Grouped
  <2>2. i \in Run(b) => i \in 1..Len(series) /\ x <= i /\ i < x + y
    BY <1>1, <1>3, <1>4
  <2>3. i \in 1..Len(series) /\ x <= i /\ i < x + y => i \in Run(b)
    BY <1>1, <1>4
  <2>4. i \in Run(b) => (b < Len(bins) => i < bins[b + 1].label)
    BY <1>1, <1>4, <1>5
  <2> QED  BY <2>1, <2>2, <2>3, <2>4
<1>7. Cardinality(Run(b)) = y
  BY <1>4, FS_Interval
<1>8. x \in 1..Len(series) /\ y \in 1..Len(series) /\ Run(b) \subseteq 1..end
  BY <1>1, <1>3, <1>4
<1>9. Grouped(b) = Run(b)
  BY <1>6, Zenon DEF Grouped, Run
<1> QED  BY <1>2, <1>3, <1>7, <1>8, <1>9

(* A tiling of all but zeros loses nothing.                                *)
LEMMA BinsAreRight ==
  ASSUME BinsInv
  PROVE  BinsKeepTotals
<1> SUFFICES ASSUME task = "binned"
    PROVE  /\ \A b \in DOMAIN bins :
                /\ Cardinality(Grouped(b)) = bins[b].base
                /\ bins[b].freq = Cardinality(Tokens(Grouped(b)))
                /\ \A d \in DOMAIN bins \ {b} : Grouped(b) \cap Grouped(d) = {}
           /\ \A i \in DOMAIN series :
                (\A b \in DOMAIN bins : i \notin Grouped(b)) =>
                  \A j \in DOMAIN series : j >= i => series[j] = 0
           /\ Len(series) >= 5 => Len(bins) <= NumBins(series) + 1
  BY DEF BinsKeepTotals
<1>1. series \in Seq(0..MaxItem) /\ bins \in Seq(Bin) /\ BinnedInv
  BY DEF BinsInv
<1>2. PICK end \in 0..Len(series) :
        Tiled(end) /\ \A i \in DOMAIN series : i > end => series[i] = 0
  BY <1>1 DEF BinnedInv
<1>3. \A b \in DOMAIN bins : Grouped(b) = Run(b) /\ Cardinality(Run(b)) = bins[b].base
  BY <1>1, <1>2, GroupIsRun
<1>4. \A b \in DOMAIN bins : bins[b].freq = Cardinality(Tokens(Grouped(b)))
  BY <1>2, <1>3 DEF Tiled
<1>5. ASSUME NEW b \in DOMAIN bins, NEW d \in DOMAIN bins, b < d
      PROVE  Run(b) \cap Run(d) = {}
  <2>1. bins[b].label + bins[b].base <= bins[d].label
    BY <1>2, <1>5 DEF Tiled
  <2>2. bins[b].label \in Nat /\ bins[b].base \in Nat /\ bins[d].label \in Nat /\ bins[d].base \in Nat
    BY <1>2 DEF Tiled, Bin
  <2> QED  BY <2>1, <2>2 DEF Run
<1>6. ASSUME NEW b \in DOMAIN bins, NEW d \in DOMAIN bins \ {b}
      PROVE  Grouped(b) \cap Grouped(d) = {}
  <2>1. b \in Nat /\ d \in Nat /\ (b < d \/ d < b)
    BY <1>1
  <2>2. Run(b) \cap Run(d) = {}
    BY <1>5, <2>1
  <2> QED  BY <1>3, <2>2
<1>7. ASSUME NEW i \in DOMAIN series, \A b \in DOMAIN bins : i \notin Grouped(b),
             NEW j \in DOMAIN series, j >= i
      PROVE  series[j] = 0
  <2>1. i \in Nat \ {0} /\ j \in Nat /\ end \in Nat
    BY <1>1
  <2>2. i \notin 1..end
    BY <1>2, <1>3, <1>7 DEF Tiled
  <2>3. j > end
    BY <1>7, <2>1, <2>2
  <2> QED  BY <1>2, <2>3
<1>8. Len(series) >= 5 => Len(bins) <= NumBins(series) + 1
  BY <1>1 DEF BinnedInv
<1> QED  BY <1>3, <1>4, <1>6, <1>7, <1>8

(* A word has no more occurrences than chunks can have.                    *)
LEMMA TotalIsBounded ==
  ASSUME merged \subseteq Chunk, NEW w \in Word
  PROVE  /\ Total(w) <= MaxFreq * Cardinality(Chunk)
         /\ MaxFreq * Cardinality(Chunk) \in Nat
<1>1. IsFiniteSet(1..MaxFreq) /\ Cardinality(1..MaxFreq) = MaxFreq
  BY MaxFreqAssumption, FS_Interval
<1>2. /\ IsFiniteSet(Chunk \X (1..MaxFreq))
      /\ Cardinality(Chunk \X (1..MaxFreq)) = Cardinality(Chunk) * MaxFreq
  BY <1>1, FiniteAssumption, FS_Product
<1>3. Occurrences(w) \subseteq Chunk \X (1..MaxFreq)
  BY DEF Occurrences
<1>4. Cardinality(Occurrences(w)) <= Cardinality(Chunk \X (1..MaxFreq))
  BY <1>2, <1>3, FS_Subset
<1>5. Cardinality(Chunk) \in Nat
  BY FiniteAssumption, FS_CardinalityType
<1>6. Cardinality(Chunk) * MaxFreq = MaxFreq * Cardinality(Chunk)
      /\ MaxFreq * Cardinality(Chunk) \in Nat
  BY <1>5, MaxFreqAssumption
<1> QED  BY <1>2, <1>4, <1>6 DEF Total

(* The domains follow.                                                     *)
LEMMA DomainsAreRight ==
  ASSUME ResultsInv
  PROVE  TypeOK
<1>1. /\ task \in Tasks /\ final \in BOOLEAN /\ merged \subseteq Chunk
      /\ ListOK(result) /\ MergeIsExact /\ BinsInv /\ ContextInv
  BY DEF ResultsInv, MergeInv
<1>2. DOMAIN result \subseteq Word
  BY <1>1 DEF ListOK
<1>3. ASSUME NEW w \in DOMAIN result
      PROVE  result[w] \in [freq : 0..(MaxFreq * Cardinality(Chunk)), base : Nat]
  <2>1. w \in Word /\ result[w] \in [freq : Nat, base : Nat]
    BY <1>1, <1>2 DEF ListOK
  <2>2. result[w].freq <= Total(w) /\ Total(w) \in Nat
    BY <1>1, <2>1, TotalIsNatural DEF MergeIsExact
  <2>3. /\ Total(w) <= MaxFreq * Cardinality(Chunk)
        /\ MaxFreq * Cardinality(Chunk) \in Nat
    BY <1>1, <2>1, TotalIsBounded
  <2> DEFINE most == MaxFreq * Cardinality(Chunk)
  <2> HIDE DEF most
  <2>4. result[w].freq \in 0..most
    BY <2>1, <2>2, <2>3 DEF most
  <2>5. result[w] \in [freq : 0..most, base : Nat]
    BY <2>1, <2>4
  <2> QED  BY <2>5 DEF most
<1>4. ASSUME NEW i \in DOMAIN bins
      PROVE  bins[i] \in [label : 1..Len(series), freq : Nat, base : 1..Len(series)]
  <2>1. series \in Seq(0..MaxItem) /\ bins \in Seq(Bin)
    BY <1>1 DEF BinsInv
  <2>2. PICK end \in 0..Len(series) : Tiled(end)
    <3>1. CASE task = "binning"
      <4>1. /\ bin.base \in Nat /\ taken \in 0..Len(series) /\ Tiled(taken - bin.base)
            /\ perBin = ItemsPerBin(series) /\ Len(series) >= 5
        BY <1>1, <3>1 DEF BinsInv, BinningInv
      <4>2. taken - bin.base \in Nat
        <5>1. Len(bins) \in Nat /\ perBin \in Nat
          BY <2>1, <4>1, BinsWanted
        <5>2. Len(bins) * perBin \in Nat
          BY <5>1
        <5>3. Len(bins) * perBin = taken - bin.base
          BY <1>1, <3>1 DEF BinsInv, BinningInv
        <5> QED  BY <5>2, <5>3
      <4>3. Len(series) \in Nat
        BY <2>1
      <4>4. taken - bin.base \in 0..Len(series)
        BY <4>1, <4>2, <4>3
      <4> QED  BY <4>1, <4>4
    <3>2. CASE task = "binned"
      BY <1>1, <3>2 DEF BinsInv, BinnedInv
    <3>3. CASE task \notin {"binning", "binned"}
      <4>1. bins = <<>>
        BY <1>1, <3>3 DEF BinsInv
      <4> QED  BY <4>1
    <3> QED  BY <3>1, <3>2, <3>3
  <2>3. /\ bins[i].label \in 1..Len(series) /\ bins[i].base \in 1..Len(series)
        /\ bins[i].freq \in Nat
    BY <2>1, <2>2, GroupIsRun
  <2>4. bins[i] \in Bin
    BY <2>2 DEF Tiled
  <2> QED  BY <2>3, <2>4 DEF Bin
<1>5. \A r \in DOMAIN shown : shown[r] \subseteq 0..(Size - 1)
  <2>1. shown = [left |-> {}, kwic |-> {}, right |-> {}] \/ shown = Context(asked)
    BY <1>1 DEF ContextInv
  <2>2. \A from, to : CorpRegion(from, to) \subseteq 0..(Size - 1)
    BY DEF CorpRegion
  <2> QED  BY <2>1, <2>2 DEF Context
<1> QED  BY <1>1, <1>2, <1>3, <1>4, <1>5 DEF TypeOK, Tasks

-------------------------------------------------------------------------------
(* The theorems.                                                           *)

(* Whatever the order in which the lists of the chunks arrive, and         *)
(* whatever has been cut off them, no word is given more than its          *)
(* frequency in all chunks, a word that no chunk has cut off is given just *)
(* that, and frequencies are related to the right base                     *)
(* (worker/common.go:35-88, rdb/results/results.go:240-255).               *)
THEOREM Exactness == Spec => []MergeIsExact
<1>1. ResultsInv => MergeIsExact
  BY DEF ResultsInv, MergeInv
<1> QED  BY <1>1, Invariance, PTL

(* The final list has at most maxItems words, and the most frequent ones   *)
(* if no chunk has cut off a word (corpus/handlers/freqs.go:265-278,       *)
(* rdb/results/results.go:38-43).                                          *)
THEOREM Top == Spec => []FinalIsTop
<1>1. ResultsInv => FinalIsTop
  BY DEF ResultsInv, MergeInv
<1> QED  BY <1>1, Invariance, PTL

(* The three regions shown around a token are the window asked for,        *)
(* clipped to the corpus, without the first token right of the match       *)
(* (worker/actions.go:261-319).                                            *)
THEOREM Surroundings == Spec => []ContextIsWindow
<1>1. ResultsInv => ContextIsWindow
  BY ContextIsTheWindow DEF ResultsInv
<1> QED  BY <1>1, Invariance, PTL

(* The bins made of a series, of any length and with any window, are runs  *)
(* of its items, apart from each other, that leave out only zeros at the   *)
(* end, and say how frequent their items are; there is at most one more    *)
(* than the heuristic wants (rdb/results/results.go:86-144).               *)
THEOREM Binning == Spec => []BinsKeepTotals
<1>1. ResultsInv => BinsKeepTotals
  BY BinsAreRight DEF ResultsInv
<1> QED  BY <1>1, Invariance, PTL

(* All variables stay in their domains: merged frequencies within what the *)
(* chunks can have, bins and regions within the series and the corpus      *)
(* (rdb/results/results.go:86-144, worker/actions.go:261-319).             *)
THEOREM Typing == Spec => []TypeOK
<1>1. ResultsInv => TypeOK
  BY DomainsAreRight
<1> QED  BY <1>1, Invariance, PTL

===============================================================================
