-------------------------- MODULE CollExamples_proofs --------------------------
(***************************************************************************)
(* Safety of Handlers and CollExamples, for any number of groups of lemmas *)
(* and of collocates.                                                      *)
(***************************************************************************)
EXTENDS CollExamplesInv, FiniteSetTheorems, SequenceTheorems, WellFoundedInduction, TLAPS

-------------------------------------------------------------------------------
(* How the functions of a worker end.                                      *)

(* Whatever is asked of a function of the worker, it ends in one of the    *)
(* four ways (worker/worker.go:94-195).                                    *)
LEMMA EndsAreEnds ==
  ASSUME NEW func \in Functions, NEW arg
  PROVE  Ends(func, arg) \subseteq End
<1> USE DEF End, Then, Opened, Evaluated, GetConcordance, GetConcordanceWithCollPhrase, GetConcSize,
        CalcFreqDist, GetCollcations, GetTextTypesNorms, GetStructAttrValues, GetCorpRegion, Norms
<1>1. concordance(arg) \subseteq End
  BY DEF concordance
<1>2. concSize(arg) \subseteq End
  BY DEF concSize
<1>3. freqDistrib(arg, FALSE) \subseteq End
  BY DEF freqDistrib
<1>4. freqDistrib(arg, TRUE) \subseteq End
  BY DEF freqDistrib
<1>5. collocations(arg) \subseteq End
  BY DEF collocations
<1>6. textTypeNorms(arg) \subseteq End
  BY DEF textTypeNorms
<1>7. tokenContext(arg) \subseteq End
  BY DEF tokenContext
<1>8. textTypesAvailValues(arg) \subseteq End
  BY DEF textTypesAvailValues
<1> HIDE DEF End
<1> QED
  BY <1>1, <1>2, <1>3, <1>4, <1>5, <1>6, <1>7, <1>8 DEF Ends, Functions

(* An error of the user has a cause in the argument.                       *)
LEMMA UserErrors ==
  ASSUME NEW func \in Functions, NEW arg, "userError" \in Ends(func, arg)
  PROVE  arg \cap {"syntax", "attrs", "rows", "maxItems", "attr"} # {}
<1> USE DEF Then, Opened, Evaluated, GetConcordance, GetConcordanceWithCollPhrase, GetConcSize,
        CalcFreqDist, GetCollcations, GetTextTypesNorms, GetStructAttrValues, GetCorpRegion, Norms
<1> DEFINE Cause == \E x \in arg : x \in {"syntax", "attrs", "rows", "maxItems", "attr"}
<1>1. "userError" \in concordance(arg) => Cause
  BY DEF concordance
<1>2. "userError" \in concSize(arg) => Cause
  BY DEF concSize
<1>3. "userError" \in freqDistrib(arg, FALSE) => Cause
  BY DEF freqDistrib
<1>4. "userError" \in freqDistrib(arg, TRUE) => Cause
  BY DEF freqDistrib
<1>5. "userError" \in collocations(arg) => Cause
  BY DEF collocations
<1>6. "userError" \in textTypeNorms(arg) => Cause
  BY DEF textTypeNorms
<1>7. "userError" \notin tokenContext(arg) /\ "userError" \notin textTypesAvailValues(arg)
  BY DEF tokenContext, textTypesAvailValues
<1>8. Cause
  BY <1>1, <1>2, <1>3, <1>4, <1>5, <1>6, <1>7 DEF Ends, Functions
<1> QED
  BY <1>8

(* So does a panic, but for the one of tokenContext.                       *)
LEMMA Panics ==
  ASSUME NEW func \in Functions, NEW arg, "panic" \in Ends(func, arg)
  PROVE  func = "tokenContext" \/ "offset" \in arg
<1> USE DEF Then, Opened, Evaluated, GetConcordance, GetConcordanceWithCollPhrase, GetConcSize,
        CalcFreqDist, GetCollcations, GetTextTypesNorms, GetStructAttrValues, Norms
<1>1. "panic" \in concordance(arg) => "offset" \in arg
  BY DEF concordance
<1>2. /\ "panic" \notin concSize(arg) /\ "panic" \notin collocations(arg)
      /\ "panic" \notin textTypeNorms(arg) /\ "panic" \notin textTypesAvailValues(arg)
  BY DEF concSize, collocations, textTypeNorms, textTypesAvailValues
<1>3. "panic" \notin freqDistrib(arg, FALSE) /\ "panic" \notin freqDistrib(arg, TRUE)
  BY DEF freqDistrib
<1> QED
  BY <1>1, <1>2, <1>3 DEF Ends, Functions

(* A function that ends with a value has had no faulty argument that it    *)
(* looks at.                                                               *)
LEMMA Values ==
  ASSUME NEW func \in Functions, NEW arg, "value" \in Ends(func, arg)
  PROVE  /\ func # "tokenContext" /\ func # "textTypesAvailValues" => "corpus" \notin arg
         /\ func \in {"concordance", "termFrequency", "freqDistrib", "textTypes", "collocations"} =>
              "syntax" \notin arg
         /\ func = "concordance" => "attrs" \notin arg
         /\ func = "concordance" /\ "coll" \notin arg => "offset" \notin arg /\ "rows" \notin arg
         /\ func \in {"freqDistrib", "textTypes"} => "maxItems" \notin arg
         /\ func \in {"textTypes", "textTypeNorms"} => "attr" \notin arg
         /\ func = "collocations" => "measure" \notin arg
<1> USE DEF Then, Opened, Evaluated, GetConcordance, GetConcordanceWithCollPhrase, GetConcSize,
        CalcFreqDist, GetCollcations, GetTextTypesNorms, Norms
<1>1. "value" \in concordance(arg) =>
        /\ "corpus" \notin arg /\ "syntax" \notin arg /\ "attrs" \notin arg
        /\ "coll" \notin arg => "offset" \notin arg /\ "rows" \notin arg
  BY DEF concordance
<1>2. "value" \in concSize(arg) => "corpus" \notin arg /\ "syntax" \notin arg
  BY DEF concSize
<1>3. "value" \in freqDistrib(arg, FALSE) =>
        "corpus" \notin arg /\ "syntax" \notin arg /\ "maxItems" \notin arg
  BY DEF freqDistrib
<1>4. "value" \in freqDistrib(arg, TRUE) =>
        "corpus" \notin arg /\ "syntax" \notin arg /\ "maxItems" \notin arg /\ "attr" \notin arg
  BY DEF freqDistrib
<1>5. "value" \in collocations(arg) => "corpus" \notin arg /\ "syntax" \notin arg /\ "measure" \notin arg
  BY DEF collocations
<1>6. "value" \in textTypeNorms(arg) => "corpus" \notin arg /\ "attr" \notin arg
  BY DEF textTypeNorms
<1> QED
  BY <1>1, <1>2, <1>3, <1>4, <1>5, <1>6 DEF Ends, Functions

-------------------------------------------------------------------------------
(* The handlers.                                                           *)

CheckNames == {"argument", "corpus", "query", "shortName", "subcorpus", "structure", "property",
               "limit", "secondArgument"}

KindNames == {"concordance", "sentences", "syntaxConcordance", "termFrequency", "collocations",
              "collocationsExtended", "textTypes", "freqs", "ttValues", "ttNorms", "tokenContext",
              "otherForms", "wordForms"}

LEMMA KindsAreNamed == Kind = KindNames
  BY DEF Kind, Handler, KindNames

LEMMA Concatenation ==
  ASSUME NEW S, NEW s \in Seq(S), NEW t \in Seq(S)
  PROVE  s \o t \in Seq(S)
  OBVIOUS

(* A handler checks what can be unusual, and nothing else.                 *)
LEMMA ChecksAreNames ==
  ASSUME NEW k \in Kind
  PROVE  Checks(k) \in Seq(CheckNames)
<1>1. /\ QueryProps \in Seq(CheckNames)
      /\ <<"argument">> \in Seq(CheckNames)
      /\ <<"structure">> \in Seq(CheckNames)
      /\ <<"property", "limit", "argument">> \in Seq(CheckNames)
      /\ <<"limit", "argument">> \in Seq(CheckNames)
      /\ <<"corpus">> \in Seq(CheckNames)
      /\ <<>> \in Seq(CheckNames)
      /\ <<"argument", "corpus", "secondArgument">> \in Seq(CheckNames)
  BY DEF QueryProps, CheckNames
<1>2. <<"argument">> \o QueryProps \in Seq(CheckNames)
  BY <1>1, Concatenation
<1>3. <<"argument">> \o QueryProps \o <<"structure">> \in Seq(CheckNames)
  BY <1>1, <1>2, Concatenation
<1>4. QueryProps \o <<"structure">> \in Seq(CheckNames)
  BY <1>1, Concatenation
<1>5. QueryProps \o <<"argument">> \in Seq(CheckNames)
  BY <1>1, Concatenation
<1>6. QueryProps \o <<"property", "limit", "argument">> \in Seq(CheckNames)
  BY <1>1, Concatenation
<1>7. QueryProps \o <<"limit", "argument">> \in Seq(CheckNames)
  BY <1>1, Concatenation
<1>8. /\ Concordance.checks \in Seq(CheckNames)
      /\ Sentences.checks \in Seq(CheckNames)
      /\ SyntaxConcordance.checks \in Seq(CheckNames)
      /\ TermFrequency.checks \in Seq(CheckNames)
      /\ Collocations.checks \in Seq(CheckNames)
      /\ CollocationsExtended.checks \in Seq(CheckNames)
      /\ TextTypes.checks \in Seq(CheckNames)
      /\ FreqDistrib.checks \in Seq(CheckNames)
      /\ TextTypesAvailValues.checks \in Seq(CheckNames)
      /\ TextTypesNorms.checks \in Seq(CheckNames)
      /\ TokenContext.checks \in Seq(CheckNames)
      /\ OtherForms.checks \in Seq(CheckNames)
      /\ WordForms.checks \in Seq(CheckNames)
  <2>1. Concordance.checks \in Seq(CheckNames)
    BY <1>2 DEF Concordance
  <2>2. Sentences.checks \in Seq(CheckNames)
    BY <1>3 DEF Sentences
  <2>3. SyntaxConcordance.checks \in Seq(CheckNames)
    BY <1>4 DEF SyntaxConcordance
  <2>4. TermFrequency.checks \in Seq(CheckNames)
    BY <1>1 DEF TermFrequency
  <2>5. Collocations.checks \in Seq(CheckNames)
    BY <1>5 DEF Collocations, fetchCollActionArgs
  <2>6. CollocationsExtended.checks \in Seq(CheckNames)
    BY <1>5 DEF CollocationsExtended, fetchCollActionArgs
  <2>7. TextTypes.checks \in Seq(CheckNames)
    BY <1>6 DEF TextTypes
  <2>8. FreqDistrib.checks \in Seq(CheckNames)
    BY <1>7 DEF FreqDistrib
  <2>9. TextTypesAvailValues.checks \in Seq(CheckNames)
    BY <1>1 DEF TextTypesAvailValues
  <2>10. TextTypesNorms.checks \in Seq(CheckNames)
    BY <1>1 DEF TextTypesNorms
  <2>11. TokenContext.checks \in Seq(CheckNames)
    BY <1>1 DEF TokenContext
  <2>12. OtherForms.checks \in Seq(CheckNames)
    BY <1>1 DEF OtherForms
  <2>13. WordForms.checks \in Seq(CheckNames)
    BY <1>1 DEF WordForms
  <2> QED
    BY <2>1, <2>2, <2>3, <2>4, <2>5, <2>6, <2>7, <2>8, <2>9, <2>10, <2>11, <2>12, <2>13
<1>9. Handler[k] \in
        {Concordance, Sentences, SyntaxConcordance, TermFrequency, Collocations,
         CollocationsExtended, TextTypes, FreqDistrib, TextTypesAvailValues, TextTypesNorms,
         TokenContext, OtherForms, WordForms}
  BY KindsAreNamed DEF KindNames, Handler
<1> QED
  BY <1>8, <1>9 DEF Checks

(* The function a handler calls is one the worker has; tokenContext has a  *)
(* handler of its own.                                                     *)
LEMMA FunctionsCalled ==
  ASSUME NEW k \in Kind
  PROVE  /\ Handler[k].func \in Functions
         /\ Handler[k].func = "tokenContext" => k = "tokenContext"
  BY KindsAreNamed DEF KindNames, Functions, Handler, Concordance, Sentences, SyntaxConcordance,
     TermFrequency, Collocations, CollocationsExtended, TextTypes, FreqDistrib,
     TextTypesAvailValues, TextTypesNorms, TokenContext, OtherForms, WordForms

(* No handler leaves it to the worker to find that the query is missing.   *)
LEMMA QueryNotPassed ==
  ASSUME NEW k \in Kind
  PROVE  "query" \notin PassedOn(k)
<1>1. Handler[k] \in
        {Concordance, Sentences, SyntaxConcordance, TermFrequency, Collocations,
         CollocationsExtended, TextTypes, FreqDistrib, TextTypesAvailValues, TextTypesNorms,
         TokenContext, OtherForms, WordForms}
  BY KindsAreNamed DEF KindNames, Handler
<1>2. /\ "query" \notin Concordance.passes /\ "query" \notin Sentences.passes
      /\ "query" \notin SyntaxConcordance.passes /\ "query" \notin TermFrequency.passes
      /\ "query" \notin Collocations.passes /\ "query" \notin CollocationsExtended.passes
  BY DEF Concordance, Sentences, SyntaxConcordance, TermFrequency, Collocations,
     CollocationsExtended
<1>3. /\ "query" \notin TextTypes.passes /\ "query" \notin FreqDistrib.passes
      /\ "query" \notin TextTypesAvailValues.passes /\ "query" \notin TextTypesNorms.passes
      /\ "query" \notin TokenContext.passes /\ "query" \notin OtherForms.passes
      /\ "query" \notin WordForms.passes
  BY DEF TextTypes, FreqDistrib, TextTypesAvailValues, TextTypesNorms, TokenContext, OtherForms,
     WordForms
<1> QED
  BY <1>1, <1>2, <1>3 DEF PassedOn

(* A job that ends with a value has had an argument without a fault, but   *)
(* for the collocate that nobody has found.                                *)
LEMMA ValueIsRight ==
  ASSUME NEW k \in Kind, NEW arg \in SUBSET Unusual, arg \subseteq PassedOn(k),
         k # "collocationsExtended", "value" \in Ends(Handler[k].func, arg)
  PROVE  arg = {} \/ ("coll" \in arg /\ arg \subseteq {"coll", "offset", "rows"})
<1>1. ASSUME NEW func \in Functions, "value" \in Ends(func, arg),
             \/ func = "concordance" /\ arg \subseteq {"syntax", "attrs", "offset", "rows", "coll"}
             \/ func = "termFrequency" /\ arg \subseteq {"syntax"}
             \/ func = "collocations" /\ arg \subseteq {"syntax", "measure"}
             \/ func = "textTypes" /\ arg \subseteq {"syntax", "maxItems", "attr"}
             \/ func = "freqDistrib" /\ arg \subseteq {"corpus", "syntax", "maxItems"}
             \/ func = "textTypeNorms" /\ arg \subseteq {"corpus", "attr"}
             \/ arg \subseteq {}
      PROVE  arg = {} \/ ("coll" \in arg /\ arg \subseteq {"coll", "offset", "rows"})
  BY <1>1, Values
<1>2. Handler[k].func \in Functions
  BY FunctionsCalled
<1>3. CASE k \in {"concordance", "sentences", "syntaxConcordance"}
  <2>1. Handler[k].func = "concordance" /\ arg \subseteq {"syntax", "attrs", "offset", "rows", "coll"}
    BY <1>3 DEF PassedOn, Handler, Concordance, Sentences, SyntaxConcordance
  <2> QED
    BY <1>1, <1>2, <2>1
<1>4. CASE k = "termFrequency"
  <2>1. Handler[k].func = "termFrequency" /\ arg \subseteq {"syntax"}
    BY <1>4 DEF PassedOn, Handler, TermFrequency
  <2> QED
    BY <1>1, <1>2, <2>1
<1>5. CASE k = "collocations"
  <2>1. Handler[k].func = "collocations" /\ arg \subseteq {"syntax", "measure"}
    BY <1>5 DEF PassedOn, Handler, Collocations
  <2> QED
    BY <1>1, <1>2, <2>1
<1>6. CASE k = "textTypes"
  <2>1. Handler[k].func = "textTypes" /\ arg \subseteq {"syntax", "maxItems", "attr"}
    BY <1>6 DEF PassedOn, Handler, TextTypes, Unusual
  <2> QED
    BY <1>1, <1>2, <2>1
<1>7. CASE k \in {"freqs", "otherForms", "wordForms"}
  <2>1. Handler[k].func = "freqDistrib" /\ arg \subseteq {"corpus", "syntax", "maxItems"}
    BY <1>7 DEF PassedOn, Handler, FreqDistrib, OtherForms, WordForms
  <2> QED
    BY <1>1, <1>2, <2>1
<1>8. CASE k = "ttNorms"
  <2>1. Handler[k].func = "textTypeNorms" /\ arg \subseteq {"corpus", "attr"}
    BY <1>8 DEF PassedOn, Handler, TextTypesNorms
  <2> QED
    BY <1>1, <1>2, <2>1
<1>9. CASE k \in {"ttValues", "tokenContext"}
  <2>1. arg \subseteq {}
    BY <1>9 DEF PassedOn, Handler, TextTypesAvailValues, TokenContext
  <2> QED
    BY <1>1, <1>2, <2>1
<1> QED
  BY <1>3, <1>4, <1>5, <1>6, <1>7, <1>8, <1>9, KindsAreNamed DEF KindNames

(* A set of numbers that is not empty has a least one.                     *)
LEMMA LeastNumber ==
  ASSUME NEW S \in SUBSET Nat, S # {}
  PROVE  \E m \in S : \A j \in S : m <= j
<1>1. PICK m \in S : \A j \in S : <<j, m>> \notin OpToRel(<, Nat)
  BY NatLessThanWellFounded, WFMin
<1>2. OpToRel(<, Nat) = {p \in Nat \X Nat : p[1] < p[2]}
  BY Zenon DEF OpToRel
<1>3. ASSUME NEW j \in S, j < m PROVE FALSE
  <2>1. j \in Nat /\ m \in Nat /\ <<j, m>> \notin OpToRel(<, Nat)
    BY <1>1
  <2> QED
    BY <1>2, <1>3, <2>1
<1> QED
  BY <1>3

(* The first fault of a refused request is one its handler checks for.     *)
LEMMA FirstFaultIsCheck ==
  ASSUME NEW k \in Kind, Checked(k) \cap request # {}
  PROVE  FirstFault(k) \in CheckNames
<1> DEFINE faulty == {i \in DOMAIN Checks(k) : Checks(k)[i] \in request}
<1>1. Checks(k) \in Seq(CheckNames)
  BY ChecksAreNames
<1>2. faulty \subseteq Nat /\ faulty # {}
  BY <1>1 DEF Checked
<1>3. \E m \in faulty : \A j \in faulty : m <= j
  BY <1>2, LeastNumber
<1>4. (CHOOSE i \in faulty : \A j \in faulty : i <= j) \in faulty
  BY <1>3
<1> QED
  BY <1>1, <1>4 DEF FirstFault

(* Refusals are answered with an error of four kinds                       *)
(* (handlers/common.go:60-137).                                            *)
LEMMA RefusalStatus ==
  ASSUME NEW check \in CheckNames
  PROVE  Status(check) \subseteq {400, 404, 422, 500}
  BY DEF CheckNames, Status

-------------------------------------------------------------------------------
(* Jobs are published and answered.                                        *)

LEMMA NewJobIsRecord ==
  ASSUME kind \in Kind, NEW arg \in SUBSET Unusual
  PROVE  NewJob(arg) \in JobRecord /\ NewJob(arg).end = "pending"
<1>1. Subcorpus(kind) \in {"whole", "saved", "path"}
  BY Zenon DEF Subcorpus
<1> QED
  BY <1>1, FunctionsCalled DEF NewJob, JobRecord

(* Where a handler searches is settled by its request.                     *)
LEMMA SubcorpusStays ==
  ASSUME UNCHANGED <<kind, request>>
  PROVE  Subcorpus(kind)' = Subcorpus(kind)
  BY DEF Subcorpus, NamesOwnPath, PassesSubcorpus, KnowsSubcorpora

(* A job that is published is made of the request, and the others stay as  *)
(* they are.                                                               *)
LEMMA Published ==
  ASSUME DomainInv, JobsInv, NEW arg \in SUBSET Unusual, arg \subseteq PassedOn(kind),
         jobs' = Append(jobs, NewJob(arg)), kind' = kind, request' = request
  PROVE  /\ jobs' \in Seq(JobRecord) /\ JobsInv'
         /\ Len(jobs') = Len(jobs) + 1 /\ jobs'[Len(jobs) + 1].end = "pending"
         /\ \A i \in DOMAIN jobs : jobs'[i] = jobs[i]
<1> DEFINE new == NewJob(arg)
<1>1. new \in JobRecord /\ new.end = "pending"
  BY NewJobIsRecord DEF DomainInv, TypeOK, HandlerTypeOK
<1>2. new.func = Handler[kind].func /\ new.subc = Subcorpus(kind) /\ new.arg = arg
  BY DEF NewJob
<1>3. jobs \in Seq(JobRecord)
  BY DEF DomainInv
<1> HIDE DEF new
<1>4. /\ jobs' \in Seq(JobRecord) /\ Len(jobs') = Len(jobs) + 1
      /\ \A i \in DOMAIN jobs : jobs'[i] = jobs[i]
      /\ jobs'[Len(jobs) + 1] = new
      /\ DOMAIN jobs' = DOMAIN jobs \cup {Len(jobs) + 1}
  BY <1>1, <1>3 DEF new
<1>5. JobsInv'
  BY <1>1, <1>2, <1>4, SubcorpusStays DEF JobsInv, MadeOfRequest
<1> QED
  BY <1>1, <1>4, <1>5

(* A job ends as its function can, and the others stay as they are.        *)
LEMMA Ended ==
  ASSUME DomainInv, JobsInv, NEW i \in DOMAIN jobs,
         NEW end \in Ends(jobs[i].func, jobs[i].arg) \cup {"error"},
         jobs' = [jobs EXCEPT ![i].end = end], kind' = kind, request' = request
  PROVE  /\ jobs' \in Seq(JobRecord) /\ JobsInv'
         /\ Len(jobs') = Len(jobs) /\ jobs'[i].end = end /\ end \in End
         /\ \A k \in DOMAIN jobs : k # i => jobs'[k] = jobs[k]
<1>1. jobs \in Seq(JobRecord) /\ jobs[i] \in JobRecord
  BY DEF DomainInv
<1>2. end \in End
  BY <1>1, EndsAreEnds DEF JobRecord, End
<1>3. [jobs[i] EXCEPT !.end = end] \in JobRecord
  BY <1>1, <1>2 DEF JobRecord
<1>4. jobs' = [jobs EXCEPT ![i] = [jobs[i] EXCEPT !.end = end]]
  OBVIOUS
<1>5. /\ jobs' \in Seq(JobRecord) /\ Len(jobs') = Len(jobs) /\ DOMAIN jobs' = DOMAIN jobs
      /\ jobs'[i] = [jobs[i] EXCEPT !.end = end]
      /\ \A k \in DOMAIN jobs : k # i => jobs'[k] = jobs[k]
  BY <1>1, <1>3, <1>4
<1>6. /\ jobs'[i].end = end /\ jobs'[i].func = jobs[i].func
      /\ jobs'[i].arg = jobs[i].arg /\ jobs'[i].subc = jobs[i].subc
  BY <1>1, <1>5 DEF JobRecord
<1>7. JobsInv'
  BY <1>5, <1>6, SubcorpusStays DEF JobsInv, MadeOfRequest
<1> QED
  BY <1>2, <1>5, <1>6, <1>7

(* What a sequential handler passes on is among what it may pass on; after *)
(* refusing a request, TermFrequency passes on the fault as well.          *)
LEMMA Arguing ==
  ASSUME DomainInv, SequentialInv, pc = "publish", Sequential, NEW arg \in Arguments
  PROVE  arg \in SUBSET Unusual /\ arg \subseteq PassedOn(kind)
<1>1. kind # "termFrequency" => responses = <<>>
  BY DEF DomainInv, SequentialInv
<1>2. {"syntax"} \subseteq PassedOn("termFrequency") /\ "syntax" \in Unusual
  BY DEF PassedOn, Handler, TermFrequency, Unusual
<1> QED
  BY <1>1, <1>2 DEF Arguments

-------------------------------------------------------------------------------
(* A sequential handler takes no step of a stream.                         *)
LEMMA NotStreaming ==
  ASSUME SequentialInv, ExamplesInv, Stream \/ \E c \in Collocate : Goroutine(c) \/ Take(c)
  PROVE  ~Sequential
<1> SUFFICES ASSUME Sequential PROVE FALSE
  OBVIOUS
<1>1. pc \in {"check", "publish", "wait", "done"} /\ \A c \in Collocate : gor[c] = "none"
  BY DEF SequentialInv, ExamplesInv
<1>2. ~Stream
  BY <1>1 DEF Stream, PublishColls, PublishCollsFails, CollsError, FirstValue, SecondValue,
     BadExamples, Launch, WriteEvent, Close, Streaming, Sequential
<1>3. ASSUME NEW c \in Collocate PROVE ~Goroutine(c) /\ ~Take(c)
  BY <1>1 DEF Goroutine, PublishExamples, PublishExamplesFails, ExamplesValue, ExamplesError,
     Complain, Goes, Take
<1> QED
  BY <1>2, <1>3

(* Its steps are those of Handlers.                                        *)
LEMMA SequentialNext ==
  ASSUME SequentialInv, ExamplesInv, Sequential, Next
  PROVE  HandlerNext /\ UNCHANGED streamVars
BY NotStreaming DEF Next

(* And a stream none of a sequential handler, once its request has passed  *)
(* the checks.                                                             *)
LEMMA StreamingNext ==
  ASSUME StreamingInv, ~Sequential, Next
  PROVE  \/ (Refuse \/ Admit) /\ UNCHANGED streamVars
         \/ Stream
         \/ \E c \in Collocate : Goroutine(c) \/ Take(c)
<1>1. pc # "wait"
  BY DEF StreamingInv, Streaming, Sequential
<1> QED
  BY <1>1 DEF Next, HandlerNext, Publish, PublishFails, ReceiveError, ReceiveValue, ReceiveLemmas,
     ReceiveForms, Answer

(* Nothing changes the request.                                            *)
LEMMA RequestStays ==
  ASSUME [Next]_vars
  PROVE  kind' = kind /\ request' = request
<1>1. ASSUME HandlerNext PROVE kind' = kind /\ request' = request
  BY <1>1 DEF HandlerNext, Refuse, Admit, Publish, PublishFails, ReceiveError, ReceiveValue,
     ReceiveLemmas, ReceiveForms, Answer
<1>2. ASSUME Stream PROVE kind' = kind /\ request' = request
  BY <1>2 DEF Stream, PublishColls, PublishCollsFails, CollsError, FirstValue, SecondValue,
     BadExamples, Launch, WriteEvent, Close
<1>3. ASSUME NEW c \in Collocate, Goroutine(c) \/ Take(c) PROVE kind' = kind /\ request' = request
  BY <1>3 DEF Goroutine, PublishExamples, PublishExamplesFails, ExamplesValue, ExamplesError,
     Complain, Take, handlerVars
<1> QED
  BY <1>1, <1>2, <1>3 DEF Next, vars, handlerVars

-------------------------------------------------------------------------------
(* The domains of the state, and the jobs.                                 *)

(* Who waits for an answer has one job pending, the last.                  *)
LEMMA Waiting ==
  ASSUME DomainInv, SequentialInv, StreamingInv, pc = "wait"
  PROVE  Sequential /\ jobs # <<>> /\ Len(jobs) \in DOMAIN jobs /\ Last.end = "pending"
<1>1. Sequential
  BY DEF StreamingInv, Streaming, Sequential
<1>2. jobs # <<>> /\ Last.end = "pending"
  BY <1>1 DEF SequentialInv
<1> QED
  BY <1>1, <1>2 DEF DomainInv

(* Jobs stay made of the request.                                          *)
LEMMA JobsStep ==
  ASSUME DomainInv, JobsInv, SequentialInv, StreamingInv, ExamplesInv, [Next]_vars
  PROVE  jobs' \in Seq(JobRecord) /\ JobsInv'
<1>1. kind' = kind /\ request' = request
  BY RequestStays
<1>2. ASSUME jobs' = jobs PROVE jobs' \in Seq(JobRecord) /\ JobsInv'
  BY <1>1, <1>2, SubcorpusStays DEF DomainInv, JobsInv, MadeOfRequest
<1>3. ASSUME NEW end, Answer(end) PROVE jobs' \in Seq(JobRecord) /\ JobsInv'
  <2>1. Len(jobs) \in DOMAIN jobs
    BY <1>3, Waiting DEF Answer
  <2> QED
    BY <1>1, <1>3, <2>1, Ended DEF Answer, Last
<1>4. ASSUME NEW i \in DOMAIN jobs, NEW end, Answered(i, end) PROVE jobs' \in Seq(JobRecord) /\ JobsInv'
  BY <1>1, <1>4, Ended DEF Answered
<1>5. CASE Publish \/ PublishFails
  BY <1>1, <1>2, <1>5, Arguing, Published DEF Publish, PublishFails
<1>6. CASE PublishColls \/ PublishCollsFails
  <2>1. jobs' = jobs \/ jobs' = Append(jobs, NewJob((request \cap PassedOn(kind)) \cap Unusual))
    BY <1>6 DEF PublishColls, PublishCollsFails, CollJob
  <2> QED
    BY <1>1, <1>2, <2>1, Published
<1>7. CASE ReceiveError \/ ReceiveValue \/ ReceiveLemmas \/ ReceiveForms
  BY <1>3, <1>7 DEF ReceiveError, ReceiveValue, ReceiveLemmas, ReceiveForms
<1>8. CASE CollsError \/ FirstValue \/ SecondValue
  <2>1. /\ pc = "first" => 1 \in DOMAIN jobs
        /\ pc = "second" => 2 \in DOMAIN jobs
    BY DEF StreamingInv, DomainInv, SequentialInv, Streaming, Sequential
  <2> QED
    BY <1>4, <1>8, <2>1 DEF CollsError, FirstValue, SecondValue
<1>9. CASE Refuse \/ Admit
  BY <1>2, <1>9 DEF Refuse, Admit
<1>10. CASE BadExamples \/ Launch \/ WriteEvent \/ Close
  BY <1>2, <1>10 DEF BadExamples, Launch, WriteEvent, Close
<1>11. ASSUME NEW c \in Collocate, Goroutine(c) \/ Take(c) PROVE jobs' = jobs
  BY <1>11 DEF Goroutine, PublishExamples, PublishExamplesFails, ExamplesValue, ExamplesError,
     Complain, Take, handlerVars
<1> QED
  BY <1>2, <1>5, <1>6, <1>7, <1>8, <1>9, <1>10, <1>11 DEF Next, HandlerNext, Stream, vars,
     handlerVars

(* All responses have one of five statuses.                                *)
LEMMA ResponsesStep ==
  ASSUME DomainInv, [Next]_vars
  PROVE  responses' \in Seq({200, 400, 404, 422, 500})
<1>1. responses \in Seq({200, 400, 404, 422, 500}) /\ kind \in Kind
  BY DEF DomainInv, TypeOK, HandlerTypeOK
<1>2. ASSUME NEW status \in {200, 400, 404, 422, 500}, responses' = Append(responses, status)
      PROVE  responses' \in Seq({200, 400, 404, 422, 500})
  BY <1>1, <1>2
<1>3. CASE Refuse
  <2>1. PICK s \in Status(FirstFault(kind)) : responses' = Append(responses, s)
    BY <1>3 DEF Refuse
  <2>2. s \in {400, 404, 422, 500}
    BY <1>1, <1>3, <2>1, FirstFaultIsCheck, RefusalStatus DEF Refuse, Refused
  <2> QED
    BY <1>2, <2>1, <2>2
<1>4. CASE HandlerNext /\ ~Refuse
  BY <1>1, <1>2, <1>4 DEF HandlerNext, Admit, Publish, PublishFails, ReceiveError, ReceiveValue,
     ReceiveLemmas, ReceiveForms, Respond, ErrorStatus, Answer
<1>5. CASE Stream
  BY <1>1, <1>2, <1>5 DEF Stream, PublishColls, PublishCollsFails, CollsError, FirstValue,
     SecondValue,
     BadExamples, Launch, WriteEvent, Close, Respond
<1>6. ASSUME NEW c \in Collocate, Goroutine(c) \/ Take(c) PROVE responses' = responses
  BY <1>6 DEF Goroutine, PublishExamples, PublishExamplesFails, ExamplesValue, ExamplesError,
     Complain, Take, handlerVars
<1> QED
  BY <1>1, <1>3, <1>4, <1>5, <1>6 DEF Next, vars, handlerVars

(* The response to a refusal stays the first one.                          *)
LEMMA RefusalStep ==
  DomainInv /\ RefusalInv /\ [Next]_vars => RefusalInv'
<1> SUFFICES ASSUME DomainInv, RefusalInv, [Next]_vars PROVE RefusalInv'
  OBVIOUS
<1>1. /\ responses \in Seq({200, 400, 404, 422, 500}) /\ kind \in Kind
      /\ (Refused' <=> Refused) /\ kind' = kind
  BY RequestStays DEF DomainInv, TypeOK, HandlerTypeOK, Refused
<1>2. ASSUME responses' = responses, pc' # "check", pc # "check" \/ ~Refused PROVE RefusalInv'
  BY <1>1, <1>2 DEF RefusalInv
<1>3. ASSUME NEW status \in {200, 400, 404, 422, 500}, responses' = Append(responses, status),
             pc' # "check", pc # "check"
      PROVE  RefusalInv'
  <2>1. responses' # <<>> /\ (responses # <<>> => Head(responses') = Head(responses))
    BY <1>1, <1>3
  <2> QED
    BY <1>1, <1>3, <2>1 DEF RefusalInv
<1>4. CASE Refuse
  <2>1. PICK s \in Status(FirstFault(kind)) : responses' = Append(responses, s)
    BY <1>4 DEF Refuse
  <2>2. s \in {400, 404, 422, 500}
    BY <1>1, <1>4, <2>1, FirstFaultIsCheck, RefusalStatus DEF Refuse, Refused
  <2>3. responses' = <<s>> /\ pc' # "check"
    BY <1>4, <2>1 DEF Refuse, RefusalInv
  <2> QED
    BY <2>2, <2>3 DEF RefusalInv
<1>5. CASE Admit
  BY <1>2, <1>5 DEF Admit
<1>6. CASE HandlerNext /\ ~Refuse /\ ~Admit
  <2>1. pc \in {"publish", "wait"} /\ pc' # "check"
    BY <1>6 DEF HandlerNext, Publish, PublishFails, ReceiveError, ReceiveValue, ReceiveLemmas,
       ReceiveForms, Respond, Answer
  <2>2. \/ responses' = responses
        \/ \E status \in {200, 400, 404, 422, 500} : responses' = Append(responses, status)
    BY <1>6 DEF HandlerNext, Publish, PublishFails, ReceiveError, ReceiveValue, ReceiveLemmas,
       ReceiveForms, Respond, ErrorStatus
  <2> QED
    BY <1>2, <1>3, <2>1, <2>2
<1>7. CASE Stream
  <2>1. pc # "check" /\ pc' # "check"
    BY <1>7 DEF Stream, PublishColls, PublishCollsFails, CollsError, FirstValue, SecondValue,
       BadExamples, Launch, WriteEvent, Close, Respond, FirstEvent
  <2>2. responses' = responses \/ responses' = Append(responses, 500)
    BY <1>7 DEF Stream, PublishColls, PublishCollsFails, CollsError, FirstValue, SecondValue,
       BadExamples, Launch, WriteEvent, Close, Respond
  <2> QED
    BY <1>2, <1>3, <2>1, <2>2
<1>8. ASSUME responses' = responses, pc' = pc PROVE RefusalInv'
  BY <1>1, <1>8 DEF RefusalInv
<1>9. ASSUME NEW c \in Collocate, Goroutine(c) PROVE responses' = responses /\ pc' = pc
  BY <1>9 DEF Goroutine, PublishExamples, PublishExamplesFails, ExamplesValue, ExamplesError,
     Complain, handlerVars
<1>10. ASSUME NEW c \in Collocate, Take(c) PROVE RefusalInv'
  BY <1>2, <1>10 DEF Take
<1> QED
  BY <1>4, <1>5, <1>6, <1>7, <1>8, <1>9, <1>10 DEF Next, vars, handlerVars

LEMMA HandlerTypeStep ==
  ASSUME DomainInv, JobsInv, SequentialInv, StreamingInv, ExamplesInv, [Next]_vars
  PROVE  HandlerTypeOK'
<1> DEFINE Places == {"check", "publish", "wait", "second", "first", "list", "loop", "write", "done"}
<1>1. HandlerTypeOK
  BY DEF DomainInv, TypeOK
<1>2. jobs' \in Seq(JobRecord) /\ responses' \in Seq({200, 400, 404, 422, 500})
  BY JobsStep, ResponsesStep
<1>3. kind' = kind /\ request' = request
  BY RequestStays
<1>4. pc' \in Places
  <2>1. pc \in Places
    BY <1>1 DEF HandlerTypeOK
  <2>2. CASE HandlerNext
    BY <2>1, <2>2 DEF HandlerNext, Refuse, Admit, Publish, PublishFails, ReceiveError,
       ReceiveValue, ReceiveLemmas, ReceiveForms, Respond
  <2>3. CASE Stream
    BY <2>1, <2>3 DEF Stream, PublishColls, PublishCollsFails, CollsError, FirstValue, SecondValue,
       BadExamples, Launch, WriteEvent, Close, Respond, FirstEvent
  <2>4. ASSUME NEW c \in Collocate, Goroutine(c) \/ Take(c) PROVE pc' \in Places
    BY <2>1, <2>4 DEF Goroutine, PublishExamples, PublishExamplesFails, ExamplesValue,
       ExamplesError, Complain, Take, handlerVars
  <2> QED
    BY <2>1, <2>2, <2>3, <2>4 DEF Next, vars, handlerVars
<1>5. todo' \in 0..MaxLemmas \cup {1}
  <2>1. todo \in 0..MaxLemmas \cup {1}
    BY <1>1 DEF HandlerTypeOK
  <2>2. CASE Publish
    <3>1. todo > 0
      BY <2>2 DEF SequentialInv, Publish
    <3> QED
      BY <2>1, <2>2, <3>1, MaxLemmasAssumption DEF Publish
  <2>3. CASE HandlerNext /\ ~Publish
    BY <2>1, <2>3, MaxLemmasAssumption DEF HandlerNext, Refuse, Admit, PublishFails, ReceiveError,
       ReceiveValue, ReceiveLemmas, ReceiveForms
  <2>4. CASE Stream
    BY <2>1, <2>4 DEF Stream, PublishColls, PublishCollsFails, CollsError, FirstValue, SecondValue,
       BadExamples, Launch, WriteEvent, Close
  <2>5. ASSUME NEW c \in Collocate, Goroutine(c) \/ Take(c) PROVE todo' = todo
    BY <2>5 DEF Goroutine, PublishExamples, PublishExamplesFails, ExamplesValue,
       ExamplesError, Complain, Take, handlerVars
  <2> QED
    BY <2>1, <2>2, <2>3, <2>4, <2>5 DEF Next, vars, handlerVars
<1>6. failed' \in BOOLEAN
  <2>1. failed \in BOOLEAN
    BY <1>1 DEF HandlerTypeOK
  <2>2. CASE HandlerNext
    BY <2>1, <2>2 DEF HandlerNext, Refuse, Admit, Publish, PublishFails, ReceiveError,
       ReceiveValue, ReceiveLemmas, ReceiveForms, Answer
  <2>3. CASE Stream
    BY <2>1, <2>3 DEF Stream, PublishColls, PublishCollsFails, CollsError, FirstValue, SecondValue,
       BadExamples, Launch, WriteEvent, Close
  <2>4. ASSUME NEW c \in Collocate, Goroutine(c) \/ Take(c) PROVE failed' \in BOOLEAN
    BY <2>1, <2>4 DEF Goroutine, PublishExamples, PublishExamplesFails, ExamplesValue,
       ExamplesError, Complain, Take, handlerVars
  <2> QED
    BY <2>1, <2>2, <2>3, <2>4 DEF Next, vars, handlerVars
<1>7. \A i \in DOMAIN jobs' : jobs'[i] \in JobRecord
  BY <1>2
<1>8. \A i \in DOMAIN responses' : responses'[i] \in {200, 400, 404, 422, 500}
  BY <1>2
<1> QED
  BY <1>1, <1>3, <1>4, <1>5, <1>6, <1>7, <1>8 DEF HandlerTypeOK, JobRecord, Requests,
     KnowsSubcorpora, Checked, PassedOn

-------------------------------------------------------------------------------
(* What a sequential handler has published and answered.                   *)
LEMMA SequentialStep ==
  DomainInv /\ JobsInv /\ SequentialInv /\ StreamingInv /\ ExamplesInv /\ [Next]_vars => SequentialInv'
<1> SUFFICES ASSUME DomainInv, JobsInv, SequentialInv, StreamingInv, ExamplesInv, [Next]_vars, Sequential
             PROVE  SequentialInv'
  BY RequestStays DEF SequentialInv, Sequential
<1> DEFINE Once(p, rs, js) == kind # "termFrequency" =>
             /\ Len(rs) = (IF p = "done" THEN 1 ELSE 0)
             /\ Refused => p \in {"check", "done"} /\ js = <<>>
<1>1. /\ kind' = kind /\ request' = request /\ (Sequential' <=> Sequential) /\ (Refused' <=> Refused)
      /\ (FormsOfWords' <=> FormsOfWords)
  BY RequestStays DEF Sequential, Refused, FormsOfWords
<1>2. jobs \in Seq(JobRecord) /\ responses \in Seq({200, 400, 404, 422, 500})
  BY DEF DomainInv
<1>3. /\ pc = "check" => todo = 1 /\ jobs = <<>> /\ responses = <<>>
      /\ pc = "publish" => todo > 0 /\ AllEnded("value")
      /\ pc = "wait" => /\ jobs # <<>> /\ Last.end = "pending"
                        /\ \A i \in 1..(Len(jobs) - 1) : jobs[i].end = "value"
      /\ Once(pc, responses, jobs)
  BY DEF SequentialInv
<1> HIDE DEF Once
<1>4. CASE Refuse
  <2>1. PICK s : responses' = Append(responses, s) /\ s \in Status(FirstFault(kind))
    BY <1>4 DEF Refuse
  <2>2. pc' \in {"publish", "done"} /\ (kind # "termFrequency" => pc' = "done")
    BY <1>4 DEF Refuse
  <2>3. responses = <<>> /\ jobs' = <<>> /\ todo' = 1 /\ responses' = <<s>>
    BY <1>3, <1>4, <2>1 DEF Refuse
  <2>4. AllEnded("value")'
    BY <2>3 DEF AllEnded
  <2> QED
    BY <1>1, <2>2, <2>3, <2>4 DEF SequentialInv
<1>5. CASE Admit
  <2>1. pc' = "publish" /\ todo' = 1 /\ jobs' = <<>> /\ responses' = <<>> /\ ~Refused
    BY <1>3, <1>5 DEF Admit
  <2>2. AllEnded("value")'
    BY <2>1 DEF AllEnded
  <2> QED
    BY <1>1, <2>1, <2>2 DEF SequentialInv
<1>6. CASE Publish
  <2>1. PICK arg \in Arguments : jobs' = Append(jobs, NewJob(arg))
    BY <1>6 DEF Publish
  <2>2. pc = "publish" /\ pc' = "wait" /\ responses' = responses /\ AllEnded("value")
    BY <1>3, <1>6 DEF Publish
  <2>3. /\ jobs' \in Seq(JobRecord) /\ Len(jobs') = Len(jobs) + 1
        /\ jobs'[Len(jobs) + 1].end = "pending"
        /\ \A i \in DOMAIN jobs : jobs'[i] = jobs[i]
    BY <1>1, <2>1, <2>2, Arguing, Published
  <2>4. Last'.end = "pending" /\ jobs' # <<>>
    BY <1>2, <2>3 DEF Last
  <2>5. \A i \in 1..(Len(jobs') - 1) : jobs'[i].end = "value"
    BY <1>2, <2>2, <2>3 DEF AllEnded
  <2>6. kind # "termFrequency" => Len(responses') = 0 /\ ~Refused
    BY <1>3, <2>2 DEF Once
  <2> QED
    BY <1>1, <2>2, <2>4, <2>5, <2>6 DEF SequentialInv
<1>7. CASE PublishFails
  <2>1. /\ pc = "publish" /\ pc' = "done" /\ failed' = TRUE
        /\ responses' = Append(responses, 500)
    BY <1>7 DEF PublishFails, Respond
  <2>2. responses' # <<>> /\ Final' = 500 /\ Len(responses') = Len(responses) + 1
    BY <1>2, <2>1 DEF Final
  <2>3. ResponseIsRight'
    BY <2>1, <2>2 DEF ResponseIsRight
  <2>4. kind # "termFrequency" => Len(responses) = 0 /\ ~Refused
    BY <1>3, <2>1 DEF Once
  <2> QED
    BY <1>1, <2>1, <2>2, <2>3, <2>4 DEF SequentialInv
<1>8. ASSUME NEW end, Answer(end)
      PROVE  /\ pc = "wait" /\ jobs' # <<>> /\ Last'.end = end /\ end \in End /\ failed' = failed
             /\ \A i \in DOMAIN jobs' : jobs'[i].end \in {"value", end}
             /\ kind # "termFrequency" => Len(responses) = 0 /\ ~Refused
  <2>1. pc = "wait" /\ failed' = failed /\ kind' = kind /\ request' = request
        /\ jobs' = [jobs EXCEPT ![Len(jobs)].end = end]
        /\ end \in Ends(jobs[Len(jobs)].func, jobs[Len(jobs)].arg) \cup {"error"}
    BY <1>8 DEF Answer, Last
  <2>2. Len(jobs) \in DOMAIN jobs
    BY <2>1, Waiting
  <2>3. /\ jobs' \in Seq(JobRecord) /\ Len(jobs') = Len(jobs) /\ jobs'[Len(jobs)].end = end
        /\ end \in End /\ \A k \in DOMAIN jobs : k # Len(jobs) => jobs'[k] = jobs[k]
    BY <2>1, <2>2, Ended
  <2>4. jobs' # <<>> /\ Last'.end = end
    BY <1>2, <2>2, <2>3 DEF Last
  <2>5. \A i \in DOMAIN jobs' : jobs'[i].end \in {"value", end}
    BY <1>2, <1>3, <2>1, <2>2, <2>3
  <2>6. kind # "termFrequency" => Len(responses) = 0 /\ ~Refused
    BY <1>3, <2>1 DEF Once
  <2> QED
    BY <2>1, <2>3, <2>4, <2>5, <2>6
<1>9. ASSUME NEW status, Respond(status)
      PROVE  /\ pc' = "done" /\ responses' # <<>> /\ Final' = status
             /\ Len(responses) = 0 => Len(responses') = 1
  BY <1>2, <1>9 DEF Respond, Final
<1>10. CASE ReceiveError
  <2>1. PICK end \in End \ {"value"} : Answer(end) /\ Respond(ErrorStatus(end))
    BY <1>10 DEF ReceiveError
  <2>2. ResponseIsRight'
    <3>1. /\ Last'.end = end /\ \A i \in DOMAIN jobs' : jobs'[i].end \in {"value", end}
          /\ Final' = ErrorStatus(end)
      BY <1>8, <1>9, <2>1
    <3>2. /\ ErrorStatus(end) \in {400, 500} /\ (ErrorStatus(end) = 400 => end = "userError")
          /\ ErrorStatus(end) = 500 => FormsOfWords \/ end \in {"error", "panic"}
      BY <2>1 DEF ErrorStatus, End
    <3> QED
      BY <1>1, <2>1, <3>1, <3>2 DEF ResponseIsRight, End
  <2> QED
    BY <1>1, <1>8, <1>9, <2>1, <2>2 DEF SequentialInv
<1>11. ASSUME NEW status, Answer("value"), Respond(status),
              status \in {200, 404} \/ (status = 500 /\ FormsOfWords)
       PROVE  SequentialInv'
  <2>1. ResponseIsRight'
    BY <1>1, <1>8, <1>9, <1>11 DEF ResponseIsRight, AllEnded
  <2> QED
    BY <1>1, <1>8, <1>9, <1>11, <2>1 DEF SequentialInv
<1>12. ASSUME Answer("value"), pc' = "publish", todo' > 0, responses' = responses PROVE SequentialInv'
  BY <1>1, <1>8, <1>12 DEF SequentialInv, AllEnded
<1>13. CASE ReceiveValue
  BY <1>11, <1>13 DEF ReceiveValue
<1>14. CASE ReceiveLemmas
  <2>1. FormsOfWords
    BY <1>14 DEF ReceiveLemmas, FormsOfWords
  <2> QED
    BY <1>11, <1>12, <1>14, <2>1, MaxLemmasAssumption DEF ReceiveLemmas
<1>15. CASE ReceiveForms
  BY <1>12, <1>15 DEF ReceiveForms
<1>16. CASE UNCHANGED handlerVars
  BY <1>1, <1>16 DEF SequentialInv, handlerVars, AllEnded, ResponseIsRight, Last, Final
<1> QED
  BY <1>4, <1>5, <1>6, <1>7, <1>10, <1>13, <1>14, <1>15, <1>16, SequentialNext DEF HandlerNext, vars

-------------------------------------------------------------------------------
(* The two jobs of CollocationsExtended.                                   *)
LEMMA StreamingStep ==
  DomainInv /\ JobsInv /\ SequentialInv /\ StreamingInv /\ ExamplesInv /\ [Next]_vars => StreamingInv'
<1> SUFFICES ASSUME DomainInv, JobsInv, StreamingInv, ExamplesInv, [Next]_vars, Streaming
             PROVE  StreamingInv'
  BY RequestStays DEF StreamingInv, Streaming
<1>1. kind' = kind /\ request' = request /\ Streaming' /\ ~Sequential /\ kind # "termFrequency"
  BY RequestStays DEF Streaming, Sequential
<1>2. jobs \in Seq(JobRecord) /\ cmpCorp \in BOOLEAN
  BY DEF DomainInv, TypeOK
<1>3. /\ pc = "check" => jobs = <<>>
      /\ pc = "publish" => AllEnded("pending") /\ Len(jobs) \in {0, 1} /\ (Len(jobs) = 1 => cmpCorp)
      /\ pc = "first" => AllEnded("pending") /\ Len(jobs) = IF cmpCorp THEN 2 ELSE 1
      /\ pc = "second" => Len(jobs) = 2 /\ jobs[1].end = "value" /\ jobs[2].end = "pending"
      /\ pc \in {"list", "loop", "write"} => AllEnded("value")
      /\ NobodyLeftWaiting
  BY DEF StreamingInv
<1>4. CASE Refuse \/ Admit
  <2>1. jobs' = <<>> /\ pc' \in {"publish", "done"}
    BY <1>1, <1>3, <1>4 DEF Refuse, Admit
  <2> QED
    BY <2>1 DEF StreamingInv, AllEnded, NobodyLeftWaiting
<1>5. CASE PublishColls
  <2> DEFINE arg == (request \cap PassedOn(kind)) \cap Unusual
  <2>0. arg \in SUBSET Unusual /\ arg \subseteq PassedOn(kind)
    OBVIOUS
  <2>1. /\ pc = "publish" /\ jobs' = Append(jobs, NewJob(arg))
        /\ pc' = (IF cmpCorp /\ jobs = <<>> THEN "publish" ELSE "first") /\ cmpCorp' = cmpCorp
    BY <1>5 DEF PublishColls, CollJob, streamVars
  <2> HIDE DEF arg
  <2>2. /\ jobs' \in Seq(JobRecord) /\ Len(jobs') = Len(jobs) + 1
        /\ jobs'[Len(jobs) + 1].end = "pending"
        /\ \A i \in DOMAIN jobs : jobs'[i] = jobs[i]
    BY <1>1, <2>0, <2>1, Published
  <2>3. AllEnded("pending")'
    BY <1>2, <1>3, <2>1, <2>2 DEF AllEnded
  <2>4. jobs = <<>> <=> Len(jobs) = 0
    BY <1>2
  <2> QED
    BY <1>3, <2>1, <2>2, <2>3, <2>4 DEF StreamingInv, NobodyLeftWaiting
<1>6. CASE PublishCollsFails
  BY <1>6 DEF PublishCollsFails, Respond, StreamingInv, NobodyLeftWaiting
<1>7. ASSUME NEW i \in DOMAIN jobs, NEW end, Answered(i, end)
      PROVE  /\ Len(jobs') = Len(jobs) /\ jobs'[i].end = end /\ jobs' \in Seq(JobRecord)
             /\ \A k \in DOMAIN jobs : k # i => jobs'[k] = jobs[k]
  BY <1>1, <1>7, Ended DEF Answered
<1>8. /\ pc = "first" => 1 \in DOMAIN jobs /\ AllEnded("pending")
      /\ pc = "second" => 2 \in DOMAIN jobs /\ Len(jobs) = 2
  BY <1>2, <1>3
<1>9. CASE CollsError
  <2>1. PICK end \in End \ {"value"} : Answered(IF pc = "first" THEN 1 ELSE 2, end)
    BY <1>9 DEF CollsError
  <2>2. pc \in {"first", "second"} /\ pc' = "done" /\ end # "pending" /\ end # "value"
    BY <1>9, <2>1 DEF CollsError, End
  <2>3. CASE pc = "first"
    <3>1. /\ Len(jobs') = Len(jobs) /\ jobs'[1].end = end /\ jobs' \in Seq(JobRecord)
      BY <1>7, <1>8, <2>1, <2>3
    <3>2. Len(jobs) \in {1, 2}
      BY <1>3, <2>3
    <3>3. pc' \notin {"wait", "check", "publish", "first", "second", "list", "loop", "write"}
      BY <2>2
    <3>4. NobodyLeftWaiting'
      <4>1. \A i \in DOMAIN jobs' : i \in {1, 2}
        <5>1. DOMAIN jobs' = 1..Len(jobs')
          BY <3>1
        <5> QED
          BY <3>1, <3>2, <5>1
      <4>2. jobs'[1].end \notin {"pending", "value"}
        BY <2>2, <3>1
      <4> QED
        BY <1>1, <4>1, <4>2 DEF NobodyLeftWaiting, Streaming
    <3> QED
      BY <3>3, <3>4, Zenon DEF StreamingInv
  <2>4. CASE pc = "second"
    <3>1. /\ Len(jobs') = Len(jobs) /\ jobs'[2].end = end /\ jobs' \in Seq(JobRecord)
          /\ jobs'[1] = jobs[1] /\ Len(jobs) = 2
      BY <1>2, <1>7, <1>8, <2>1, <2>4
    <3> QED
      BY <1>3, <2>2, <2>4, <3>1 DEF StreamingInv, NobodyLeftWaiting
  <2> QED
    BY <2>2, <2>3, <2>4
<1>10. CASE FirstValue
  <2>1. /\ pc = "first" /\ Answered(1, "value") /\ cmpCorp' = cmpCorp
        /\ pc' = IF cmpCorp THEN "second" ELSE "list"
    BY <1>10 DEF FirstValue, FirstEvent
  <2>2. /\ Len(jobs') = Len(jobs) /\ jobs'[1].end = "value" /\ jobs' \in Seq(JobRecord)
        /\ \A k \in DOMAIN jobs : k # 1 => jobs'[k] = jobs[k]
    BY <1>7, <1>8, <2>1
  <2>3. cmpCorp => jobs'[2].end = "pending" /\ Len(jobs') = 2
    BY <1>2, <1>3, <2>1, <2>2 DEF AllEnded
  <2>4. ~cmpCorp => AllEnded("value")'
    BY <1>3, <2>1, <2>2 DEF AllEnded
  <2> QED
    BY <2>1, <2>2, <2>3, <2>4 DEF StreamingInv, NobodyLeftWaiting
<1>11. CASE SecondValue
  <2>1. pc = "second" /\ Answered(2, "value") /\ pc' = "list"
    BY <1>11 DEF SecondValue, FirstEvent
  <2>2. 1 \in DOMAIN jobs /\ 2 \in DOMAIN jobs /\ Len(jobs) = 2
    BY <1>2, <1>3, <2>1
  <2>3. /\ Len(jobs') = 2 /\ jobs'[2].end = "value" /\ jobs' \in Seq(JobRecord)
        /\ \A k \in DOMAIN jobs : k # 2 => jobs'[k] = jobs[k]
    BY <1>7, <2>1, <2>2
  <2>4. jobs'[1] = jobs[1]
    BY <2>2, <2>3
  <2>5. AllEnded("value")'
    BY <1>3, <2>1, <2>3, <2>4 DEF AllEnded
  <2> QED
    BY <2>1, <2>5 DEF StreamingInv, NobodyLeftWaiting
<1>12. CASE BadExamples \/ Launch \/ WriteEvent \/ Close
  <2>1. pc \in {"list", "loop", "write"} /\ pc' \in {"list", "loop", "write", "done"} /\ jobs' = jobs
    BY <1>12 DEF BadExamples, Launch, WriteEvent, Close
  <2> QED
    BY <1>3, <2>1 DEF StreamingInv, NobodyLeftWaiting, AllEnded
<1>13. ASSUME NEW c \in Collocate, Take(c) PROVE StreamingInv'
  <2>1. pc = "loop" /\ pc' = "write" /\ jobs' = jobs
    BY <1>13 DEF Take
  <2> QED
    BY <1>3, <2>1 DEF StreamingInv, NobodyLeftWaiting, AllEnded
<1>14. ASSUME pc' = pc, jobs' = jobs, cmpCorp' = cmpCorp, failed' = failed \/ failed' = TRUE
       PROVE  StreamingInv'
  BY <1>1, <1>14 DEF StreamingInv, NobodyLeftWaiting, AllEnded, Streaming
<1>15. ASSUME NEW c \in Collocate, Goroutine(c) PROVE StreamingInv'
  BY <1>14, <1>15 DEF Goroutine, PublishExamples, PublishExamplesFails, ExamplesValue,
     ExamplesError,
     Complain, handlerVars
<1>16. CASE UNCHANGED vars
  BY <1>14, <1>16 DEF vars, handlerVars, streamVars
<1> QED
  BY <1>1, <1>4, <1>5, <1>6, <1>9, <1>10, <1>11, <1>12, <1>13, <1>15, <1>16, StreamingNext
     DEF Stream

-------------------------------------------------------------------------------
(* The stream of CollocationsExtended.                                     *)

LEMMA Counting ==
  ASSUME NEW S \in SUBSET Collocate
  PROVE  IsFiniteSet(S) /\ Cardinality(S) \in Nat /\ Cardinality(S) <= MaxColls
<1>1. IsFiniteSet(Collocate) /\ Cardinality(Collocate) = MaxColls
  BY MaxCollsAssumption, FS_Interval DEF Collocate
<1> QED
  BY <1>1, FS_Subset, FS_CardinalityType

(* Two different collocates are more than one.                             *)
LEMMA TwoColls ==
  ASSUME NEW S \in SUBSET Collocate, NEW c \in S, NEW d \in S, c # d
  PROVE  Cardinality(S) > 1
<1>1. IsFiniteSet({c}) /\ Cardinality({c}) = 1
  BY FS_Singleton
<1>2. Cardinality({c} \cup {d}) = 2 /\ {c} \cup {d} \subseteq S
  BY <1>1, FS_AddElement
<1>3. Cardinality({c} \cup {d}) <= Cardinality(S)
  BY <1>2, Counting, FS_Subset
<1> QED
  BY <1>2, <1>3, Counting

(* No more collocates are found than MaxColls.                             *)
LEMMA FoundColls ==
  ASSUME FirstValue
  PROVE  colls' \subseteq Collocate
<1>1. PICK n \in 0..MaxColls : colls' = 1..n
  BY DEF FirstValue
<1>2. n \in Nat /\ n <= MaxColls
  BY MaxCollsAssumption
<1> QED
  BY <1>1, <1>2, MaxCollsAssumption DEF Collocate

LEMMA StreamTypeStep ==
  ASSUME DomainInv, ExamplesInv, [Next]_vars
  PROVE  /\ cmpCorp' \in BOOLEAN /\ colls' \subseteq Collocate
         /\ gor' \in [Collocate -> {"none", "start", "wait", "offer", "offerBare", "complain", "done"}]
         /\ item' \in [Collocate -> {"none", "examples", "bare"}]
         /\ event' \subseteq Collocate
         /\ events' \in Nat /\ errors' \in 0..1 /\ intruders' \in Nat
         /\ garbled' \in BOOLEAN
<1>1. /\ colls \subseteq Collocate
      /\ gor \in [Collocate -> {"none", "start", "wait", "offer", "offerBare", "complain", "done"}]
      /\ item \in [Collocate -> {"none", "examples", "bare"}]
      /\ event \subseteq Collocate
      /\ events \in Nat /\ errors \in 0..1 /\ intruders \in Nat
  BY MaxCollsAssumption DEF DomainInv, TypeOK
<1>2. cmpCorp \in BOOLEAN /\ garbled \in BOOLEAN
  BY DEF DomainInv, TypeOK
<1>3. pc \in {"first", "second", "list"} => errors = 0
  BY DEF ExamplesInv
<1>4. CASE UNCHANGED streamVars
  BY <1>1, <1>2, <1>4 DEF streamVars
<1>5. CASE PublishColls \/ PublishCollsFails \/ Close
  BY <1>1, <1>2, <1>5 DEF PublishColls, PublishCollsFails, Close, streamVars
<1>6. CASE CollsError \/ BadExamples
  BY <1>1, <1>2, <1>3, <1>6 DEF CollsError, BadExamples
<1>7. CASE FirstValue \/ SecondValue
  <2>1. colls' \subseteq Collocate
    BY <1>1, <1>7, FoundColls DEF SecondValue
  <2>2. /\ event' = event \/ event' = {}
        /\ events' = events \/ events' = 1
        /\ UNCHANGED <<cmpCorp, gor, item, errors, intruders, garbled>>
    BY <1>7 DEF FirstValue, SecondValue, FirstEvent
  <2> QED
    BY <1>1, <1>2, <2>1, <2>2
<1>8. CASE Launch \/ WriteEvent
  BY <1>1, <1>2, <1>8 DEF Launch, WriteEvent
<1>9. ASSUME NEW c \in Collocate, Take(c)
      PROVE  /\ gor' \in [Collocate -> {"none", "start", "wait", "offer", "offerBare", "complain", "done"}]
             /\ item' \in [Collocate -> {"none", "examples", "bare"}]
             /\ UNCHANGED <<cmpCorp, colls, event, events, errors, intruders, garbled>>
  BY <1>1, <1>9 DEF Take
<1>10. ASSUME NEW c \in Collocate, Goroutine(c)
       PROVE  /\ gor' \in [Collocate -> {"none", "start", "wait", "offer", "offerBare", "complain", "done"}]
              /\ intruders' \in Nat
              /\ UNCHANGED <<cmpCorp, colls, item, event, events, errors>>
  BY <1>1, <1>10 DEF Goroutine, PublishExamples, PublishExamplesFails, ExamplesValue, ExamplesError,
     Complain, Goes
<1>11. ASSUME NEW c \in Collocate, Goroutine(c) PROVE garbled' \in BOOLEAN
  BY <1>2, <1>11 DEF Goroutine, PublishExamples, PublishExamplesFails, ExamplesValue, ExamplesError,
     Complain
<1> QED
  BY <1>1, <1>2, <1>4, <1>5, <1>6, <1>7, <1>8, <1>9, <1>10, <1>11 DEF Next, Stream,
     vars

LEMMA ExamplesStep ==
  DomainInv /\ SequentialInv /\ StreamingInv /\ ExamplesInv /\ [Next]_vars => ExamplesInv'
<1> SUFFICES ASSUME DomainInv, SequentialInv, StreamingInv, ExamplesInv, [Next]_vars PROVE ExamplesInv'
  OBVIOUS
<1>1. /\ colls \subseteq Collocate /\ event \subseteq Collocate
      /\ gor \in [Collocate -> {"none", "start", "wait", "offer", "offerBare", "complain", "done"}]
      /\ item \in [Collocate -> {"none", "examples", "bare"}]
      /\ events \in Nat /\ errors \in 0..1 /\ intruders \in Nat
  BY MaxCollsAssumption DEF DomainInv, TypeOK
<1>2. Sequential' <=> Sequential
  BY RequestStays DEF Sequential
<1> DEFINE Early == /\ event = {} /\ errors = 0 /\ \A c \in Collocate : gor[c] = "none"
<1>3. Early => /\ \A c \in Collocate : item[c] = "none"
               /\ intruders = 0 /\ ~garbled
  <2> SUFFICES ASSUME Early PROVE /\ \A c \in Collocate : item[c] = "none"
                                  /\ intruders = 0 /\ ~garbled
    OBVIOUS
  <2>1. Complained = {}
    BY <1>1 DEF Complained
  <2> QED
    BY <1>1, <2>1, FS_EmptySet DEF ExamplesInv
<1>4. ASSUME UNCHANGED streamVars, Early, events = 0,
             pc' \notin {"list", "loop", "write"}
      PROVE  ExamplesInv'
  <2>1. Complained' = Complained /\ Shown' = Shown
    BY <1>4 DEF Complained, Shown, streamVars
  <2> QED
    BY <1>4, <2>1 DEF ExamplesInv, streamVars
<1>5. CASE HandlerNext /\ UNCHANGED streamVars
  <2>1. Early /\ events = 0 /\ pc' \notin {"list", "loop", "write"}
    <3>1. pc \in {"check", "publish"} \/ Sequential
      BY <1>5 DEF HandlerNext, Refuse, Admit, Publish, PublishFails, ReceiveError, ReceiveValue,
         ReceiveLemmas, ReceiveForms, Answer, StreamingInv, Streaming, Sequential
    <3>2. pc' \notin {"list", "loop", "write"} /\ pc # "list"
      BY <1>5 DEF HandlerNext, Refuse, Admit, Publish, PublishFails, ReceiveError, ReceiveValue,
         ReceiveLemmas, ReceiveForms, Answer, Respond
    <3> QED
      BY <3>1, <3>2 DEF ExamplesInv
  <2> QED
    BY <1>4, <1>5, <2>1
<1>6. CASE PublishColls \/ PublishCollsFails
  <2>1. pc = "publish" /\ UNCHANGED streamVars /\ pc' \in {"publish", "first", "done"}
    BY <1>6 DEF PublishColls, PublishCollsFails, Respond
  <2> QED
    BY <1>4, <2>1 DEF ExamplesInv
<1>7. CASE CollsError \/ BadExamples
  <2>1. /\ pc \in {"first", "second", "list"} /\ pc' = "done" /\ errors' = errors + 1
        /\ UNCHANGED <<colls, gor, item, event, events, intruders, garbled>>
    BY <1>7 DEF CollsError, BadExamples
  <2>2. Early /\ ~Sequential
    BY <1>7, <2>1, NotStreaming DEF ExamplesInv, Stream
  <2>3. Complained' = Complained
    BY <2>1 DEF Complained
  <2> QED
    BY <1>2, <2>1, <2>2, <2>3 DEF ExamplesInv
<1>8. CASE FirstValue
  <2>1. pc = "first" /\ Early /\ events = 0
    BY <1>8 DEF FirstValue, ExamplesInv
  <2>2. /\ event' = {} /\ UNCHANGED <<gor, item, errors, intruders, garbled>>
        /\ \/ pc' = "second" /\ events' = events
           \/ pc' = "list" /\ events' = 1
    BY <1>8, <2>1 DEF FirstValue, FirstEvent
  <2>3. Complained' = {}
    BY <1>8, <2>1, <2>2, FoundColls DEF Complained
  <2> QED
    BY <1>2, <1>3, <1>8, <2>1, <2>2, <2>3, FS_EmptySet, NotStreaming DEF ExamplesInv, Stream
<1>9. CASE SecondValue
  <2>1. /\ pc = "second" /\ event' = {} /\ events' = 1 /\ pc' = "list"
        /\ UNCHANGED <<colls, gor, item, errors, intruders, garbled>>
    BY <1>9 DEF SecondValue, FirstEvent
  <2>2. Early
    BY <2>1 DEF ExamplesInv
  <2>3. Complained' = Complained
    BY <2>1 DEF Complained
  <2> QED
    BY <1>2, <1>3, <1>9, <2>1, <2>2, <2>3, NotStreaming DEF ExamplesInv, Stream
<1>10. CASE Launch
  <2>1. /\ pc = "list" /\ pc' = "loop"
        /\ gor' = [c \in Collocate |-> IF c \in colls THEN "start" ELSE "none"]
        /\ UNCHANGED <<colls, item, event, events, errors, intruders, garbled>>
    BY <1>10 DEF Launch
  <2>2. Early /\ events = 1
    BY <2>1 DEF ExamplesInv
  <2>3. Complained' = {} /\ Shown' = {}
    BY <1>1, <1>3, <2>1, <2>2 DEF Complained, Shown
  <2> QED
    BY <1>2, <1>3, <1>10, <2>1, <2>2, <2>3, FS_EmptySet, NotStreaming DEF ExamplesInv, Stream
<1>11. CASE WriteEvent
  <2>1. /\ pc = "write" /\ pc' = "loop" /\ event' = Shown /\ events' = events + 1
        /\ UNCHANGED <<colls, gor, item, errors, intruders, garbled>>
    BY <1>11 DEF WriteEvent, Shown
  <2>2. PICK c \in Shown : event = Shown \ {c}
    BY <2>1 DEF ExamplesInv
  <2>3. Cardinality(event) = Cardinality(Shown) - 1 /\ Cardinality(Shown) \in Nat
    BY <1>1, <2>2, Counting, FS_RemoveElement DEF Shown
  <2>4. events' = 1 + Cardinality(Shown)
    BY <2>1, <2>3 DEF ExamplesInv
  <2>5. Complained' = Complained /\ Shown' = Shown
    BY <2>1 DEF Complained, Shown
  <2> QED
    BY <1>2, <1>11, <2>1, <2>4, <2>5, NotStreaming DEF ExamplesInv, Stream
<1>12. CASE Close
  <2>1. /\ pc = "loop" /\ pc' = "done" /\ UNCHANGED streamVars
        /\ \A c \in colls : gor[c] = "done"
    BY <1>12 DEF Close
  <2>2. Complained' = Complained /\ Shown' = Shown
    BY <2>1 DEF Complained, Shown, streamVars
  <2> QED
    BY <1>1, <1>2, <1>12, <2>1, <2>2, NotStreaming DEF ExamplesInv, Stream, streamVars
<1>13. ASSUME NEW c \in Collocate, Take(c) PROVE ExamplesInv'
  <2>1. /\ pc = "loop" /\ pc' = "write" /\ gor[c] \in {"offer", "offerBare"}
        /\ item' = [item EXCEPT ![c] = IF gor[c] = "offer" THEN "examples" ELSE "bare"]
        /\ gor'  = [gor EXCEPT ![c] = "done"]
        /\ UNCHANGED <<colls, event, events, errors, intruders, garbled>>
    BY <1>13 DEF Take
  <2>2. c \in colls /\ item[c] = "none" /\ event = Shown
    BY <1>1, <2>1 DEF ExamplesInv
  <2>3. Complained' = Complained
    BY <1>1, <2>1, <2>2 DEF Complained
  <2>4. Shown' = Shown \cup {c} /\ c \notin Shown
    BY <1>1, <2>1, <2>2 DEF Shown
  <2>5. c \in Shown' /\ event' = Shown' \ {c}
    BY <2>1, <2>2, <2>4
  <2>6. \A d \in Collocate : /\ gor'[d] # "none" => d \in colls'
                             /\ item'[d] # "none" => gor'[d] = "done"
    BY <1>1, <2>1, <2>2 DEF ExamplesInv
  <2> QED
    BY <1>2, <1>13, <2>1, <2>3, <2>5, <2>6, NotStreaming DEF ExamplesInv, Stream
<1>14. ASSUME NEW c \in Collocate, Goroutine(c) PROVE ExamplesInv'
  <2>1. pc \notin {"first", "second", "list", "check", "publish", "done"} /\ ~Sequential
    BY <1>14, <1>1 DEF Goroutine, PublishExamples, PublishExamplesFails, ExamplesValue,
       ExamplesError,
       Complain, Goes, ExamplesInv
  <2>2. pc' = pc /\ UNCHANGED <<colls, item, event, events, errors>>
    BY <1>14 DEF Goroutine, PublishExamples, PublishExamplesFails, ExamplesValue, ExamplesError,
       Complain, handlerVars
  <2>3. Shown' = Shown
    BY <2>2 DEF Shown
  <2>4. CASE ~Complain(c)
    <3>1. PICK to \in {"wait", "offer", "offerBare", "complain"} : gor' = [gor EXCEPT ![c] = to]
      BY <1>14, <2>4 DEF Goroutine, PublishExamples, PublishExamplesFails, ExamplesValue,
         ExamplesError, Goes
    <3>2. gor[c] \in {"start", "wait"} /\ UNCHANGED <<intruders, garbled>>
      BY <1>14, <2>4 DEF Goroutine, PublishExamples, PublishExamplesFails, ExamplesValue,
         ExamplesError, Goes
    <3>3. Complained' = Complained
      BY <1>1, <2>2, <3>1, <3>2 DEF Complained
    <3>4. \A d \in Collocate : /\ gor'[d] # "none" => d \in colls
                               /\ item[d] # "none" => gor'[d] = "done"
      BY <1>1, <3>1, <3>2 DEF ExamplesInv
    <3> QED
      BY <1>2, <2>1, <2>2, <2>3, <3>2, <3>3, <3>4 DEF ExamplesInv
  <2>5. CASE Complain(c)
    <3>1. /\ gor[c] = "complain" /\ gor' = [gor EXCEPT ![c] = "done"] /\ intruders' = intruders + 1
          /\ garbled' = garbled \/ garbled' = (garbled \/ Writers # {c})
      BY <2>5 DEF Complain, Goes
    <3>2. c \in colls /\ item[c] = "none"
      BY <1>1, <3>1 DEF ExamplesInv
    <3>3. Complained' = Complained \cup {c} /\ c \notin Complained
      BY <1>1, <2>2, <3>1, <3>2 DEF Complained
    <3>4. intruders' = Cardinality(Complained') /\ intruders' > 0
      <4>1. IsFiniteSet(Complained) /\ Cardinality(Complained) = intruders
        BY <1>1, Counting DEF Complained, ExamplesInv
      <4> QED
        BY <1>1, <3>1, <3>3, <4>1, FS_AddElement
    <3>5. ASSUME Writers # {c} PROVE Cardinality(colls) > 1
      <4>1. c \in Writers
        BY <3>1 DEF Writers
      <4>2. PICK w \in Writers : w # c
        BY <3>5, <4>1
      <4>3. CASE gor[w] = "complain" /\ w \in Collocate
        BY <1>1, <3>2, <4>2, <4>3, TwoColls DEF ExamplesInv
      <4>4. CASE pc = "write"
        <5>1. PICK d \in Shown : event = Shown \ {d}
          BY <4>4 DEF ExamplesInv
        <5>2. d \in colls /\ d # c
          BY <3>2, <5>1 DEF Shown
        <5> QED
          BY <1>1, <3>2, <5>2, TwoColls
      <4> QED
        BY <4>2, <4>3, <4>4 DEF Writers
    <3>6. garbled' => intruders' > 0 /\ Cardinality(colls) > 1
      BY <3>1, <3>4, <3>5 DEF ExamplesInv
    <3>7. \A d \in Collocate : /\ gor'[d] # "none" => d \in colls
                               /\ item[d] # "none" => gor'[d] = "done"
      BY <1>1, <3>1, <3>2 DEF ExamplesInv
    <3> QED
      BY <1>2, <2>1, <2>2, <2>3, <3>4, <3>6, <3>7 DEF ExamplesInv
  <2> QED
    BY <2>4, <2>5
<1>15. CASE UNCHANGED vars
  <2>1. Complained' = Complained /\ Shown' = Shown
    BY <1>15 DEF Complained, Shown, streamVars, vars
  <2> QED
    BY <1>2, <1>15, <2>1 DEF ExamplesInv, streamVars, vars, handlerVars
<1> QED
  BY <1>5, <1>6, <1>7, <1>8, <1>9, <1>10, <1>11, <1>12, <1>13, <1>14, <1>15 DEF Next, Stream

-------------------------------------------------------------------------------
LEMMA TypeStep == HandlerInv /\ [Next]_vars => TypeOK'
<1> SUFFICES ASSUME HandlerInv, [Next]_vars PROVE TypeOK'
  OBVIOUS
<1> USE DEF HandlerInv
<1>1. /\ cmpCorp' \in BOOLEAN /\ colls' \subseteq Collocate
      /\ gor' \in [Collocate -> {"none", "start", "wait", "offer", "offerBare", "complain", "done"}]
      /\ item' \in [Collocate -> {"none", "examples", "bare"}]
      /\ event' \subseteq Collocate
      /\ events' \in Nat /\ errors' \in 0..1 /\ intruders' \in Nat
      /\ garbled' \in BOOLEAN
  BY StreamTypeStep
<1>2. events' <= MaxColls + 1
  <2>1. events \in 0..(MaxColls + 1)
    BY DEF DomainInv, TypeOK
  <2>2. CASE WriteEvent
    <3>1. PICK c \in Shown : event = Shown \ {c}
      BY <2>2 DEF WriteEvent, ExamplesInv
    <3>2. Shown \subseteq Collocate
      BY DEF Shown, DomainInv, TypeOK
    <3>3. Cardinality(event) = Cardinality(Shown) - 1
      BY <3>1, <3>2, Counting, FS_RemoveElement
    <3>4. events' = 1 + Cardinality(event) + 1
      BY <2>2 DEF WriteEvent, ExamplesInv
    <3>5. Cardinality(Shown) \in Nat /\ Cardinality(Shown) <= MaxColls
      BY <3>2, Counting
    <3> QED
      BY <3>3, <3>4, <3>5, MaxCollsAssumption
  <2>3. CASE FirstValue \/ SecondValue
    BY <2>1, <2>3, MaxCollsAssumption DEF FirstValue, SecondValue, FirstEvent
  <2>4. ASSUME \/ UNCHANGED streamVars \/ CollsError \/ BadExamples \/ Launch
               \/ \E c \in Collocate : Goroutine(c) \/ Take(c)
        PROVE  events' = events
    BY <2>4 DEF streamVars, CollsError, BadExamples, Launch, Take, Goroutine, PublishExamples,
       PublishExamplesFails, ExamplesValue, ExamplesError, Complain
  <2> QED
    BY <2>1, <2>2, <2>3, <2>4, MaxCollsAssumption
       DEF Next, Stream, PublishColls, PublishCollsFails, Close, vars
<1>3. intruders' <= MaxColls
  <2>1. ExamplesInv'
    BY ExamplesStep
  <2>2. Complained' \subseteq Collocate
    BY <1>1 DEF Complained
  <2> QED
    BY <2>1, <2>2, Counting DEF ExamplesInv
<1>4. HandlerTypeOK'
  BY HandlerTypeStep
<1> QED
  BY <1>1, <1>2, <1>3, <1>4, MaxCollsAssumption DEF TypeOK

LEMMA HandlerInit == CollInit => HandlerInv
<1> SUFFICES ASSUME CollInit PROVE HandlerInv
  OBVIOUS
<1>1. /\ kind \in Kind /\ request \in Requests(kind) /\ pc = "check" /\ jobs = <<>> /\ todo = 1
      /\ failed = FALSE /\ responses = <<>>
      /\ colls = {} /\ event = {} /\ events = 0 /\ errors = 0 /\ intruders = 0 /\ garbled = FALSE
      /\ gor = [c \in Collocate |-> "none"] /\ item = [c \in Collocate |-> "none"]
  BY DEF CollInit, Init
<1>2. cmpCorp \in BOOLEAN
  BY DEF CollInit
<1>3. TypeOK
  <2>1. failed \in BOOLEAN /\ garbled \in BOOLEAN
    BY DEF CollInit, Init
  <2>2. DOMAIN jobs = {} /\ DOMAIN responses = {}
    BY <1>1
  <2>3. pc = "check" /\ todo = 1 /\ kind \in Kind /\ request \in Requests(kind)
    BY <1>1
  <2>4. HandlerTypeOK
    BY <2>1, <2>2, <2>3 DEF HandlerTypeOK
  <2>5. /\ gor = [c \in Collocate |-> "none"] /\ item = [c \in Collocate |-> "none"]
        /\ colls = {} /\ event = {} /\ events = 0 /\ errors = 0 /\ intruders = 0
    BY <1>1
  <2> QED
    BY <1>2, <2>1, <2>4, <2>5, MaxCollsAssumption DEF TypeOK
<1>4. DomainInv /\ JobsInv
  BY <1>1, <1>3 DEF DomainInv, JobsInv
<1>5. SequentialInv /\ StreamingInv
  BY <1>1 DEF SequentialInv, StreamingInv, NobodyLeftWaiting
<1>6. ExamplesInv
  <2>1. Complained = {}
    BY <1>1 DEF Complained
  <2> QED
    BY <1>1, <2>1, FS_EmptySet DEF ExamplesInv
<1> QED
  BY <1>1, <1>4, <1>5, <1>6 DEF HandlerInv, RefusalInv

LEMMA HandlerStep == HandlerInv /\ [Next]_vars => HandlerInv'
  BY TypeStep, JobsStep, ResponsesStep, SequentialStep, StreamingStep, ExamplesStep, RefusalStep
     DEF HandlerInv, DomainInv

LEMMA HandlerInvariant == Spec => []HandlerInv
  BY HandlerInit, HandlerStep, PTL DEF Spec

(* The domains of the state.                                               *)
THEOREM Typing == Spec => []TypeOK
<1>1. HandlerInv => TypeOK
  BY DEF HandlerInv, DomainInv
<1> QED
  BY <1>1, HandlerInvariant, PTL

(* A request is answered once, and no job of a refused one is published.   *)
(* (corpus/handlers/conc.go:107-343, colls.go:52-190, ttypes.go:50-122,    *)
(* context.go:48-140, wforms.go:150-261)                                   *)
THEOREM Refusal == Spec => []RefusedOnce
<1>1. HandlerInv => RefusedOnce
  <2> SUFFICES ASSUME HandlerInv, Sequential, kind # "termFrequency"
               PROVE  /\ Len(responses) = (IF pc = "done" THEN 1 ELSE 0)
                      /\ Refused => jobs = <<>>
    BY DEF RefusedOnce
  <2> QED
    BY DEF HandlerInv, SequentialInv
<1> QED
  BY <1>1, HandlerInvariant, PTL

LEMMA OkIsTrueHolds == HandlerInv => OkIsTrue
<1> SUFFICES ASSUME HandlerInv, Sequential, pc = "done", responses = << 200 >>, NEW i \in DOMAIN jobs
             PROVE  /\ jobs[i].end = "value"
                    /\ \/ jobs[i].arg = {}
                       \/ "coll" \in jobs[i].arg /\ jobs[i].arg \subseteq {"coll", "offset", "rows"}
                    /\ "saved" \in request /\ kind # "syntaxConcordance" /\ ~NamesOwnPath =>
                         jobs[i].subc = "saved"
  BY DEF OkIsTrue
<1>0. Final = 200 /\ Head(responses) = 200
  BY DEF Final
<1>1. /\ jobs \in Seq(JobRecord) /\ jobs # <<>> /\ jobs[i] \in JobRecord
      /\ kind \in Kind /\ request \in Requests(kind)
  BY DEF HandlerInv, DomainInv, TypeOK, HandlerTypeOK
<1>2. jobs[i].end = "value"
  BY <1>0, <1>1 DEF HandlerInv, SequentialInv, ResponseIsRight, AllEnded
<1>3. /\ jobs[i].arg \in SUBSET Unusual /\ jobs[i].arg \subseteq PassedOn(kind)
      /\ "value" \in Ends(Handler[kind].func, jobs[i].arg)
      /\ jobs[i].subc = Subcorpus(kind)
  BY <1>1, <1>2 DEF HandlerInv, JobsInv, MadeOfRequest, JobRecord
<1>4. \/ jobs[i].arg = {}
      \/ "coll" \in jobs[i].arg /\ jobs[i].arg \subseteq {"coll", "offset", "rows"}
  BY <1>1, <1>3, ValueIsRight DEF Sequential
<1>5. ~Refused
  BY <1>0 DEF HandlerInv, RefusalInv
<1>6. ASSUME "saved" \in request, kind # "syntaxConcordance", ~NamesOwnPath
      PROVE  jobs[i].subc = "saved"
  <2>1. PassesSubcorpus(kind)
    BY <1>1, <1>6 DEF PassesSubcorpus, Requests, Sequential
  <2>2. "query" \in request => "query" \in Checked(kind)
    BY <1>1, QueryNotPassed DEF Requests
  <2>. QED
    BY <1>3, <1>5, <1>6, <2>1, <2>2 DEF Subcorpus, Refused
<1> QED
  BY <1>2, <1>4, <1>6

(* An only response of 200 rests on values, on jobs without fault and on   *)
(* the subcorpus that was named.                                           *)
(* (corpus/handlers/common.go:60-95, 159-179, wforms.go:164-199,           *)
(* worker/actions.go:67-335)                                               *)
THEOREM Success == Spec => []OkIsTrue
  BY HandlerInvariant, OkIsTrueHolds, PTL

LEMMA BlameIsRightHolds == HandlerInv => BlameIsRight
<1> SUFFICES ASSUME HandlerInv, Sequential, pc = "done", jobs # <<>>
             PROVE  /\ Final = 400 => Last.arg \cap {"syntax", "attrs", "rows", "maxItems", "attr"} # {}
                    /\ Final = 500 => \/ failed \/ FormsOfWords
                                      \/ Last.end = "error"
                                      \/ Last.end = "panic" /\ (kind = "tokenContext" \/ "offset" \in Last.arg)
  BY DEF BlameIsRight
<1>1. jobs \in Seq(JobRecord) /\ kind \in Kind
  BY DEF HandlerInv, DomainInv, TypeOK, HandlerTypeOK
<1>2. Len(jobs) \in DOMAIN jobs
  BY <1>1
<1>3. /\ Last.func = Handler[kind].func
      /\ Last.end # "pending" => Last.end \in Ends(Last.func, Last.arg) \cup {"error"}
  BY <1>2 DEF Last, HandlerInv, JobsInv, MadeOfRequest
<1>4. /\ Final = 400 => Last.end = "userError"
      /\ Final = 500 => failed \/ FormsOfWords \/ Last.end \in {"error", "panic"}
  BY DEF HandlerInv, SequentialInv, ResponseIsRight
<1>5. Last.func \in Functions /\ (Last.func = "tokenContext" => kind = "tokenContext")
  BY <1>1, <1>3, FunctionsCalled
<1>6. CASE Final = 400
  <2>1. "userError" \in Ends(Last.func, Last.arg)
    BY <1>3, <1>4, <1>6
  <2> QED
    BY <1>5, <1>6, <2>1, UserErrors
<1>7. CASE Final = 500
  <2>1. Last.end = "panic" => "panic" \in Ends(Last.func, Last.arg)
    BY <1>3
  <2> QED
    BY <1>4, <1>5, <1>7, <2>1, Panics
<1> QED
  BY <1>6, <1>7

(* Whoever is at fault is blamed.                                          *)
(* (corpus/handlers/common.go:159-179, rdb/general.go:60-66,               *)
(* worker/actions.go:67-109, 161-206)                                      *)
THEOREM Blame == Spec => []BlameIsRight
  BY HandlerInvariant, BlameIsRightHolds, PTL

(* A handler that ends well leaves no job behind.                          *)
(* (rdb/client.go:268-349, corpus/handlers/collswithex.go:195-284)         *)
THEOREM Completion == Spec => []NobodyLeftWaiting
<1>1. HandlerInv => NobodyLeftWaiting
  <2>1. HandlerInv /\ Streaming => NobodyLeftWaiting
    BY DEF HandlerInv, StreamingInv
  <2>2. HandlerInv /\ ~Streaming => NobodyLeftWaiting
    BY DEF HandlerInv, SequentialInv, ResponseIsRight, NobodyLeftWaiting, Streaming, Sequential
  <2> QED
    BY <2>1, <2>2
<1> QED
  BY <1>1, HandlerInvariant, PTL

LEMMA AccountsHold == HandlerInv => EveryCollocateAccounted
<1> SUFFICES ASSUME HandlerInv PROVE EveryCollocateAccounted
  OBVIOUS
<1>1. ASSUME pc = "done", events > 0, errors = 0
      PROVE  /\ event = {c \in colls : item[c] # "none"}
             /\ Cardinality(event) + intruders = Cardinality(colls)
             /\ events = 1 + Cardinality(event)
  <2>1. /\ event = Shown /\ events = 1 + Cardinality(event) /\ intruders = Cardinality(Complained)
        /\ \A c \in colls : gor[c] = "done"
    BY <1>1 DEF HandlerInv, ExamplesInv
  <2>2. colls \subseteq Collocate
    BY DEF HandlerInv, DomainInv, TypeOK
  <2>3. Shown \cup Complained = colls /\ Shown \cap Complained = {}
    BY <2>1 DEF Shown, Complained
  <2>4. IsFiniteSet(Shown) /\ IsFiniteSet(Complained)
    BY <2>2, <2>3, Counting
  <2>5. Cardinality(colls) = Cardinality(Shown) + Cardinality(Complained) - Cardinality({})
    BY <2>3, <2>4, FS_Union
  <2> QED
    BY <2>1, <2>4, <2>5, FS_EmptySet, FS_CardinalityType DEF Shown
<1>2. garbled => intruders > 0 /\ Cardinality(colls) > 1
  BY DEF HandlerInv, ExamplesInv
<1> QED
  BY <1>1, <1>2 DEF EveryCollocateAccounted

(* Each collocate is accounted for once at the end of a stream.            *)
(* (corpus/handlers/collswithex.go:311-400)                                *)
THEOREM Accounts == Spec => []EveryCollocateAccounted
  BY HandlerInvariant, AccountsHold, PTL

(* What has been shown stays shown, and the end is the end.                *)
LEMMA Growth ==
  HandlerInv /\ [Next]_vars =>
    [event \subseteq event' /\ events <= events' /\ (pc = "done" => UNCHANGED vars)]_vars
<1> SUFFICES ASSUME HandlerInv, Next
             PROVE  event \subseteq event' /\ events <= events' /\ pc # "done"
  OBVIOUS
<1>1. events \in Nat
  BY MaxCollsAssumption DEF HandlerInv, DomainInv, TypeOK
<1>2. CASE HandlerNext /\ UNCHANGED streamVars
  BY <1>1, <1>2 DEF HandlerNext, Refuse, Admit, Publish, PublishFails, ReceiveError, ReceiveValue,
     ReceiveLemmas, ReceiveForms, Answer, streamVars
<1>3. CASE PublishColls \/ PublishCollsFails \/ CollsError \/ BadExamples \/ Launch \/ Close
  BY <1>1, <1>3 DEF PublishColls, PublishCollsFails, CollsError, BadExamples, Launch, Close,
     streamVars
<1>4. CASE FirstValue \/ SecondValue
  <2>1. event = {} /\ events = 0 /\ pc # "done"
    BY <1>4 DEF FirstValue, SecondValue, HandlerInv, ExamplesInv
  <2> QED
    BY <1>4, <2>1 DEF FirstValue, SecondValue, FirstEvent
<1>5. CASE WriteEvent
  <2>1. PICK c \in Shown : event = Shown \ {c}
    BY <1>5 DEF WriteEvent, HandlerInv, ExamplesInv
  <2> QED
    BY <1>1, <1>5, <2>1 DEF WriteEvent, Shown
<1>6. ASSUME NEW c \in Collocate, Goroutine(c) \/ Take(c)
      PROVE  event \subseteq event' /\ events <= events' /\ pc # "done"
  <2>1. gor[c] \notin {"none", "done"}
    BY <1>6 DEF Goroutine, PublishExamples, PublishExamplesFails, ExamplesValue, ExamplesError,
       Complain, Goes, Take
  <2>2. pc # "done"
    BY <2>1 DEF HandlerInv, ExamplesInv
  <2>3. event' = event /\ events' = events
    BY <1>6 DEF Goroutine, PublishExamples, PublishExamplesFails, ExamplesValue, ExamplesError,
       Complain, Take
  <2> QED
    BY <1>1, <2>2, <2>3
<1> QED
  BY <1>2, <1>3, <1>4, <1>5, <1>6 DEF Next, Stream

(* Events only add to what has been shown, and the end is the end.         *)
(* (corpus/handlers/collswithex.go:397-400)                                *)
THEOREM Growing == Spec => StreamGrows
  BY HandlerInvariant, Growth, PTL DEF Spec, StreamGrows

===============================================================================
