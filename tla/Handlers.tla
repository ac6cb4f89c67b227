------------------------------- MODULE Handlers -------------------------------
(***************************************************************************)
(* One request that the API server answers from one job, or from a chain   *)
(* of jobs one after the other: the handlers of corpus/handlers conc.go,   *)
(* colls.go, ttypes.go, ttvalues.go, ttnorms.go, freqs.go (FreqDistrib),   *)
(* context.go and wforms.go, with the helpers of common.go.                *)
(*                                                                         *)
(* All of them check the request, publish a job, receive its answer and    *)
(* turn that into a response; they differ in what they check and in what   *)
(* order, in what they pass on, and in how they answer failures.  The      *)
(* request is the set of what is unusual about it.  The job queue is taken *)
(* by its promise (QueryService).  CollExamples adds the one handler that  *)
(* goes on from here in a way of its own.                                  *)
(***************************************************************************)
EXTENDS Naturals, Sequences, FiniteSets, WorkerFunctions

CONSTANT MaxLemmas   \* the most groups of lemmas a word form belongs to

ASSUME MaxLemmasAssumption == MaxLemmas \in Nat

VARIABLES
  kind,       \* which handler serves the request
  request,    \* what is unusual about the request
  pc,         \* where the handler is
  jobs,       \* the jobs it has published
  todo,       \* how many more jobs the chain needs
  failed,     \* whether a publication has failed
  responses   \* the responses written to the client

handlerVars == <<kind, request, pc, jobs, todo, failed, responses>>

-------------------------------------------------------------------------------
(* Each handler is known by the checks it makes, in their order; by what   *)
(* the worker may find unusual about its job, passed on from the request;  *)
(* and by the function it has called.                                      *)

(* DetermineQueryProps, with a name of a subcorpus that is too short to    *)
(* be cut in two, or unknown.                                              *)
QueryProps == <<"corpus", "query", "shortName", "subcorpus">>

Concordance ==
  [checks |-> <<"argument">> \o QueryProps,
   passes |-> {"syntax", "attrs", "offset", "rows", "coll"}, func |-> "concordance"]
Sentences ==
  [checks |-> <<"argument">> \o QueryProps \o <<"structure">>,
   passes |-> {"syntax", "attrs", "offset", "rows"}, func |-> "concordance"]
SyntaxConcordance ==
  [checks |-> QueryProps \o <<"structure">>,
   passes |-> {"syntax", "attrs"}, func |-> "concordance"]
TermFrequency ==
  [checks |-> QueryProps, passes |-> {"syntax"}, func |-> "termFrequency"]
fetchCollActionArgs == QueryProps \o <<"argument">>
Collocations ==
  [checks |-> fetchCollActionArgs, passes |-> {"syntax", "measure"}, func |-> "collocations"]
CollocationsExtended ==
  [checks |-> fetchCollActionArgs,
   passes |-> {"syntax", "measure", "examples"}, func |-> "collocations"]
TextTypes ==
  [checks |-> QueryProps \o <<"property", "limit", "argument">>,
   passes |-> {"syntax", "maxItems", "attr", "subc", "noSubc"}, func |-> "textTypes"]
FreqDistrib ==
  [checks |-> QueryProps \o <<"limit", "argument">>,
   passes |-> {"syntax", "maxItems"}, func |-> "freqDistrib"]
TextTypesAvailValues ==
  [checks |-> <<"corpus">>, passes |-> {}, func |-> "textTypesAvailValues"]
TextTypesNorms ==
  [checks |-> <<>>, passes |-> {"corpus", "attr"}, func |-> "textTypeNorms"]
TokenContext ==
  [checks |-> <<"argument", "corpus", "secondArgument">>, passes |-> {}, func |-> "tokenContext"]
OtherForms ==
  [checks |-> <<"corpus">>, passes |-> {"syntax"}, func |-> "freqDistrib"]
WordForms ==
  [checks |-> <<"argument">>, passes |-> {"corpus", "syntax"}, func |-> "freqDistrib"]

Handler ==
  [concordance |-> Concordance, sentences |-> Sentences,
   syntaxConcordance |-> SyntaxConcordance, termFrequency |-> TermFrequency,
   collocations |-> Collocations, collocationsExtended |-> CollocationsExtended,
   textTypes |-> TextTypes, freqs |-> FreqDistrib, ttValues |-> TextTypesAvailValues,
   ttNorms |-> TextTypesNorms, tokenContext |-> TokenContext,
   otherForms |-> OtherForms, wordForms |-> WordForms]

Kind        == DOMAIN Handler
Checks(k)   == Handler[k].checks
PassedOn(k) == Handler[k].passes

Checked(k) == {Checks(k)[i] : i \in DOMAIN Checks(k)}

(* The handlers that look at the argument subcorpus, and those of them     *)
(* that pass a saved subcorpus on to the worker.                           *)
KnowsSubcorpora(k) == "subcorpus" \in Checked(k)
PassesSubcorpus(k) == KnowsSubcorpora(k) /\ k \notin {"syntaxConcordance", "collocationsExtended"}

(* Where a job of the handler searches.  DetermineQueryProps returns for a *)
(* missing query before it has read the name of a subcorpus, which matters *)
(* to TermFrequency only, the handler that goes on.  TextTypes takes a     *)
(* path from another argument of the client ("subc"), and prefers it, if   *)
(* it is empty ("noSubc") too.                                             *)
NamesOwnPath == request \cap {"subc", "noSubc"} # {}

Subcorpus(k) ==
  IF NamesOwnPath THEN (IF "subc" \in request THEN "path" ELSE "whole")
  ELSE IF PassesSubcorpus(k) /\ "saved" \in request /\ "query" \notin request
         THEN "saved" ELSE "whole"

Status(check) ==
  CASE check = "corpus"    -> {404}
    [] check = "shortName" -> {500}
    [] check \in {"subcorpus", "limit"} -> {422}
    [] check = "property"  -> {400, 422}
    [] check \in {"query", "argument", "secondArgument", "structure"} -> {400}

(* A request names at most one subcorpus, and at most one path.            *)
Requests(k) ==
  {r \in SUBSET (Checked(k) \cup PassedOn(k) \cup {"saved"}) :
     /\ Cardinality(r \cap {"shortName", "subcorpus", "saved"}) <= 1
     /\ ~({"subc", "noSubc"} \subseteq r)
     /\ "saved" \in r => KnowsSubcorpora(k)}

Init ==
  /\ kind \in Kind /\ request \in Requests(kind)
  /\ pc = "check" /\ jobs = <<>> /\ todo = 1 /\ failed = FALSE /\ responses = <<>>

-------------------------------------------------------------------------------
Respond(status) ==
  /\ responses' = Append(responses, status)
  /\ pc' = "done"

(* The first of the checks that the request does not pass.                 *)
FirstFault(k) ==
  LET faulty == {i \in DOMAIN Checks(k) : Checks(k)[i] \in request}
  IN  Checks(k)[CHOOSE i \in faulty : \A j \in faulty : i <= j]

Refused == Checked(kind) \cap request # {}

(* Variant: the return is missing in each handler.                         *)
RefuseAndGoOn ==
  /\ pc = "check" /\ Refused
  /\ \E s \in Status(FirstFault(kind)) : responses' = Append(responses, s)
  /\ pc' = "publish"
  /\ UNCHANGED <<kind, request, jobs, todo, failed>>

(* TermFrequency does not return after its response: it goes on with what  *)
(* there is of the query.  Without a corpus it gets no further than to a   *)
(* panic, which cannot respond once more.                                  *)
Refuse ==
  /\ pc = "check" /\ Refused
  /\ \E s \in Status(FirstFault(kind)) : responses' = Append(responses, s)
  /\ pc' = IF kind = "termFrequency" /\ FirstFault(kind) \in {"query", "subcorpus"}
              THEN "publish" ELSE "done"
  /\ UNCHANGED <<kind, request, jobs, todo, failed>>

Admit ==
  /\ pc = "check" /\ ~Refused
  /\ pc' = "publish"
  /\ UNCHANGED <<kind, request, jobs, todo, failed, responses>>

-------------------------------------------------------------------------------
(* What is unusual about the next job.  After a refusal the query is empty *)
(* and Manatee may think of it what it likes; the later queries of a chain *)
(* are made from lemmas.                                                   *)
Arguments ==
  IF jobs # <<>> THEN {{}}
  ELSE IF responses # <<>> THEN {{}, {"syntax"}}
  ELSE {(request \cap PassedOn(kind)) \cap Unusual}

NewJob(arg) == [func |-> Handler[kind].func, arg |-> arg, subc |-> Subcorpus(kind), end |-> "pending"]

Sequential == kind # "collocationsExtended"

(* PublishQuery, and then the handler waits for the answer.                *)
Publish ==
  /\ pc = "publish" /\ Sequential
  /\ \E arg \in Arguments : jobs' = Append(jobs, NewJob(arg))
  /\ pc' = "wait" /\ todo' = todo - 1
  /\ UNCHANGED <<kind, request, failed, responses>>

(* The query may have got into the list, and then somebody waits for its   *)
(* answer who cannot deliver it.                                           *)
PublishFails ==
  /\ pc = "publish" /\ Sequential
  /\ \/ UNCHANGED jobs
     \/ \E arg \in Arguments : jobs' = Append(jobs, NewJob(arg))
  /\ failed' = TRUE
  /\ Respond(500)
  /\ UNCHANGED <<kind, request, todo>>

(* The job the handler waits for is answered: what the worker function     *)
(* ended with, or a timeout or failure on the way.                         *)
Last == jobs[Len(jobs)]
Answer(end) ==
  /\ pc = "wait"
  /\ end \in Ends(Last.func, Last.arg) \cup {"error"}
  /\ jobs' = [jobs EXCEPT ![Len(jobs)].end = end]
  /\ UNCHANGED <<kind, request, failed>>

FormsOfWords == kind \in {"otherForms", "wordForms"}

(* Variant: whatever the worker complains of is the client's fault.        *)
ErrorStatusAlwaysClient(end) == IF ~FormsOfWords THEN 400 ELSE 500

(* HandleWorkerError; the handlers of word forms do without it.            *)
ErrorStatus(end) == IF end = "userError" /\ ~FormsOfWords THEN 400 ELSE 500

(* Variant: the handler only looks at errors of the user.                  *)
ReceiveErrorUnnoticed ==
  \E end \in End \ {"value"} :
    /\ Answer(end)
    /\ Respond(IF end = "userError" THEN 400 ELSE 200)
    /\ UNCHANGED todo

ReceiveError ==
  \E end \in End \ {"value"} :
    /\ Answer(end)
    /\ Respond(ErrorStatus(end))
    /\ UNCHANGED todo

(* An only job, or the last one of a chain.  WordForms takes an empty list *)
(* for an unknown lemma.                                                   *)
ReceiveValue ==
  /\ Answer("value")
  /\ todo = 0 /\ ~(kind = "otherForms" /\ Len(jobs) = 1)
  /\ \/ Respond(200)
     \/ kind = "wordForms" /\ Respond(404)
  /\ UNCHANGED todo

(* findLemmas: one more job for each group; or a lemma without a part of   *)
(* speech, which panics.                                                   *)
ReceiveLemmas ==
  /\ Answer("value")
  /\ kind = "otherForms" /\ Len(jobs) = 1
  /\ \/ \E n \in 1..MaxLemmas : todo' = n /\ pc' = "publish" /\ UNCHANGED responses
     \/ Respond(200) /\ UNCHANGED todo
     \/ Respond(500) /\ UNCHANGED todo

(* Variant: the loop over the groups is advanced twice.                    *)
ReceiveFormsTwice ==
  /\ Answer("value")
  /\ todo > 0
  /\ pc' = "publish" /\ todo' = todo - 1
  /\ UNCHANGED responses

(* The forms of one group; there are more.                                 *)
ReceiveForms ==
  /\ Answer("value")
  /\ todo > 0
  /\ pc' = "publish"
  /\ UNCHANGED <<todo, responses>>

HandlerNext ==
  Refuse \/ Admit \/ Publish \/ PublishFails
  \/ ReceiveError \/ ReceiveValue \/ ReceiveLemmas \/ ReceiveForms

-------------------------------------------------------------------------------
(* Properties.                                                             *)

HandlerTypeOK ==
  /\ kind \in Kind /\ request \in Requests(kind)
  /\ pc \in {"check", "publish", "wait", "second", "first", "list", "loop", "write", "done"}
  /\ \A i \in DOMAIN jobs :
       jobs[i] \in [func : Functions, arg : SUBSET Unusual,
                   subc : {"whole", "saved", "path"}, end : End \cup {"pending"}]
  /\ todo \in 0..MaxLemmas \cup {1} /\ failed \in BOOLEAN
  /\ \A i \in DOMAIN responses : responses[i] \in {200, 400, 404, 422, 500}

(* A request is answered once, at its end, and publishes no job once it is *)
(* refused.  (TermFrequency is excepted: it misses a return and can answer *)
(* twice.)                                                                 *)
(* (corpus/handlers/conc.go:107-343, colls.go:52-190, ttypes.go:50-122,    *)
(* context.go:48-140, wforms.go:150-261)                                   *)
RefusedOnce ==
  Sequential /\ kind # "termFrequency" =>
    /\ Len(responses) = (IF pc = "done" THEN 1 ELSE 0)
    /\ Refused => jobs = <<>>

Final == responses[Len(responses)]

(* A handler whose only response is a 200 has had a value from each job of *)
(* its chain, none of which had a faulty argument (the rows of a           *)
(* concordance with a collocate, which nobody tests, excepted), and if the *)
(* request names a saved subcorpus, its jobs have searched that one.  Not  *)
(* so SyntaxConcordance, which checks the name and searches the whole      *)
(* corpus, nor TextTypes given a path, even an empty one, in its argument  *)
(* subc.  And the 200 with which TermFrequency may follow a refusal is not *)
(* true at all: it is of an empty query in the whole corpus.               *)
(* (corpus/handlers/common.go:60-95, 159-179, wforms.go:164-199,           *)
(* worker/actions.go:67-335)                                               *)
OkIsTrue ==
  Sequential /\ pc = "done" /\ responses = <<200>> =>
    \A i \in DOMAIN jobs :
      /\ jobs[i].end = "value"
      /\ \/ jobs[i].arg = {}
         \/ "coll" \in jobs[i].arg /\ jobs[i].arg \subseteq {"coll", "offset", "rows"}
      /\ "saved" \in request /\ kind # "syntaxConcordance" /\ ~NamesOwnPath =>
           jobs[i].subc = "saved"

(* Whoever is at fault is blamed: a job makes a handler answer 400 only if *)
(* the request or the corpus lacks something, and 500 only if something    *)
(* has failed.  What is not recognised as a fault of the client: a name of *)
(* a subcorpus too short, a first row or width below zero (both panic), an *)
(* unknown measure, an unknown corpus where nobody looks it up, and all    *)
(* faults in the handlers of word forms.                                   *)
(* (corpus/handlers/common.go:159-179, rdb/general.go:60-66,               *)
(* worker/actions.go:67-109, 161-206)                                      *)
BlameIsRight ==
  Sequential /\ pc = "done" /\ jobs # <<>> =>
    /\ Final = 400 => Last.arg \cap {"syntax", "attrs", "rows", "maxItems", "attr"} # {}
    /\ Final = 500 => \/ failed \/ FormsOfWords
                      \/ Last.end = "error"
                      \/ Last.end = "panic" /\ (kind = "tokenContext" \/ "offset" \in Last.arg)
===============================================================================
