----------------------------- MODULE CollExamples -----------------------------
(***************************************************************************)
(* CollocationsExtended (corpus/handlers/collswithex.go): the collocates   *)
(* of a query, streamed as an event, and once more each time examples of   *)
(* one of them have arrived.  A second corpus may be asked for comparison. *)
(*                                                                         *)
(* Each collocate has a goroutine that publishes a job, waits and offers   *)
(* an item on an unbuffered channel; the handler is the only receiver, and *)
(* the only writer of events.  But a goroutine whose job has failed writes *)
(* the error to the same response writer itself.  Writes that overlap can  *)
(* garble each other.                                                      *)
(*                                                                         *)
(* Checks, jobs and requests are those of Handlers, whose steps this       *)
(* module takes for all other handlers.  jobs[1] is asked of the corpus,   *)
(* jobs[2] of the second one, the others for examples.                     *)
(***************************************************************************)
EXTENDS Handlers

CONSTANT MaxColls   \* the most collocates found

ASSUME MaxCollsAssumption == MaxColls \in Nat

VARIABLES
  cmpCorp,   \* whether a second corpus is compared
  colls,     \* the collocates found, 1..n
  gor,       \* where the goroutine of each collocate is
  item,      \* what the result holds of each collocate
  event,     \* the collocates with an item in the last event
  events,    \* how many events have been written
  errors,    \* how many errors the handler has written to the stream
  intruders, \* how many errors the goroutines have written to it
  garbled    \* whether writes have overlapped

streamVars == <<cmpCorp, colls, gor, item, event, events, errors, intruders, garbled>>
vars == <<handlerVars, streamVars>>

-------------------------------------------------------------------------------
Collocate == 1..MaxColls

CollInit ==
  /\ Init
  /\ cmpCorp \in BOOLEAN /\ (Sequential => ~cmpCorp)
  /\ colls = {}
  /\ gor  = [c \in Collocate |-> "none"]
  /\ item = [c \in Collocate |-> "none"]
  /\ event = {} /\ events = 0 /\ errors = 0 /\ intruders = 0 /\ garbled = FALSE

Streaming == kind = "collocationsExtended"

CollJob == NewJob((request \cap PassedOn(kind)) \cap Unusual)

(* Publishing either of the two jobs fails.  The handler returns, whoever  *)
(* waits for the first one.                                                *)
PublishCollsFails ==
  /\ pc = "publish" /\ Streaming
  /\ \/ UNCHANGED jobs
     \/ jobs' = Append(jobs, CollJob)
  /\ failed' = TRUE
  /\ Respond(500)
  /\ UNCHANGED <<kind, request, todo, streamVars>>

(* The first job, and the second one if there is a second corpus.          *)
PublishColls ==
  /\ pc = "publish" /\ Streaming
  /\ jobs' = Append(jobs, CollJob)
  /\ pc' = IF cmpCorp /\ jobs = <<>> THEN "publish" ELSE "first"
  /\ UNCHANGED <<kind, request, todo, failed, responses, streamVars>>

(* Job i is answered.                                                      *)
Answered(i, end) ==
  /\ jobs[i].end = "pending"
  /\ end \in Ends(jobs[i].func, jobs[i].arg) \cup {"error"}
  /\ jobs' = [jobs EXCEPT ![i].end = end]

(* Either answer is an error: it is written to the stream, with the status *)
(* 200, and that is all.                                                   *)
CollsError ==
  /\ pc \in {"first", "second"}
  /\ \E end \in End \ {"value"} : Answered(IF pc = "first" THEN 1 ELSE 2, end)
  /\ errors' = errors + 1
  /\ pc' = "done"
  /\ UNCHANGED <<kind, request, todo, failed, responses, cmpCorp, colls, gor, item, event,
                 events, intruders, garbled>>

(* All collocates are sent without examples.                               *)
FirstEvent ==
  /\ event' = {} /\ events' = 1
  /\ pc' = "list"
  /\ UNCHANGED <<cmpCorp, gor, item, errors, intruders, garbled>>

(* Variant: the comparison is sent without waiting for it.                 *)
FirstValueAlone ==
  /\ pc = "first"
  /\ Answered(1, "value")
  /\ \E n \in 0..MaxColls : colls' = 1..n
  /\ FirstEvent
  /\ UNCHANGED <<kind, request, todo, failed, responses>>

FirstValue ==
  /\ pc = "first"
  /\ Answered(1, "value")
  /\ \E n \in 0..MaxColls : colls' = 1..n
  /\ IF cmpCorp
       THEN pc' = "second" /\ UNCHANGED <<cmpCorp, gor, item, event, events, errors, intruders, garbled>>
       ELSE FirstEvent
  /\ UNCHANGED <<kind, request, todo, failed, responses>>

SecondValue ==
  /\ pc = "second"
  /\ Answered(2, "value")
  /\ FirstEvent
  /\ UNCHANGED <<kind, request, todo, failed, responses, colls>>

(* examplesPerColl is looked at only now.                                  *)
BadExamples ==
  /\ pc = "list" /\ "examples" \in request
  /\ errors' = errors + 1
  /\ pc' = "done"
  /\ UNCHANGED <<kind, request, jobs, todo, failed, responses, cmpCorp, colls, gor, item, event,
                 events, intruders, garbled>>

Launch ==
  /\ pc = "list" /\ "examples" \notin request
  /\ gor' = [c \in Collocate |-> IF c \in colls THEN "start" ELSE "none"]
  /\ pc' = "loop"
  /\ UNCHANGED <<kind, request, jobs, todo, failed, responses, cmpCorp, colls, item, event,
                 events, errors, intruders, garbled>>

-------------------------------------------------------------------------------
(* The goroutine of a collocate.                                           *)

Goes(c, from, to) ==
  /\ gor[c] = from
  /\ gor' = [gor EXCEPT ![c] = to]

PublishExamples(c) ==
  /\ Goes(c, "start", "wait")
  /\ UNCHANGED <<handlerVars, cmpCorp, colls, item, event, events, errors, intruders, garbled>>

(* An item without examples is offered, and without an error: the error    *)
(* put into it is that of the collocations, which is nil by now.           *)
PublishExamplesFails(c) ==
  /\ Goes(c, "start", "offerBare")
  /\ failed' = TRUE
  /\ UNCHANGED <<kind, request, pc, jobs, todo, responses, cmpCorp, colls, item, event,
                 events, errors, intruders, garbled>>

ExampleArg == {"coll"}

ExamplesValue(c) ==
  /\ "value" \in Ends("concordance", ExampleArg)
  /\ Goes(c, "wait", "offer")
  /\ UNCHANGED <<handlerVars, cmpCorp, colls, item, event, events, errors, intruders, garbled>>

(* The job has failed; the goroutine writes the error.                     *)
ExamplesError(c) ==
  /\ (Ends("concordance", ExampleArg) \cup {"error"}) \ {"value"} # {}
  /\ Goes(c, "wait", "complain")
  /\ UNCHANGED <<handlerVars, cmpCorp, colls, item, event, events, errors, intruders, garbled>>

Writers == {d \in Collocate : gor[d] = "complain"} \cup IF pc = "write" THEN {0} ELSE {}

(* Variant: an item is offered after the error.                            *)
ComplainAndOffer(c) ==
  /\ Goes(c, "complain", "offer")
  /\ intruders' = intruders + 1
  /\ garbled' \in {garbled, Writers # {c}}
  /\ UNCHANGED <<handlerVars, cmpCorp, colls, item, event, events, errors>>

(* The error is written, in the middle of whatever is being written.       *)
Complain(c) ==
  /\ Goes(c, "complain", "done")
  /\ intruders' = intruders + 1
  /\ garbled' \in {garbled, garbled \/ Writers # {c}}
  /\ UNCHANGED <<handlerVars, cmpCorp, colls, item, event, events, errors>>

-------------------------------------------------------------------------------
(* The loop of the handler over the channel.                               *)

(* An item is received.                                                    *)
Take(c) ==
  /\ pc = "loop" /\ gor[c] \in {"offer", "offerBare"}
  /\ item' = [item EXCEPT ![c] = IF gor[c] = "offer" THEN "examples" ELSE "bare"]
  /\ gor'  = [gor EXCEPT ![c] = "done"]
  /\ pc' = "write"
  /\ UNCHANGED <<kind, request, jobs, todo, failed, responses, cmpCorp, colls, event, events,
                 errors, intruders, garbled>>

(* The whole result is written as an event.                                *)
WriteEvent ==
  /\ pc = "write"
  /\ event' = {c \in colls : item[c] # "none"}
  /\ events' = events + 1
  /\ pc' = "loop"
  /\ UNCHANGED <<kind, request, jobs, todo, failed, responses, cmpCorp, colls, gor, item,
                 errors, intruders, garbled>>

(* Variant: a goroutine is done only after its item.                       *)
CloseAfterItems ==
  /\ pc = "loop"
  /\ \A c \in colls : gor[c] = "done" /\ item[c] # "none"
  /\ pc' = "done"
  /\ UNCHANGED <<kind, request, jobs, todo, failed, responses, streamVars>>

(* All goroutines are done and the channel is closed.                      *)
Close ==
  /\ pc = "loop"
  /\ \A c \in colls : gor[c] = "done"
  /\ pc' = "done"
  /\ UNCHANGED <<kind, request, jobs, todo, failed, responses, streamVars>>

-------------------------------------------------------------------------------
Goroutine(c) == PublishExamples(c) \/ PublishExamplesFails(c) \/ ExamplesValue(c)
                \/ ExamplesError(c) \/ Complain(c)

Stream == PublishColls \/ PublishCollsFails \/ CollsError \/ FirstValue \/ SecondValue
          \/ BadExamples \/ Launch \/ WriteEvent \/ Close

Next ==
  \/ HandlerNext /\ UNCHANGED streamVars
  \/ Stream
  \/ \E c \in Collocate : Goroutine(c) \/ Take(c)

Spec == CollInit /\ [][Next]_vars

(* Goroutines are scheduled, publications end and jobs are answered, if by *)
(* a timeout (QueryBus).                                                   *)
FairSpec ==
  /\ Spec
  /\ WF_vars(HandlerNext /\ UNCHANGED streamVars) /\ WF_vars(Stream)
  /\ \A c \in Collocate : WF_vars(Goroutine(c)) /\ WF_vars(Take(c))

-------------------------------------------------------------------------------
(* Properties.                                                             *)

TypeOK ==
  /\ HandlerTypeOK
  /\ cmpCorp \in BOOLEAN /\ colls \subseteq Collocate
  /\ gor \in [Collocate -> {"none", "start", "wait", "offer", "offerBare", "complain", "done"}]
  /\ item \in [Collocate -> {"none", "examples", "bare"}]
  /\ event \subseteq Collocate
  /\ events \in 0..(MaxColls + 1) /\ errors \in 0..1 /\ intruders \in 0..MaxColls
  /\ garbled \in BOOLEAN

(* At the end of a stream each collocate is accounted for once: with an    *)
(* item in the last event or an error in the stream, one event for the     *)
(* list and one for each item.  Nothing is garbled unless an error of a    *)
(* goroutine met another write.                                            *)
(* (corpus/handlers/collswithex.go:311-400)                                *)
EveryCollocateAccounted ==
  /\ Streaming /\ pc = "done" /\ events > 0 /\ errors = 0 =>
       /\ event = {c \in colls : item[c] # "none"}
       /\ Cardinality(event) + intruders = Cardinality(colls)
       /\ events = 1 + Cardinality(event)
  /\ garbled => intruders > 0 /\ Cardinality(colls) > 1

(* A handler that ends well leaves nobody behind who waits to deliver an   *)
(* answer: a job is left pending only after a failed publication, or in    *)
(* the second corpus after an error in the first.                          *)
(* (rdb/client.go:268-349, corpus/handlers/collswithex.go:195-284)         *)
NobodyLeftWaiting ==
  pc = "done" => \A i \in DOMAIN jobs : jobs[i].end = "pending" =>
    failed \/ (i = 2 /\ Streaming /\ jobs[1].end # "value")

(* Each event shows all that the events before it have shown.              *)
(* (corpus/handlers/collswithex.go:397-400)                                *)
StreamGrows == [][event \subseteq event' /\ events <= events' /\ (pc = "done" => UNCHANGED vars)]_vars

(* Every request comes to its end.                                         *)
(* (corpus/handlers/collswithex.go:318-400, rdb/client.go:268-349)         *)
EveryRequestEnds == <>(pc = "done")
===============================================================================
