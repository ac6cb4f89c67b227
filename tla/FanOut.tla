-------------------------------- MODULE FanOut --------------------------------
(***************************************************************************)
(* A request that the API server answers from several jobs at once:        *)
(*   "freqs"     FreqDistribParallel, one job per chunk of a split corpus  *)
(*               (corpus/handlers/freqs.go);                               *)
(*   "ttypes"    TextTypesParallel, the same for text types                *)
(*               (corpus/handlers/ttypes2.go);                             *)
(*   "overview"  TextTypesOverview, one job per text property              *)
(*               (corpus/handlers/ttoverview.go).                          *)
(* The handler publishes the jobs in a loop, one goroutine waits for each  *)
(* answer, a WaitGroup joins them, and a mutex guards the merged result.   *)
(* The slice of errors has no guard: an append reads the slice header and  *)
(* writes it back later, whatever has happened to it meanwhile.            *)
(*                                                                         *)
(* Jobs are the numbers 1..Jobs, in the order of the loop; 0 stands for    *)
(* the handler itself.  The job queue is taken by its promise              *)
(* (QueryService): PublishQuery fails, or an answer arrives.  Of the data  *)
(* only its origin is kept: merged is the set of jobs whose data are in    *)
(* the result, errs the length of the slice of errors.                     *)
(***************************************************************************)
EXTENDS Naturals, FiniteSets

CONSTANT Jobs   \* how many jobs the request needs

ASSUME JobsAssumption == Jobs \in Nat

VARIABLES
  kind,      \* which handler serves the request
  pc,        \* where the handler is
  next,      \* the job the loop is at
  wg,        \* the counter of the WaitGroup
  gor,       \* where the goroutine of each job is
  answer,    \* what the job was answered with
  todo,      \* appends to the slice of errors the goroutine still has to do
  seen,      \* the length of the slice an append in progress has read
  errs,      \* the length of the slice of errors
  userErr,   \* hasUserErrors
  holder,    \* who holds mergedFreqLock, 0 for nobody
  copy,      \* the result as the holder of the lock has read it
  merged,    \* the jobs whose data are in the result
  size,      \* CorpusSize of the result
  response   \* what the client is sent

slice  == <<todo, seen, errs>>
result == <<holder, copy, merged, size>>
vars   == <<kind, pc, next, wg, gor, answer, slice, userErr, result, response>>

-------------------------------------------------------------------------------
Kind == {"freqs", "ttypes", "overview"}
Job  == 1..Jobs

(* "value": a FreqDistrib without an error.  "userError", "error": one with *)
(* an error and no data.  "normsError": the sizes of the text types could  *)
(* not be read, the error is set and the data are there.  "foreign": the   *)
(* ErrorResult of a timeout, of Redis or of a panic.                       *)
Answers(k) == {"value", "userError", "error", "foreign"}
              \cup IF k = "freqs" THEN {} ELSE {"normsError"}

HasData(a) == a \in {"value", "normsError"}

(* How many errors a goroutine appends: TextTypesParallel complains of the *)
(* error and then of the type too.                                         *)
Complaints(k, a) ==
  CASE k = "freqs" \/ a = "value"          -> 0
    [] k = "ttypes" /\ a = "foreign"       -> 2
    [] OTHER                               -> 1

(* Only TextTypesOverview leaves a failed job out of its result.           *)
Merges(k, a) == k # "overview" \/ a = "value"

Init ==
  /\ kind \in Kind
  /\ pc = "start" /\ next = 1 /\ wg = 0
  /\ gor    = [j \in Job |-> "none"]
  /\ answer = [j \in Job |-> "none"]
  /\ todo   = [j \in Job |-> 0]
  /\ seen   = [j \in {0} \cup Job |-> 0]
  /\ errs = 0 /\ userErr = FALSE
  /\ holder = 0 /\ copy = {} /\ merged = {} /\ size = "zero"
  /\ response = "none"

-------------------------------------------------------------------------------
(* The handler.                                                            *)

(* Bad arguments, an unknown corpus, or a corpus that has not been split.  *)
Reject ==
  /\ pc = "start"
  /\ pc' = "over" /\ response' = "rejected"
  /\ UNCHANGED <<kind, next, wg, gor, answer, slice, userErr, result>>

Begin ==
  /\ pc = "start"
  /\ pc' = "publish" /\ wg' = Jobs
  /\ UNCHANGED <<kind, next, gor, answer, slice, userErr, result, response>>

Publish ==
  /\ pc = "publish" /\ next \in Job
  /\ gor'  = [gor EXCEPT ![next] = "wait"]
  /\ next' = next + 1
  /\ UNCHANGED <<kind, pc, wg, answer, slice, userErr, result, response>>

(* FreqDistribParallel logs the error and goes on; nobody will call wg.Done *)
(* for this job.                                                           *)
PublishFailsLogged ==
  /\ pc = "publish" /\ next \in Job /\ kind = "freqs"
  /\ gor'  = [gor EXCEPT ![next] = "failed"]
  /\ next' = next + 1
  /\ UNCHANGED <<kind, pc, wg, answer, slice, userErr, result, response>>

(* The others append the error, and goroutines started by earlier rounds   *)
(* of the loop may be appending theirs.                                    *)
PublishFails ==
  /\ pc = "publish" /\ next \in Job /\ kind # "freqs"
  /\ pc'   = "append"
  /\ gor'  = [gor EXCEPT ![next] = "failed"]
  /\ seen' = [seen EXCEPT ![0] = errs]
  /\ UNCHANGED <<kind, next, wg, answer, todo, errs, userErr, result, response>>

(* Variant: the wg.Done of the failed job is forgotten.                    *)
AppendWithoutDone ==
  /\ pc = "append"
  /\ pc'   = "publish"
  /\ errs' = seen[0] + 1
  /\ next' = next + 1
  /\ UNCHANGED <<kind, wg, gor, answer, todo, seen, userErr, result, response>>

AppendPublishError ==
  /\ pc = "append"
  /\ pc'   = "publish"
  /\ errs' = seen[0] + 1
  /\ wg'   = wg - 1
  /\ next' = next + 1
  /\ UNCHANGED <<kind, gor, answer, todo, seen, userErr, result, response>>

(* wg.Wait, and the response.                                              *)
Respond ==
  /\ pc = "publish" /\ next \notin Job /\ wg = 0
  /\ pc' = "over"
  /\ response' = IF kind = "freqs" \/ errs = 0 THEN "ok"
                 ELSE IF kind = "overview" /\ userErr THEN "badRequest"
                 ELSE "serverError"
  /\ UNCHANGED <<kind, next, wg, gor, answer, slice, userErr, result>>

-------------------------------------------------------------------------------
(* The goroutine of a job.                                                 *)

(* Where a goroutine goes when it has no error (left) to append.           *)
AfterErrors(j, a) == [gor EXCEPT ![j] = IF Merges(kind, a) THEN "lock" ELSE "leave"]

(* Variant: the flag is set to what the last answer says.                  *)
ReceiveOverwritesFlag(j) ==
  /\ gor[j] = "wait"
  /\ \E a \in Answers(kind) :
       /\ answer'  = [answer EXCEPT ![j] = a]
       /\ userErr' = IF kind = "overview" /\ a # "value" THEN a = "userError" ELSE userErr
       /\ todo'    = [todo EXCEPT ![j] = Complaints(kind, a)]
       /\ gor'     = IF todo'[j] > 0 THEN [gor EXCEPT ![j] = "errs"] ELSE AfterErrors(j, a)
  /\ UNCHANGED <<kind, pc, next, wg, seen, errs, result, response>>

(* Variant: wg.Done comes first instead of being deferred.                 *)
ReceiveDone(j) ==
  /\ gor[j] = "wait"
  /\ \E a \in Answers(kind) :
       /\ answer'  = [answer EXCEPT ![j] = a]
       /\ userErr' = (userErr \/ (kind = "overview" /\ a = "userError"))
       /\ todo'    = [todo EXCEPT ![j] = Complaints(kind, a)]
       /\ gor'     = IF todo'[j] > 0 THEN [gor EXCEPT ![j] = "errs"] ELSE AfterErrors(j, a)
  /\ wg' = wg - 1
  /\ UNCHANGED <<kind, pc, next, seen, errs, result, response>>

(* tmp := <-wait, and the tests of its error and its type.                 *)
Receive(j) ==
  /\ gor[j] = "wait"
  /\ \E a \in Answers(kind) :
       /\ answer'  = [answer EXCEPT ![j] = a]
       /\ userErr' = (userErr \/ (kind = "overview" /\ a = "userError"))
       /\ todo'    = [todo EXCEPT ![j] = Complaints(kind, a)]
       /\ gor'     = IF todo'[j] > 0 THEN [gor EXCEPT ![j] = "errs"] ELSE AfterErrors(j, a)
  /\ UNCHANGED <<kind, pc, next, wg, seen, errs, result, response>>

AppendBegins(j) ==
  /\ gor[j] = "errs"
  /\ gor'  = [gor EXCEPT ![j] = "append"]
  /\ seen' = [seen EXCEPT ![j] = errs]
  /\ UNCHANGED <<kind, pc, next, wg, answer, todo, errs, userErr, result, response>>

(* An append that overlaps with others undoes theirs.                      *)
AppendEnds(j) ==
  /\ gor[j] = "append"
  /\ errs' = seen[j] + 1
  /\ todo' = [todo EXCEPT ![j] = @ - 1]
  /\ gor'  = IF todo'[j] > 0 THEN [gor EXCEPT ![j] = "errs"] ELSE AfterErrors(j, answer[j])
  /\ UNCHANGED <<kind, pc, next, wg, answer, seen, userErr, result, response>>

(* Variant: mergedFreqLock is not taken.                                   *)
EnterUnlocked(j) ==
  /\ gor[j] = "lock"
  /\ gor' = [gor EXCEPT ![j] = "merge"]
  /\ holder' = j /\ copy' = merged
  /\ UNCHANGED <<kind, pc, next, wg, answer, slice, userErr, merged, size, response>>

Lock(j) ==
  /\ gor[j] = "lock" /\ holder = 0
  /\ gor' = [gor EXCEPT ![j] = "merge"]
  /\ holder' = j /\ copy' = merged
  /\ UNCHANGED <<kind, pc, next, wg, answer, slice, userErr, merged, size, response>>

(* MergeWith (or set) and Unlock.  MergeWith takes over the CorpusSize of  *)
(* what it merges, the zero of a result without data included.             *)
Merge(j) ==
  /\ gor[j] = "merge"
  /\ merged' = IF HasData(answer[j]) THEN copy \cup {j} ELSE copy
  /\ size'   = IF HasData(answer[j]) THEN "whole" ELSE "zero"
  /\ holder' = 0
  /\ gor'    = [gor EXCEPT ![j] = "leave"]
  /\ UNCHANGED <<kind, pc, next, wg, answer, slice, userErr, copy, response>>

(* The deferred wg.Done.                                                   *)
Done(j) ==
  /\ gor[j] = "leave"
  /\ gor' = [gor EXCEPT ![j] = "done"]
  /\ wg'  = wg - 1
  /\ UNCHANGED <<kind, pc, next, answer, slice, userErr, result, response>>

-------------------------------------------------------------------------------
Handler == Reject \/ Begin \/ Publish \/ PublishFailsLogged \/ PublishFails
           \/ AppendPublishError \/ Respond

Goroutine(j) == Receive(j) \/ AppendBegins(j) \/ AppendEnds(j)
                \/ Lock(j) \/ Merge(j) \/ Done(j)

Next == Handler \/ \E j \in Job : Goroutine(j)

Spec == Init /\ [][Next]_vars

(* Handler and goroutines run on, and answers come (ServiceProgress of     *)
(* QueryBus).                                                              *)
Fairness == WF_vars(Handler) /\ \A j \in Job : WF_vars(Goroutine(j))

FairSpec == Spec /\ Fairness

-------------------------------------------------------------------------------
(* Properties.                                                             *)

TypeOK ==
  /\ kind \in Kind
  /\ pc \in {"start", "publish", "append", "over"}
  /\ next \in 1..(Jobs + 1) /\ (pc = "append" => next \in Job)
  /\ wg \in 0..Jobs
  /\ gor \in [Job -> {"none", "wait", "errs", "append", "lock", "merge", "leave",
                      "done", "failed"}]
  /\ answer \in [Job -> Answers("ttypes") \cup {"none"}]
  /\ todo \in [Job -> 0..2]
  /\ seen \in [{0} \cup Job -> Nat]
  /\ errs \in Nat /\ userErr \in BOOLEAN
  /\ holder \in {0} \cup Job
  /\ copy \in SUBSET Job /\ merged \in SUBSET Job /\ size \in {"zero", "whole"}
  /\ response \in {"none", "rejected", "ok", "badRequest", "serverError"}

(* A 200 of TextTypesParallel and of TextTypesOverview holds the data of   *)
(* every job and hides no error, although appends to the slice of errors   *)
(* race and may undo one another; a 200 of FreqDistribParallel holds the   *)
(* data of exactly the jobs that succeeded.  (freqs.go:225-277,            *)
(* ttypes2.go:66-126, ttoverview.go:132-198)                               *)
OkIsComplete ==
  response = "ok" =>
    /\ merged = {j \in Job : answer[j] = "value"}
    /\ kind # "freqs" => merged = Job

(* TextTypesOverview blames the user exactly if a worker did, whatever     *)
(* else has failed and in whatever order.  (ttoverview.go:157-160,186-194) *)
BadRequestIffUserError ==
  pc = "over" /\ response # "rejected" =>
    (response = "badRequest" <=> kind = "overview" /\ \E j \in Job : answer[j] = "userError")

(* Once the response is sent, no goroutine changes what it was made of.    *)
(* (wg.Wait: freqs.go:264, ttypes2.go:107, ttoverview.go:179)              *)
NothingAfterResponse == [][pc = "over" => UNCHANGED <<merged, size, errs, userErr>>]_vars

(* Every request that has begun is answered.  The exception is in the      *)
(* code: FreqDistribParallel waits for ever once a job of its has not been *)
(* published.  (freqs.go:218,240-243,264)                                  *)
EveryRequestAnswered ==
  pc = "publish" ~> pc = "over" \/ (kind = "freqs" /\ \E j \in Job : gor[j] = "failed")

(* "CorpusSize is always equal to the whole corpus size" (results.go:187): *)
(* it is in a response in which some job has told the size.                *)
CorpusSizeIsWhole == response = "ok" /\ merged # {} => size = "whole"
===============================================================================
