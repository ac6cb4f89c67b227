----------------------------- MODULE FanOut_proofs -----------------------------
(***************************************************************************)
(* FanOut answers correctly for any number of jobs.  The argument: the     *)
(* WaitGroup counts the unfinished jobs (WaitInv), so the response is made *)
(* when all are finished; a finished job has added its data under the lock *)
(* (MergeInv), and its complaint has left a trace in the length of the     *)
(* slice of errors, which never falls back to zero (ErrsInv).              *)
(***************************************************************************)
EXTENDS FanOutInv, FiniteSetTheorems, TLAPS

(* Sets of jobs are finite and no larger than the set of all jobs.         *)
LEMMA Count ==
  ASSUME NEW S \in SUBSET Job
  PROVE  /\ IsFiniteSet(S) /\ Cardinality(S) \in 0..Jobs
         /\ Cardinality(S) = 0 <=> S = {}
         /\ Cardinality(Job) = Jobs
<1>1. IsFiniteSet(Job) /\ Cardinality(Job) = Jobs
  BY FS_Interval, JobsAssumption DEF Job
<1>2. IsFiniteSet(S) /\ Cardinality(S) <= Cardinality(Job)
  BY <1>1, FS_Subset
<1>3. Cardinality(S) \in Nat /\ (Cardinality(S) = 0 <=> S = {})
  BY <1>2, FS_CardinalityType, FS_EmptySet
<1> QED
  BY <1>1, <1>2, <1>3, JobsAssumption

(* One job less is one less to wait for.                                   *)
LEMMA CountDown ==
  ASSUME NEW S \in SUBSET Job, NEW j \in S
  PROVE  Cardinality(S \ {j}) = Cardinality(S) - 1
  BY Count, FS_RemoveElement

-------------------------------------------------------------------------------
LEMMA InitInv == Init => TypeOK /\ FanInv
<1> SUFFICES ASSUME Init PROVE TypeOK /\ FanInv
  OBVIOUS
<1> USE JobsAssumption DEF Init
<1>1. TypeOK
  <2>1. /\ next \in 1..(Jobs + 1) /\ wg \in 0..Jobs
        /\ kind \in Kind /\ pc = "start" /\ errs \in Nat /\ response = "none"
    OBVIOUS
  <2>2. /\ gor = [j \in Job |-> "none"] /\ answer = [j \in Job |-> "none"]
        /\ todo \in [Job -> 0..2] /\ seen \in [{0} \cup Job -> Nat]
        /\ userErr = FALSE /\ holder = 0 /\ copy = {} /\ merged = {} /\ size = "zero"
    OBVIOUS
  <2> QED
    BY <2>1, <2>2 DEF TypeOK
<1>2. WaitInv /\ ErrsInv /\ OverInv
  BY DEF WaitInv, Begun, ErrsInv, OverInv, Finished, Job
<1>3. LoopInv /\ MergeInv /\ FlagInv
  BY DEF LoopInv, MergeInv, FlagInv, Job, Kind
<1> QED
  BY <1>1, <1>2, <1>3 DEF FanInv

(* The domains, but for the counter, which WaitInv bounds.                 *)
LEMMA TypeStep ==
  ASSUME TypeOK, LoopInv, [Next]_vars, wg' \in 0..Jobs
  PROVE  TypeOK'
<1> USE JobsAssumption DEF TypeOK, Job, Kind
<1>1. CASE Handler
  <2>1. CASE Reject \/ Begin \/ Respond
    BY <2>1 DEF Reject, Begin, Respond, result, slice
  <2>2. CASE Publish \/ PublishFailsLogged
    <3>1. next + 1 \in 1..(Jobs + 1)
      BY <2>2 DEF Publish, PublishFailsLogged
    <3> QED
      BY <2>2, <3>1 DEF Publish, PublishFailsLogged, result, slice
  <2>3. CASE PublishFails
    BY <2>3 DEF PublishFails, result
  <2>4. CASE AppendPublishError
    <3>1. seen[0] + 1 \in Nat /\ next + 1 \in 1..(Jobs + 1)
      BY <2>4 DEF AppendPublishError
    <3> QED
      BY <2>4, <3>1 DEF AppendPublishError, result
  <2> QED
    BY <1>1, <2>1, <2>2, <2>3, <2>4 DEF Handler
<1>2. ASSUME NEW j \in Job, Receive(j) PROVE TypeOK'
  <2>1. PICK a \in Answers(kind) :
          /\ answer'  = [answer EXCEPT ![j] = a]
          /\ userErr' = (userErr \/ (kind = "overview" /\ a = "userError"))
          /\ todo'    = [todo EXCEPT ![j] = Complaints(kind, a)]
          /\ gor'     = IF todo'[j] > 0 THEN [gor EXCEPT ![j] = "errs"] ELSE AfterErrors(j, a)
    BY <1>2 DEF Receive
  <2>2. a \in Answers("ttypes") /\ Complaints(kind, a) \in 0..2
    BY <2>1 DEF Answers, Complaints
  <2> QED
    BY <1>2, <2>1, <2>2 DEF Receive, result, AfterErrors
<1>3. ASSUME NEW j \in Job, AppendBegins(j) \/ AppendEnds(j) PROVE TypeOK'
  <2>1. gor[j] = "append" => todo[j] > 0
    BY DEF LoopInv
  <2>2. CASE AppendBegins(j)
    BY <2>2 DEF AppendBegins, result
  <2>3. CASE AppendEnds(j)
    <3>1. seen[j] + 1 \in Nat /\ todo[j] - 1 \in 0..2
      BY <2>1, <2>3 DEF AppendEnds
    <3> QED
      BY <2>3, <3>1 DEF AppendEnds, result, AfterErrors
  <2> QED
    BY <1>3, <2>2, <2>3
<1>4. ASSUME NEW j \in Job, Lock(j) \/ Merge(j) \/ Done(j) PROVE TypeOK'
  BY <1>4, ZenonT(60) DEF Lock, Merge, Done, result, slice
<1>5. CASE UNCHANGED vars
  BY <1>5 DEF vars, result, slice
<1> QED
  BY <1>1, <1>2, <1>3, <1>4, <1>5 DEF Next, Goroutine

(* The loop and the phases of the goroutines.                              *)
LEMMA LoopStep ==
  ASSUME TypeOK, LoopInv, OverInv, [Next]_vars
  PROVE  LoopInv'
<1> USE JobsAssumption DEF TypeOK, LoopInv, Job
<1>1. CASE Reject \/ Begin \/ Respond \/ UNCHANGED vars
  BY <1>1 DEF Reject, Begin, Respond, vars, slice
<1>2. CASE Publish \/ PublishFailsLogged
  BY <1>2, SMTT(40) DEF Publish, PublishFailsLogged, slice
<1>3. CASE PublishFails
  BY <1>3 DEF PublishFails
<1>4. CASE AppendPublishError
  BY <1>4 DEF AppendPublishError
<1>5. ASSUME NEW j \in Job, Receive(j) PROVE LoopInv'
  <2>1. PICK a \in Answers(kind) :
          /\ answer'  = [answer EXCEPT ![j] = a]
          /\ todo'    = [todo EXCEPT ![j] = Complaints(kind, a)]
          /\ gor'     = IF todo'[j] > 0 THEN [gor EXCEPT ![j] = "errs"] ELSE AfterErrors(j, a)
    BY <1>5 DEF Receive
  <2>2. a # "none" /\ Complaints(kind, a) \in 0..2
    BY <2>1 DEF Answers, Complaints
  <2> QED
    BY <1>5, <2>1, <2>2 DEF Receive, AfterErrors
<1>6. ASSUME NEW j \in Job, AppendBegins(j) PROVE LoopInv'
  BY <1>6 DEF AppendBegins
<1>7. ASSUME NEW j \in Job, AppendEnds(j) PROVE LoopInv'
  BY <1>7 DEF AppendEnds, AfterErrors
<1>8. ASSUME NEW j \in Job, Lock(j) \/ Merge(j) \/ Done(j) PROVE LoopInv'
  <2>1. CASE Lock(j)
    BY <2>1 DEF Lock, slice
  <2>2. CASE Merge(j)
    BY <2>2 DEF Merge, slice
  <2>3. CASE Done(j)
    BY <2>3 DEF Done, slice
  <2> QED
    BY <1>8, <2>1, <2>2, <2>3
<1> QED
  BY <1>1, <1>2, <1>3, <1>4, <1>5, <1>6, <1>7, <1>8 DEF Next, Handler, Goroutine

(* The slice of errors.                                                    *)
LEMMA ErrsStep ==
  ASSUME TypeOK, LoopInv, ErrsInv, [Next]_vars
  PROVE  ErrsInv'
<1> USE JobsAssumption DEF TypeOK, ErrsInv, Finished, Job
<1>1. CASE Reject \/ Begin \/ Respond \/ UNCHANGED vars
  BY <1>1 DEF Reject, Begin, Respond, vars, slice, LoopInv
<1>2. CASE Publish \/ PublishFailsLogged \/ PublishFails
  BY <1>2 DEF Publish, PublishFailsLogged, PublishFails, slice, LoopInv
<1>3. CASE AppendPublishError
  <2>1. errs' > 0
    BY <1>3 DEF AppendPublishError
  <2> QED
    BY <2>1
<1>4. ASSUME NEW j \in Job, Receive(j) PROVE ErrsInv'
  <2>1. PICK a \in Answers(kind) :
          /\ answer'  = [answer EXCEPT ![j] = a]
          /\ todo'    = [todo EXCEPT ![j] = Complaints(kind, a)]
          /\ gor'     = IF todo'[j] > 0 THEN [gor EXCEPT ![j] = "errs"] ELSE AfterErrors(j, a)
    BY <1>4 DEF Receive
  <2> QED
    BY <1>4, <2>1 DEF Receive, AfterErrors
<1>5. ASSUME NEW j \in Job, AppendBegins(j) PROVE ErrsInv'
  BY <1>5 DEF AppendBegins
<1>6. ASSUME NEW j \in Job, AppendEnds(j) PROVE ErrsInv'
  <2>1. errs' > 0
    BY <1>6 DEF AppendEnds
  <2> QED
    BY <2>1
<1>7. ASSUME NEW j \in Job, Lock(j) \/ Merge(j) \/ Done(j) PROVE ErrsInv'
  BY <1>7 DEF Lock, Merge, Done, slice
<1> QED
  BY <1>1, <1>2, <1>3, <1>4, <1>5, <1>6, <1>7 DEF Next, Handler, Goroutine

(* The merged result and its lock.                                         *)
LEMMA MergeStep ==
  ASSUME TypeOK, LoopInv, MergeInv, [Next]_vars
  PROVE  MergeInv'
<1> USE JobsAssumption DEF TypeOK, MergeInv, Job
<1>1. CASE Handler \/ UNCHANGED vars
  BY <1>1, SMTT(40) DEF Handler, Reject, Begin, Publish, PublishFailsLogged, PublishFails,
     AppendPublishError, Respond, vars, result, LoopInv
<1>2. ASSUME NEW j \in Job, Receive(j) PROVE MergeInv'
  <2>1. PICK a \in Answers(kind) :
          /\ answer'  = [answer EXCEPT ![j] = a]
          /\ todo'    = [todo EXCEPT ![j] = Complaints(kind, a)]
          /\ gor'     = IF todo'[j] > 0 THEN [gor EXCEPT ![j] = "errs"] ELSE AfterErrors(j, a)
    BY <1>2 DEF Receive
  <2>2. Complaints(kind, a) \in 0..2
    BY DEF Complaints
  <2> QED
    BY <1>2, <2>1, <2>2 DEF Receive, AfterErrors, result
<1>3. ASSUME NEW j \in Job, AppendBegins(j) PROVE MergeInv'
  BY <1>3 DEF AppendBegins, result
<1>4. ASSUME NEW j \in Job, AppendEnds(j) PROVE MergeInv'
  BY <1>4 DEF AppendEnds, AfterErrors, result
<1>5. ASSUME NEW j \in Job, Lock(j) PROVE MergeInv'
  BY <1>5 DEF Lock
<1>6. ASSUME NEW j \in Job, Merge(j) PROVE MergeInv'
  BY <1>6 DEF Merge
<1>7. ASSUME NEW j \in Job, Done(j) PROVE MergeInv'
  BY <1>7 DEF Done, result
<1> QED
  BY <1>1, <1>2, <1>3, <1>4, <1>5, <1>6, <1>7 DEF Next, Goroutine

(* The flag of TextTypesOverview.                                          *)
LEMMA FlagStep ==
  ASSUME TypeOK, LoopInv, FlagInv, [Next]_vars
  PROVE  FlagInv'
<1> USE DEF TypeOK, FlagInv
<1>1. ASSUME NEW j \in Job, Receive(j) PROVE FlagInv'
  <2>1. PICK a \in Answers(kind) :
          /\ answer'  = [answer EXCEPT ![j] = a]
          /\ userErr' = (userErr \/ (kind = "overview" /\ a = "userError"))
    BY <1>1 DEF Receive
  <2>2. answer[j] = "none" /\ kind' = kind
    BY <1>1 DEF Receive, LoopInv
  <2>3. (\E i \in Job : answer'[i] = "userError")
          <=> a = "userError" \/ \E i \in Job : answer[i] = "userError"
    BY <2>1, <2>2
  <2> QED
    BY <2>1, <2>2, <2>3
<1>2. CASE (Handler \/ \E j \in Job : AppendBegins(j) \/ AppendEnds(j) \/ Lock(j) \/ Merge(j)
            \/ Done(j)) \/ UNCHANGED vars
  <2>1. UNCHANGED <<kind, userErr, answer>>
    BY <1>2 DEF Handler, Reject, Begin, Publish, PublishFailsLogged, PublishFails,
       AppendPublishError, Respond, AppendBegins, AppendEnds, Lock, Merge, Done, vars
  <2> QED
    BY <2>1
<1> QED
  BY <1>1, <1>2 DEF Next, Goroutine

(* The counter of the WaitGroup.                                           *)
LEMMA WaitStep ==
  ASSUME TypeOK, LoopInv, OverInv, WaitInv, [Next]_vars
  PROVE  WaitInv' /\ wg' \in 0..Jobs
<1> USE JobsAssumption DEF TypeOK, WaitInv
<1>1. Unfinished \in SUBSET Job /\ Unfinished' \in SUBSET Job
  BY DEF Unfinished, Job
<1>2. CASE UNCHANGED <<Begun, Unfinished, wg>>
  BY <1>2
<1>3. CASE Reject
  BY <1>3 DEF Reject, Begun
<1>4. CASE Begin
  <2>1. Unfinished' = Job /\ wg' = Jobs
    BY <1>4 DEF Begin, Unfinished, Finished, LoopInv, Job
  <2> QED
    BY <2>1, Count
<1>5. ASSUME NEW j \in Unfinished, Unfinished' = Unfinished \ {j}, wg' = wg - 1, Begun
      PROVE  WaitInv' /\ wg' \in 0..Jobs
  BY <1>1, <1>5, Count, CountDown
<1>6. CASE AppendPublishError
  <2>1. next \in Unfinished /\ Unfinished' = Unfinished \ {next} /\ wg' = wg - 1 /\ Begun
    BY <1>6 DEF AppendPublishError, Unfinished, Finished, LoopInv, Begun
  <2> QED
    BY <1>5, <2>1
<1>7. ASSUME NEW j \in Job, Done(j) PROVE WaitInv' /\ wg' \in 0..Jobs
  <2>1. j \in Unfinished /\ Unfinished' = Unfinished \ {j} /\ wg' = wg - 1
    BY <1>7 DEF Done, Unfinished, Finished
  <2>2. Begun
    BY <1>7 DEF Done, Begun, LoopInv, OverInv, Job
  <2> QED
    BY <1>5, <2>1, <2>2
<1>8. CASE Publish \/ PublishFailsLogged \/ PublishFails
  <2>1. UNCHANGED <<Begun, Unfinished, wg>>
    BY <1>8 DEF Publish, PublishFailsLogged, PublishFails, Begun, Unfinished, Finished,
       LoopInv, slice
  <2> QED
    BY <2>1, <1>2
<1>9. CASE Respond
  <2>1. UNCHANGED <<Begun, Unfinished, wg>>
    BY <1>9 DEF Respond, Begun, Unfinished, Finished
  <2> QED
    BY <2>1, <1>2
<1>10. ASSUME NEW j \in Job,
              Receive(j) \/ AppendBegins(j) \/ AppendEnds(j) \/ Lock(j) \/ Merge(j)
       PROVE  WaitInv' /\ wg' \in 0..Jobs
  <2>1. \A i \in Job : (gor[i] = "done" <=> gor'[i] = "done")
                       /\ (gor[i] = "failed" <=> gor'[i] = "failed")
    BY <1>10 DEF Receive, AppendBegins, AppendEnds, Lock, Merge, AfterErrors
  <2>2. UNCHANGED <<kind, pc, next, wg, response>>
    BY <1>10 DEF Receive, AppendBegins, AppendEnds, Lock, Merge
  <2>3. UNCHANGED <<Begun, Unfinished, wg>>
    BY <2>1, <2>2 DEF Begun, Unfinished, Finished
  <2> QED
    BY <2>3, <1>2
<1>11. CASE UNCHANGED vars
  BY <1>11, <1>2 DEF vars, Begun, Unfinished, Finished
<1> QED
  BY <1>3, <1>4, <1>6, <1>7, <1>8, <1>9, <1>10, <1>11 DEF Next, Handler, Goroutine

(* The response is made when all jobs are finished, and nothing happens    *)
(* afterwards.                                                             *)
LEMMA OverStep ==
  ASSUME TypeOK, LoopInv, OverInv, WaitInv, [Next]_vars
  PROVE  OverInv'
<1> USE JobsAssumption DEF TypeOK, OverInv
<1>1. CASE Respond
  <2>1. Cardinality(Unfinished) = 0
    BY <1>1 DEF Respond, WaitInv, Begun
  <2>2. Unfinished = {}
    BY <2>1, Count DEF Unfinished
  <2>3. \A j \in Job : Finished(j)'
    BY <2>2, <1>1 DEF Unfinished, Finished, Respond
  <2>4. pc' = "over" /\ next' \notin Job' /\ UNCHANGED <<kind, errs, userErr>>
    BY <1>1 DEF Respond, slice, Job
  <2>5. CASE kind = "freqs" \/ errs = 0
    <3>1. response' = "ok" /\ ~(kind = "overview" /\ errs > 0)
      BY <1>1, <2>5 DEF Respond
    <3> QED
      BY <2>3, <2>4, <2>5, <3>1
  <2>6. CASE kind # "freqs" /\ errs > 0 /\ kind = "overview" /\ userErr
    <3>1. response' = "badRequest"
      BY <1>1, <2>6 DEF Respond
    <3> QED
      BY <2>3, <2>4, <2>6, <3>1
  <2>7. CASE kind # "freqs" /\ errs > 0 /\ ~(kind = "overview" /\ userErr)
    <3>1. response' = "serverError"
      BY <1>1, <2>7 DEF Respond
    <3> QED
      BY <2>3, <2>4, <2>7, <3>1
  <2> QED
    BY <2>5, <2>6, <2>7
<1>2. CASE Reject
  BY <1>2 DEF Reject, LoopInv, Job
<1>3. CASE Begin \/ Publish \/ PublishFailsLogged \/ PublishFails \/ AppendPublishError
  BY <1>3 DEF Begin, Publish, PublishFailsLogged, PublishFails, AppendPublishError
<1>4. ASSUME NEW j \in Job, Goroutine(j) PROVE OverInv'
  <2>1. gor[j] \notin {"none", "done", "failed"} /\ UNCHANGED <<pc, response>>
    BY <1>4 DEF Goroutine, Receive, AppendBegins, AppendEnds, Lock, Merge, Done
  <2>2. response = "none"
    BY <2>1 DEF Finished
  <2> QED
    BY <2>1, <2>2
<1>5. CASE UNCHANGED vars
  BY <1>5 DEF vars, slice, Finished
<1> QED
  BY <1>1, <1>2, <1>3, <1>4, <1>5 DEF Next, Handler

-------------------------------------------------------------------------------
(* The invariant.                                                          *)
LEMMA InvStep == TypeOK /\ FanInv /\ [Next]_vars => (TypeOK /\ FanInv)'
  BY TypeStep, LoopStep, ErrsStep, MergeStep, FlagStep, WaitStep, OverStep DEF FanInv

(* The domains of the state, and the inductive invariant.                  *)
THEOREM Typing == Spec => [](TypeOK /\ FanInv)
  BY InitInv, InvStep, PTL DEF Spec

(* A 200 hides no failure and misses no data that a handler has promised   *)
(* to deliver.  (freqs.go:225-277, ttypes2.go:66-126, ttoverview.go:132-198) *)
THEOREM Complete == Spec => []OkIsComplete
<1>1. TypeOK /\ FanInv => OkIsComplete
  <2> SUFFICES ASSUME TypeOK, FanInv, response = "ok"
               PROVE  /\ merged = {j \in Job : answer[j] = "value"}
                      /\ kind # "freqs" => merged = Job
    BY DEF OkIsComplete
  <2> USE DEF TypeOK, FanInv
  <2>1. \A j \in Job : Finished(j) /\ pc = "over"
    BY DEF OverInv
  <2>2. \A j \in Job : kind # "freqs" => errs = 0 /\ gor[j] = "done"
    BY <2>1 DEF ErrsInv, OverInv, Finished
  <2>3. \A j \in Job : kind # "freqs" => answer[j] = "value"
    BY <2>2 DEF ErrsInv, LoopInv, Complaints
  <2>4. \A j \in Job : kind = "freqs" => gor[j] = "done"
    BY <2>1 DEF Finished
  <2>5. \A j \in Job : gor[j] = "done" /\ Merges(kind, answer[j])
    BY <2>2, <2>3, <2>4 DEF Merges
  <2>6. \A j \in Job : j \in merged <=> HasData(answer[j])
    BY <2>5 DEF MergeInv
  <2>7. \A j \in Job : HasData(answer[j]) <=> answer[j] = "value"
    BY <2>3 DEF HasData, LoopInv, Answers
  <2> QED
    BY <2>3, <2>6, <2>7
<1> QED
  BY <1>1, Typing, PTL

(* The user is blamed for what the user did, and for nothing else.         *)
(* (ttoverview.go:157-160,186-194)                                         *)
THEOREM Blame == Spec => []BadRequestIffUserError
<1>1. TypeOK /\ FanInv => BadRequestIffUserError
  <2> SUFFICES ASSUME TypeOK, FanInv, pc = "over", response # "rejected"
               PROVE  response = "badRequest" <=>
                        kind = "overview" /\ \E j \in Job : answer[j] = "userError"
    BY DEF BadRequestIffUserError
  <2> USE DEF TypeOK, FanInv
  <2>1. /\ response = "badRequest" <=> kind = "overview" /\ errs > 0 /\ userErr
        /\ \A j \in Job : Finished(j)
    BY DEF OverInv
  <2>2. ASSUME NEW j \in Job, kind = "overview", answer[j] = "userError"
        PROVE  errs > 0
    <3>1. gor[j] = "done" /\ Complaints(kind, answer[j]) > 0
      BY <2>1, <2>2 DEF Finished, LoopInv, Complaints
    <3> QED
      BY <3>1 DEF ErrsInv
  <2>3. userErr <=> kind = "overview" /\ \E j \in Job : answer[j] = "userError"
    BY DEF FlagInv
  <2> QED
    BY <2>1, <2>2, <2>3
<1> QED
  BY <1>1, Typing, PTL

(* When the response is sent, all goroutines are through with the result.  *)
(* (wg.Wait: freqs.go:264, ttypes2.go:107, ttoverview.go:179)              *)
THEOREM Quiet == Spec => NothingAfterResponse
<1>1. TypeOK /\ FanInv /\ [Next]_vars => [pc = "over" => UNCHANGED <<merged, size, errs, userErr>>]_vars
  <2> SUFFICES ASSUME TypeOK, FanInv, Next, pc = "over"
               PROVE  UNCHANGED <<merged, size, errs, userErr>>
    OBVIOUS
  <2>1. \A j \in Job : gor[j] \in {"none", "done", "failed"}
    BY DEF FanInv, OverInv, TypeOK, Finished
  <2>2. ~Handler
    BY DEF Handler, Reject, Begin, Publish, PublishFailsLogged, PublishFails,
       AppendPublishError, Respond
  <2>3. \A j \in Job : ~Goroutine(j)
    BY <2>1 DEF Goroutine, Receive, AppendBegins, AppendEnds, Lock, Merge, Done
  <2> QED
    BY <2>2, <2>3 DEF Next
<1> QED
  BY <1>1, Typing, PTL DEF Spec, NothingAfterResponse
===============================================================================
