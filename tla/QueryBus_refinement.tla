-------------------------- MODULE QueryBus_refinement -------------------------
(***************************************************************************)
(* Proof that QueryBus implements QueryService, for any number of calls,   *)
(* workers and failures (safety; progress is left to TLC).                 *)
(***************************************************************************)
EXTENDS QueryBus_proofs

Svc == <<callStatus, outcome, callAnswer, resent>>

(* How a step of one call shows in the mapped state.                       *)
LEMMA Mapped ==
  ASSUME TypeOK, TypeOK', NEW q \in Query, NEW c \in CallState,
         call' = [call EXCEPT ![q] = c], reply' = reply
  PROVE  /\ callStatus' = [callStatus EXCEPT ![q] = CallerView(c)]
         /\ c # "answered" /\ call[q] # "answered" => callAnswer' = callAnswer
         /\ c = "answered" => callAnswer' = [callAnswer EXCEPT ![q] = reply[q]]
  <1>1. callStatus' = [callStatus EXCEPT ![q] = CallerView(c)]
    BY DEF TypeOK, callStatus
  <1>2. ASSUME c # "answered", call[q] # "answered" PROVE callAnswer' = callAnswer
    <2>1. \A p \in Query : (call'[p] = "answered") <=> (call[p] = "answered")
      BY <1>2 DEF TypeOK
    <2>. QED
      BY <2>1 DEF callAnswer
  <1>3. ASSUME c = "answered" PROVE callAnswer' = [callAnswer EXCEPT ![q] = reply[q]]
    <2>1. \A p \in Query : (call'[p] = "answered") <=> (p = q \/ call[p] = "answered")
      BY <1>3 DEF TypeOK
    <2>. QED
      BY <2>1 DEF callAnswer
  <1>. QED
    BY <1>1, <1>2, <1>3

(* Steps that change no call and no outcome are invisible to the callers.  *)
LEMMA Invisible ==
  ASSUME TypeOK, TypeOK', call' = call, outcome' = outcome, resent' = resent,
         \A q \in Query : reply'[q] = reply[q] \/ call[q] # "answered"
  PROVE  UNCHANGED Svc
  BY DEF TypeOK, Svc, callStatus, callAnswer

LEMMA ServiceInit == Init => Service!SvcInit
  BY DEF Init, Service!SvcInit, callStatus, callAnswer, CallerView

LEMMA ServiceStep ==
  TypeOK /\ TypeOK' /\ PlaceInv /\ AnswerInv /\ [Next]_vars => [Service!SvcNext]_Svc
  <1> SUFFICES ASSUME TypeOK, TypeOK', PlaceInv, AnswerInv, [Next]_vars
               PROVE  Service!SvcNext \/ UNCHANGED Svc
    OBVIOUS
  <1> USE DEF serverVars, workerVars, historyVars
  <1>1. ASSUME NEW q \in Query, Subscribe(q) PROVE Service!SvcNext \/ UNCHANGED Svc
    <2>1. call' = [call EXCEPT ![q] = "push"] /\ reply' = reply /\ outcome' = outcome /\ resent' = resent
      BY <1>1 DEF Subscribe
    <2>2. call[q] \in {"idle", "push", "notify"} /\ "push" \in CallState
      BY <1>1 DEF Subscribe, CallState
    <2>3. callStatus' = [callStatus EXCEPT ![q] = CallerView("push")] /\ callAnswer' = callAnswer
      BY <2>1, <2>2, Mapped
    <2>4. Service!Request(q)
      BY <1>1, <2>1, <2>3 DEF Subscribe, Service!Request, callStatus, CallerView
    <2>. QED
      BY <2>4 DEF Service!SvcNext
  <1>2. ASSUME NEW q \in Query, EncodeFails(q) PROVE Service!SvcNext \/ UNCHANGED Svc
    <2>1. call' = [call EXCEPT ![q] = "failed"] /\ reply' = reply /\ outcome' = outcome /\ resent' = resent
      BY <1>2 DEF EncodeFails
    <2>2. call[q] \in {"idle", "push", "notify"} /\ "failed" \in CallState
      BY <1>2 DEF EncodeFails, CallState
    <2>3. callStatus' = [callStatus EXCEPT ![q] = CallerView("failed")] /\ callAnswer' = callAnswer
      BY <2>1, <2>2, Mapped
    <2>4. Service!Refuse(q)
      BY <1>2, <2>1, <2>3 DEF EncodeFails, Service!Refuse, callStatus, CallerView
    <2>. QED
      BY <2>4 DEF Service!SvcNext
  <1>3. ASSUME NEW q \in Query, PushFails(q) PROVE Service!SvcNext \/ UNCHANGED Svc
    <2>1. call' = [call EXCEPT ![q] = "failed"] /\ reply' = reply /\ outcome' = outcome /\ resent' = resent
      BY <1>3 DEF PushFails
    <2>2. call[q] \in {"idle", "push", "notify"} /\ "failed" \in CallState
      BY <1>3 DEF PushFails, CallState
    <2>3. callStatus' = [callStatus EXCEPT ![q] = CallerView("failed")] /\ callAnswer' = callAnswer
      BY <2>1, <2>2, Mapped
    <2>4. Service!Refuse(q)
      BY <1>3, <2>1, <2>3 DEF PushFails, Service!Refuse, callStatus, CallerView
    <2>. QED
      BY <2>4 DEF Service!SvcNext
  <1>4. ASSUME NEW q \in Query, NotifyFails(q) PROVE Service!SvcNext \/ UNCHANGED Svc
    <2>1. call' = [call EXCEPT ![q] = "failed"] /\ reply' = reply /\ outcome' = outcome /\ resent' = resent
      BY <1>4 DEF NotifyFails
    <2>2. call[q] \in {"idle", "push", "notify"} /\ "failed" \in CallState
      BY <1>4 DEF NotifyFails, CallState
    <2>3. callStatus' = [callStatus EXCEPT ![q] = CallerView("failed")] /\ callAnswer' = callAnswer
      BY <2>1, <2>2, Mapped
    <2>4. Service!Refuse(q)
      BY <1>4, <2>1, <2>3 DEF NotifyFails, Service!Refuse, callStatus, CallerView
    <2>. QED
      BY <2>4 DEF Service!SvcNext
  <1>5. ASSUME NEW q \in Query, Push(q) PROVE Service!SvcNext \/ UNCHANGED Svc
    <2>1. call' = [call EXCEPT ![q] = "notify"] /\ reply' = reply /\ outcome' = outcome /\ resent' = resent
      BY <1>5 DEF Push
    <2>2. call[q] \in {"idle", "push", "notify"} /\ "notify" \in CallState
      BY <1>5 DEF Push, CallState
    <2>3. callStatus' = [callStatus EXCEPT ![q] = CallerView("notify")] /\ callAnswer' = callAnswer
      BY <2>1, <2>2, Mapped
    <2>4. callStatus' = callStatus
      BY <1>5, <2>3 DEF Push, callStatus, CallerView
    <2>. QED
      BY <2>1, <2>3, <2>4 DEF Svc
  <1>6. ASSUME NEW q \in Query, Notify(q) PROVE Service!SvcNext \/ UNCHANGED Svc
    <2>1. call' = [call EXCEPT ![q] = "wait"] /\ reply' = reply /\ outcome' = outcome /\ resent' = resent
      BY <1>6 DEF Notify
    <2>2. call[q] \in {"idle", "push", "notify"} /\ "wait" \in CallState
      BY <1>6 DEF Notify, CallState
    <2>3. callStatus' = [callStatus EXCEPT ![q] = CallerView("wait")] /\ callAnswer' = callAnswer
      BY <2>1, <2>2, Mapped
    <2>4. callStatus' = callStatus
      BY <1>6, <2>3 DEF Notify, callStatus, CallerView
    <2>. QED
      BY <2>1, <2>3, <2>4 DEF Svc
  <1>7. ASSUME NEW q \in Query, Abandon(q) PROVE Service!SvcNext \/ UNCHANGED Svc
    <2>1. call' = [call EXCEPT ![q] = "gone"] /\ reply' = reply /\ outcome' = outcome /\ resent' = resent
      BY <1>7 DEF Abandon
    <2>2. call[q] = "wait" /\ "gone" \in CallState
      BY <1>7 DEF Abandon, CallState
    <2>3. callStatus' = [callStatus EXCEPT ![q] = "left"] /\ callAnswer' = callAnswer
      BY <2>1, <2>2, Mapped DEF CallerView
    <2>4. callStatus' = [p \in Query |-> IF p \in {q} THEN "left" ELSE callStatus[p]]
      BY <2>3 DEF callStatus
    <2>5. \A p \in {q} : callStatus[p] = "open"
      BY <2>2 DEF callStatus, CallerView
    <2>6. Service!Leave({q})
      BY <2>1, <2>3, <2>4, <2>5 DEF Service!Leave
    <2>. QED
      BY <2>6 DEF Service!SvcNext
  <1>8. ASSUME NEW q \in Query, Deliver(q) PROVE Service!SvcNext \/ UNCHANGED Svc
    <2>1. call' = [call EXCEPT ![q] = "answered"] /\ reply' = reply /\ outcome' = outcome /\ resent' = resent
      BY <1>8 DEF Deliver
    <2>2. call[q] = "wait" /\ "answered" \in CallState
      BY <1>8 DEF Deliver, CallState
    <2>3. /\ callStatus' = [callStatus EXCEPT ![q] = "answered"]
          /\ callAnswer' = [callAnswer EXCEPT ![q] = reply[q]]
      BY <2>1, <2>2, Mapped DEF CallerView
    <2>4. callStatus[q] = "open"
      BY <2>2 DEF callStatus, CallerView
    <2>5. reply[q] \in Service!PossibleAnswers(q)
      <3>1. reply[q] \in Reply
        BY <1>8 DEF Deliver, AnswerInv, OfferInv, TypeOK
      <3>. QED
        BY <3>1 DEF AnswerInv, HonestAnswer, Reply, Result, Service!PossibleAnswers
    <2>6. Service!Answer(q)
      BY <2>1, <2>3, <2>4, <2>5 DEF Service!Answer
    <2>. QED
      BY <2>6 DEF Service!SvcNext
  <1>9. ASSUME NEW q \in Query, Receive(q) PROVE Service!SvcNext \/ UNCHANGED Svc
    BY <1>9, Invisible DEF Receive, AnswerInv, OfferInv, TypeOK
  <1>10. ASSUME NEW q \in Query, Timeout(q) PROVE Service!SvcNext \/ UNCHANGED Svc
    BY <1>10, Invisible DEF Timeout, AnswerInv, OfferInv, TypeOK
  <1>11. ASSUME NEW q \in Query, Get(q) PROVE Service!SvcNext \/ UNCHANGED Svc
    BY <1>11, Invisible DEF Get, AnswerInv, OfferInv, TypeOK
  <1>12. ASSUME NEW q \in Query, GetFails(q) PROVE Service!SvcNext \/ UNCHANGED Svc
    BY <1>12, Invisible DEF GetFails, AnswerInv, OfferInv, TypeOK
  <1>13. ASSUME NEW q \in Query, Close(q) PROVE Service!SvcNext \/ UNCHANGED Svc
    BY <1>13, Invisible DEF Close, AnswerInv, OfferInv, TypeOK
  <1>14. ASSUME NEW q \in Query, SubscriptionActive(q) PROVE Service!SvcNext \/ UNCHANGED Svc
    BY <1>14, Invisible DEF SubscriptionActive, AnswerInv, OfferInv, TypeOK
  <1>15. ASSUME NEW q \in Query, SubscriptionLost(q) PROVE Service!SvcNext \/ UNCHANGED Svc
    BY <1>15, Invisible DEF SubscriptionLost, AnswerInv, OfferInv, TypeOK
  <1>16. ASSUME NEW w \in Worker, Tick(w) PROVE Service!SvcNext \/ UNCHANGED Svc
    BY <1>16, Invisible DEF Tick
  <1>17. ASSUME NEW w \in Worker, OnNewQuery(w) PROVE Service!SvcNext \/ UNCHANGED Svc
    BY <1>17, Invisible DEF OnNewQuery
  <1>18. ASSUME NEW w \in Worker, DequeueEmpty(w) PROVE Service!SvcNext \/ UNCHANGED Svc
    BY <1>18, Invisible DEF DequeueEmpty
  <1>19. ASSUME NEW w \in Worker, Dequeue(w) PROVE Service!SvcNext \/ UNCHANGED Svc
    BY <1>19, Invisible DEF Dequeue
  <1>20. ASSUME NEW w \in Worker, DequeueFails(w) PROVE Service!SvcNext \/ UNCHANGED Svc
    BY <1>20, Invisible DEF DequeueFails
  <1>21. ASSUME NEW w \in Worker, CheckActive(w) PROVE Service!SvcNext \/ UNCHANGED Svc
    BY <1>21, Invisible DEF CheckActive
  <1>22. ASSUME NEW w \in Worker, CheckInactive(w) PROVE Service!SvcNext \/ UNCHANGED Svc
    BY <1>22, Invisible DEF CheckInactive, Finish
  <1>23. ASSUME NEW w \in Worker, CheckFails(w) PROVE Service!SvcNext \/ UNCHANGED Svc
    BY <1>23, Invisible DEF CheckFails, Finish
  <1>24. ASSUME NEW w \in Worker, Run(w) PROVE Service!SvcNext \/ UNCHANGED Svc
    <2>1. /\ job[w] \in Query /\ call[job[w]] # "idle"
          /\ outcome[job[w]] = {} \/ job[w] \in resent
      BY <1>24, HasJob DEF Run, PlaceInv, Untouched
    <2>2. callStatus' = callStatus /\ callAnswer' = callAnswer
      BY <1>24 DEF Run, callStatus, callAnswer
    <2>3. callStatus[job[w]] # "new"
      BY <2>1 DEF callStatus, CallerView, TypeOK, CallState
    <2>4. Service!Execute(job[w])
      BY <1>24, <2>1, <2>2, <2>3 DEF Run, Result, Service!Execute, Service!Outcome
    <2>. QED
      BY <2>1, <2>4 DEF Service!SvcNext
  <1>25. ASSUME NEW w \in Worker, Panic(w) PROVE Service!SvcNext \/ UNCHANGED Svc
    <2>1. /\ job[w] \in Query /\ call[job[w]] # "idle"
          /\ outcome[job[w]] = {} \/ job[w] \in resent
      BY <1>25, HasJob DEF Panic, PlaceInv, Untouched
    <2>2. callStatus' = callStatus /\ callAnswer' = callAnswer
      BY <1>25 DEF Panic, callStatus, callAnswer
    <2>3. callStatus[job[w]] # "new"
      BY <2>1 DEF callStatus, CallerView, TypeOK, CallState
    <2>4. Service!Execute(job[w])
      BY <1>25, <2>1, <2>2, <2>3 DEF Panic, Result, Service!Execute, Service!Outcome
    <2>. QED
      BY <2>1, <2>4 DEF Service!SvcNext
  <1>26. ASSUME NEW w \in Worker, Store(w) PROVE Service!SvcNext \/ UNCHANGED Svc
    BY <1>26, Invisible DEF Store
  <1>27. ASSUME NEW w \in Worker, Announce(w) PROVE Service!SvcNext \/ UNCHANGED Svc
    BY <1>27, Invisible DEF Announce, Finish
  <1>28. ASSUME NEW w \in Worker, PublishFails(w) PROVE Service!SvcNext \/ UNCHANGED Svc
    BY <1>28, Invisible DEF PublishFails
  <1>29. ASSUME NEW w \in Worker, PublishErrorFails(w) PROVE Service!SvcNext \/ UNCHANGED Svc
    BY <1>29, Invisible DEF PublishErrorFails, Finish
  <1>30. ASSUME NEW w \in Worker, Restart(w) PROVE Service!SvcNext \/ UNCHANGED Svc
    BY <1>30, Invisible DEF Restart
  <1>31. ASSUME NEW w \in Worker, Crash(w) PROVE Service!SvcNext \/ UNCHANGED Svc
    BY <1>31, Invisible DEF Crash
  <1>32. CASE ServerStops
    <2> DEFINE S == {q \in Query : call[q] \in {"push", "notify", "wait"}}
    <2>1. \A q \in S : callStatus[q] = "open"
      BY DEF callStatus, CallerView
    <2>2. callStatus' = [q \in Query |-> IF q \in S THEN "left" ELSE callStatus[q]]
      <3>1. ASSUME NEW q \in Query
            PROVE  CallerView(call'[q]) = IF q \in S THEN "left" ELSE CallerView(call[q])
        <4>1. CASE q \in S
          <5>1. call'[q] = "gone"
            BY <1>32, <4>1 DEF ServerStops
          <5>. QED
            BY <4>1, <5>1 DEF CallerView
        <4>2. CASE q \notin S
          <5>1. call'[q] = call[q]
            BY <1>32, <4>2 DEF ServerStops
          <5>. QED
            BY <4>2, <5>1
        <4>. QED
          BY <4>1, <4>2
      <3>. QED
        BY <3>1 DEF callStatus
    <2>3. callAnswer' = callAnswer /\ outcome' = outcome /\ resent' = resent
      BY <1>32 DEF ServerStops, callAnswer
    <2>4. CASE S = {}
      <3>1. callStatus' = callStatus
        BY <2>2, <2>4 DEF callStatus
      <3>. QED
        BY <2>3, <3>1 DEF Svc
    <2>5. CASE S # {}
      <3>1. Service!Leave(S)
        BY <2>1, <2>2, <2>3, <2>5 DEF Service!Leave
      <3>. QED
        BY <3>1 DEF Service!SvcNext
    <2>. QED
      BY <2>4, <2>5
  <1>33. CASE ServerStarts
    BY <1>33, Invisible DEF ServerStarts
  <1>34. CASE UNCHANGED vars
    BY <1>34, Invisible DEF vars
  <1>35. ASSUME NEW q \in Query, PushAgain(q) PROVE Service!SvcNext \/ UNCHANGED Svc
    <2>1. callStatus' = callStatus /\ callAnswer' = callAnswer
      BY <1>35 DEF PushAgain, callStatus, callAnswer
    <2>2. callStatus[q] = "open"
      BY <1>35 DEF PushAgain, callStatus, CallerView
    <2>3. Service!Repeat(q)
      BY <1>35, <2>1, <2>2 DEF PushAgain, Service!Repeat
    <2>. QED
      BY <2>3 DEF Service!SvcNext
  <1>36. ASSUME NEW q \in Query, NotifyAgain(q) PROVE Service!SvcNext \/ UNCHANGED Svc
    BY <1>36, Invisible DEF NotifyAgain
  <1>37. ASSUME NEW w \in Worker, DequeueAgain(w) PROVE Service!SvcNext \/ UNCHANGED Svc
    BY <1>37, Invisible DEF DequeueAgain
  <1>38. ASSUME NEW w \in Worker, PublishAgain(w) PROVE Service!SvcNext \/ UNCHANGED Svc
    BY <1>38, Invisible DEF PublishAgain
  <1>39. ASSUME NEW q \in Query, Log(q) PROVE Service!SvcNext \/ UNCHANGED Svc
    BY <1>39, Invisible DEF Log, AnswerInv, OfferInv, TypeOK
  <1>. QED
    BY <1>1, <1>2, <1>3, <1>4, <1>5, <1>6, <1>7, <1>8, <1>9, <1>10, <1>11, <1>12, <1>13,
       <1>14, <1>15, <1>16, <1>17, <1>18, <1>19, <1>20, <1>21, <1>22, <1>23, <1>24, <1>25,
       <1>26, <1>27, <1>28, <1>29, <1>30, <1>31, <1>32, <1>33, <1>34, <1>35, <1>36, <1>37,
       <1>38, <1>39
    DEF Next, Handler, Goroutine, Working, Subscription, WorkerStep

(* The job queue implements what it promises to the callers of             *)
(* PublishQuery: a call is refused, answered once or left, its query is    *)
(* executed at most once unless the client library has repeated it, and an *)
(* answer comes from an execution.                                         *)
THEOREM Implementation == Spec => ImplementsService
  <1>. QED
    BY ServiceInit, ServiceStep, AnswerInit, AnswerStep, PlaceInit, PlaceStep, Typing, PTL
    DEF Spec, ImplementsService, Service!SvcSpec, Service!svcVars, Svc
===============================================================================
