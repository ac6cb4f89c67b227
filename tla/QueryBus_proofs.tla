---------------------------- MODULE QueryBus_proofs ---------------------------
(***************************************************************************)
(* Proofs of the safety properties of QueryBus, for any number of calls,   *)
(* workers and failures.                                                   *)
(***************************************************************************)
EXTENDS QueryBusInv, TLAPS

(* The type invariant is inductive on its own: at every step of the server, *)
(* of Redis and of the workers the state has its type, and a worker holds  *)
(* a job exactly in the phases in which tryNextQuery has one.              *)
LEMMA TypeInit == Init => TypeOK
  BY QueryAssumption, FaultsAssumption, ChannelAssumption
  DEF Init, TypeOK, CallState, GorState, SubState, Phase, Fate, Result, Reply

(* A worker outside of idle, dequeue and down has a job.                   *)
LEMMA HasJob ==
  ASSUME TypeOK, NEW w \in Worker, phase[w] \notin {"idle", "dequeue", "down"}
  PROVE  job[w] \in Query
  BY DEF TypeOK

(* A write that may or may not have been applied leaves well-typed data.   *)
LEMMA MaybeTyped ==
  ASSUME TypeOK, NEW w \in Worker, job[w] \in Query
  PROVE  /\ SetMaybe(w) => store' \in [Query -> Result \cup {"none"}]
         /\ UNCHANGED store => store' \in [Query -> Result \cup {"none"}]
         /\ AnnounceMaybe(w) => inbox' \in [Query -> BOOLEAN]
         /\ UNCHANGED inbox => inbox' \in [Query -> BOOLEAN]
  <1>1. SetMaybe(w) => store' \in [Query -> Result \cup {"none"}]
    BY DEF TypeOK, SetMaybe
  <1>2. AnnounceMaybe(w) => inbox' \in [Query -> BOOLEAN]
    BY ZenonT(60) DEF TypeOK, AnnounceMaybe, Announcement
  <1>. QED
    BY <1>1, <1>2 DEF TypeOK

(* The unread messages of a worker are counted up to the channel's size.   *)
LEMMA WakeTyped ==
  ASSUME TypeOK, WakeWorkers
  PROVE  wakeups' \in [Worker -> 0..ChannelSize]
  BY ChannelAssumption DEF TypeOK, WakeWorkers

LEMMA TypeStep == TypeOK /\ [Next]_vars => TypeOK'
  <1> SUFFICES ASSUME TypeOK, [Next]_vars PROVE TypeOK'
    OBVIOUS
  <1> USE QueryAssumption, FaultsAssumption, ChannelAssumption
      DEF TypeOK, CallState, GorState, SubState, Phase, Fate, Result, Reply,
          Fault, NoFault, serverVars, workerVars, historyVars
  <1>1. ASSUME NEW q \in Query, Subscribe(q) PROVE TypeOK'
    BY <1>1 DEF Subscribe
  <1>2. ASSUME NEW q \in Query, EncodeFails(q) PROVE TypeOK'
    BY <1>2 DEF EncodeFails
  <1>3. ASSUME NEW q \in Query, Push(q) PROVE TypeOK'
    BY <1>3 DEF Push
  <1>4. ASSUME NEW q \in Query, PushFails(q) PROVE TypeOK'
    <2>1. queue' \in Seq(Query)
      <3>1. CASE queue' = queue
        BY <3>1
      <3>2. CASE queue' = Append(queue, q)
        BY <3>2
      <3>. QED
        BY <1>4, <3>1, <3>2 DEF PushFails
    <2>. QED
      BY <1>4, <2>1 DEF PushFails
  <1>5. ASSUME NEW q \in Query, Notify(q) PROVE TypeOK'
    BY <1>5, WakeTyped DEF Notify
  <1>6. ASSUME NEW q \in Query, NotifyFails(q) PROVE TypeOK'
    BY <1>6, WakeTyped DEF NotifyFails
  <1>7. ASSUME NEW q \in Query, Abandon(q) PROVE TypeOK'
    BY <1>7 DEF Abandon
  <1>8. ASSUME NEW q \in Query, Receive(q) PROVE TypeOK'
    BY <1>8 DEF Receive
  <1>9. ASSUME NEW q \in Query, Timeout(q) PROVE TypeOK'
    BY <1>9 DEF Timeout
  <1>10. ASSUME NEW q \in Query, Get(q) PROVE TypeOK'
    BY <1>10 DEF Get
  <1>11. ASSUME NEW q \in Query, GetFails(q) PROVE TypeOK'
    BY <1>11 DEF GetFails
  <1>12. ASSUME NEW q \in Query, Deliver(q) PROVE TypeOK'
    BY <1>12 DEF Deliver
  <1>13. ASSUME NEW q \in Query, Close(q) PROVE TypeOK'
    BY <1>13 DEF Close
  <1>14. ASSUME NEW q \in Query, SubscriptionActive(q) PROVE TypeOK'
    BY <1>14 DEF SubscriptionActive
  <1>15. ASSUME NEW q \in Query, SubscriptionLost(q) PROVE TypeOK'
    BY <1>15 DEF SubscriptionLost
  <1>16. ASSUME NEW w \in Worker, Tick(w) PROVE TypeOK'
    BY <1>16 DEF Tick
  <1>17. ASSUME NEW w \in Worker, OnNewQuery(w) PROVE TypeOK'
    BY <1>17 DEF OnNewQuery
  <1>18. ASSUME NEW w \in Worker, DequeueEmpty(w) PROVE TypeOK'
    BY <1>18 DEF DequeueEmpty
  <1>19. ASSUME NEW w \in Worker, Dequeue(w) PROVE TypeOK'
    BY <1>19 DEF Dequeue
  <1>20. ASSUME NEW w \in Worker, DequeueFails(w) PROVE TypeOK'
    <2>1. queue' \in Seq(Query) /\ fate' \in [Query -> Fate]
      <3>1. CASE UNCHANGED <<queue, fate>>
        BY <3>1
      <3>2. CASE /\ queue # <<>>
                 /\ queue' = Tail(queue)
                 /\ fate'  = [fate EXCEPT ![Head(queue)] = "lost"]
        BY <3>2
      <3>. QED
        BY <1>20, <3>1, <3>2 DEF DequeueFails
    <2>. QED
      BY <1>20, <2>1 DEF DequeueFails
  <1>21. ASSUME NEW w \in Worker, CheckActive(w) PROVE TypeOK'
    <2>1. job[w] \in Query
      BY <1>21, HasJob DEF CheckActive
    <2>2. runs' \in [Query -> Nat]
      BY <1>21, <2>1 DEF CheckActive
    <2>. QED
      BY <1>21, <2>1, <2>2 DEF CheckActive
  <1>22. ASSUME NEW w \in Worker, CheckInactive(w) PROVE TypeOK'
    BY <1>22, ZenonT(60) DEF CheckInactive, Finish
  <1>23. ASSUME NEW w \in Worker, CheckFails(w) PROVE TypeOK'
    <2>1. job[w] \in Query
      BY <1>23, HasJob DEF CheckFails
    <2>2. faults' \in 0..MaxFaults
      BY <1>23 DEF CheckFails
    <2>. QED
      BY <1>23, <2>1, <2>2 DEF CheckFails, Finish
  <1>24. ASSUME NEW w \in Worker, Run(w) PROVE TypeOK'
    <2>1. job[w] \in Query
      BY <1>24, HasJob DEF Run
    <2>2. PICK r \in Result : /\ result'  = [result EXCEPT ![w] = r]
                             /\ outcome' = [outcome EXCEPT ![job[w]] = @ \cup {r}]
      BY <1>24 DEF Run
    <2>3. outcome' \in [Query -> SUBSET Result]
      BY <2>1, <2>2
    <2>4. result' \in [Worker -> Result \cup {"none"}]
      BY <2>2
    <2>. QED
      BY <1>24, <2>1, <2>3, <2>4 DEF Run
  <1>25. ASSUME NEW w \in Worker, Panic(w) PROVE TypeOK'
    BY <1>25, ZenonT(60) DEF Panic
  <1>26. ASSUME NEW w \in Worker, Store(w) PROVE TypeOK'
    <2>1. job[w] \in Query /\ store' \in [Query -> Result \cup {"none"}]
      BY <1>26, ZenonT(60) DEF Store
    <2>2. CASE phase[w] = "store" /\ phase' = [phase EXCEPT ![w] = "announce"]
      BY <1>26, <2>1, <2>2 DEF Store
    <2>3. CASE phase[w] = "storeError" /\ phase' = [phase EXCEPT ![w] = "announceError"]
      BY <1>26, <2>1, <2>3 DEF Store
    <2>. QED
      BY <1>26, <2>2, <2>3 DEF Store
  <1>27. ASSUME NEW w \in Worker, Announce(w) PROVE TypeOK'
    BY <1>27, ZenonT(60) DEF Announce, Announcement, Finish
  <1>28. ASSUME NEW w \in Worker, PublishFails(w) PROVE TypeOK'
    <2>1. phase[w] \in {"store", "announce"} /\ job[w] \in Query
      BY <1>28, ZenonT(60) DEF PublishFails
    <2>2. store' \in [Query -> Result \cup {"none"}] /\ inbox' \in [Query -> BOOLEAN]
      BY <1>28, <2>1, MaybeTyped DEF PublishFails
    <2>. QED
      BY <1>28, <2>1, <2>2 DEF PublishFails
  <1>29. ASSUME NEW w \in Worker, PublishErrorFails(w) PROVE TypeOK'
    <2>1. phase[w] \in {"storeError", "announceError"} /\ job[w] \in Query
      BY <1>29, ZenonT(60) DEF PublishErrorFails
    <2>2. store' \in [Query -> Result \cup {"none"}] /\ inbox' \in [Query -> BOOLEAN]
      BY <1>29, <2>1, MaybeTyped DEF PublishErrorFails
    <2>3. faults' \in 0..MaxFaults
      BY <1>29 DEF PublishErrorFails
    <2>. QED
      BY <1>29, <2>1, <2>2, <2>3, ZenonT(60) DEF PublishErrorFails, Finish
  <1>30. ASSUME NEW w \in Worker, Restart(w) PROVE TypeOK'
    BY <1>30 DEF Restart
  <1>31. ASSUME NEW w \in Worker, Crash(w) PROVE TypeOK'
    BY <1>31 DEF Crash
  <1>32. CASE ServerStops
    <2>1. /\ call'  \in [Query -> CallState]
          /\ gor'   \in [Query -> GorState]
          /\ sub'   \in [Query -> SubState]
          /\ inbox' \in [Query -> BOOLEAN]
      BY <1>32 DEF ServerStops
    <2>2. faults' \in 0..MaxFaults
      BY <1>32 DEF ServerStops
    <2>. QED
      BY <1>32, <2>1, <2>2 DEF ServerStops
  <1>33. CASE ServerStarts
    BY <1>33 DEF ServerStarts
  <1>34. CASE UNCHANGED vars
    BY <1>34 DEF vars
  <1>35. ASSUME NEW q \in Query, PushAgain(q) PROVE TypeOK'
    BY <1>35 DEF PushAgain
  <1>36. ASSUME NEW q \in Query, NotifyAgain(q) PROVE TypeOK'
    BY <1>36, WakeTyped DEF NotifyAgain
  <1>37. ASSUME NEW w \in Worker, DequeueAgain(w) PROVE TypeOK'
    BY <1>37 DEF DequeueAgain
  <1>38. ASSUME NEW w \in Worker, PublishAgain(w) PROVE TypeOK'
    <2>1. store' \in [Query -> Result \cup {"none"}] /\ inbox' \in [Query -> BOOLEAN]
      <3>1. job[w] \in Query
        BY <1>38, HasJob DEF PublishAgain
      <3>. QED
        BY <1>38, <3>1, MaybeTyped, ZenonT(60) DEF PublishAgain, SetMaybe, AnnounceMaybe
    <2>2. faults' \in 0..MaxFaults
      BY <1>38 DEF PublishAgain
    <2>. QED
      BY <1>38, <2>1, <2>2, ZenonT(60) DEF PublishAgain
  <1>39. ASSUME NEW q \in Query, Log(q) PROVE TypeOK'
    BY <1>39 DEF Log
  <1>. QED
    BY <1>1, <1>2, <1>3, <1>4, <1>5, <1>6, <1>7, <1>8, <1>9, <1>10, <1>11, <1>12, <1>13,
       <1>14, <1>15, <1>16, <1>17, <1>18, <1>19, <1>20, <1>21, <1>22, <1>23, <1>24, <1>25,
       <1>26, <1>27, <1>28, <1>29, <1>30, <1>31, <1>32, <1>33, <1>34, <1>35, <1>36, <1>37,
       <1>38, <1>39
    DEF Next, Handler, Goroutine, Working, Subscription, WorkerStep

(* Type correctness of every reachable state.                              *)
THEOREM Typing == Spec => []TypeOK
  <1>. QED
    BY TypeInit, TypeStep, PTL DEF Spec

-------------------------------------------------------------------------------
(* Each query that is pushed once is in one place, and is executed once.   *)

(* The steps that push no query, pop none and begin or end no execution    *)
(* keep PlaceInv, as long as they leave calls before LPUSH alone.          *)
LEMMA PlaceKept ==
  ASSUME TypeOK, TypeOK', PlaceInv,
         UNCHANGED <<queue, runs, outcome, resent>>,
         \A w \in Worker :
           /\ job'[w] \in {job[w], NoQuery}
           /\ phase'[w] \in {"check", "run"} => phase'[w] = phase[w] /\ job'[w] = job[w],
         \A q \in Query : call'[q] \in {"idle", "push"} =>
            /\ call[q] = "idle" \/ call[q] = call'[q]
            /\ gor'[q] = "none"
            /\ Untouched(q) => fate'[q] = "open"
  PROVE  PlaceInv'
  <1>. /\ queue' = queue /\ runs' = runs /\ outcome' = outcome /\ resent' = resent
       /\ \A w \in Worker : job'[w] = job[w] \/ job'[w] = NoQuery
    OBVIOUS
  <1>1. ASSUME NEW q \in Query, call'[q] = "idle" \/ (call'[q] = "push" /\ q \notin resent')
        PROVE  Untouched(q)'
    <2>1. Untouched(q)
      BY <1>1 DEF PlaceInv
    <2>2. \A w \in Worker : job'[w] # q
      BY <2>1, QueryAssumption DEF Untouched
    <2>. QED
      BY <1>1, <2>1, <2>2 DEF Untouched
  <1>2. \A i, j \in 1..Len(queue') :
          queue'[i] = queue'[j] /\ queue'[i] \notin resent' => i = j
    BY DEF PlaceInv
  <1>3. ASSUME NEW i \in 1..Len(queue'), queue'[i] \notin resent'
        PROVE  /\ runs'[queue'[i]] = 0 /\ outcome'[queue'[i]] = {}
               /\ \A w \in Worker : job'[w] # queue'[i]
    <2>1. queue[i] # NoQuery
      BY QueryAssumption DEF TypeOK
    <2>2. /\ runs[queue[i]] = 0 /\ outcome[queue[i]] = {}
          /\ \A w \in Worker : job[w] # queue[i]
      BY <1>3 DEF PlaceInv
    <2>. QED
      BY <2>1, <2>2
  <1>4. ASSUME NEW v \in Worker, NEW w \in Worker,
               job'[v] = job'[w], job'[v] # NoQuery, job'[v] \notin resent'
        PROVE  v = w
    <2>1. job'[v] = job[v] /\ job'[w] = job[w]
      BY <1>4
    <2>2. \A x, y \in Worker :
            job[x] = job[y] /\ job[x] # NoQuery /\ job[x] \notin resent => x = y
      BY DEF PlaceInv
    <2>. QED
      BY <1>4, <2>1, <2>2
  <1>5. ASSUME NEW w \in Worker, job'[w] \notin resent'
        PROVE  /\ phase'[w] = "check" => runs'[job'[w]] = 0
               /\ phase'[w] \in {"check", "run"} => outcome'[job'[w]] = {}
    <2>1. CASE phase'[w] \in {"check", "run"}
      <3>1. phase'[w] = phase[w] /\ job'[w] = job[w]
        BY <2>1
      <3>. QED
        BY <1>5, <2>1, <3>1 DEF PlaceInv
    <2>. QED
      BY <2>1
  <1>6. \A q \in Query : q \notin resent' => runs'[q] <= 1
    BY DEF PlaceInv
  <1>7. \A q \in Query : call'[q] \in {"idle", "push"} => gor'[q] = "none"
    OBVIOUS
  <1>8. /\ \A q \in Query : call'[q] = "idle" => Untouched(q)'
        /\ \A q \in Query : call'[q] = "push" /\ q \notin resent' => Untouched(q)'
    BY <1>1
  <1>. QED
    BY <1>8, <1>2, <1>3, <1>4, <1>5, <1>6, <1>7 DEF PlaceInv

(* A step of a goroutine that is running.                                  *)
LEMMA GoroutineKeeps ==
  ASSUME TypeOK, TypeOK', PlaceInv, NEW q \in Query, gor[q] # "none",
         \A p \in Query \ {q} : gor'[p] = gor[p] /\ call'[p] = call[p],
         call'[q] = call[q] \/ call'[q] \notin {"idle", "push"},
         UNCHANGED <<queue, phase, job, runs, outcome, fate, resent>>
  PROVE  PlaceInv'
  <1>1. call[q] \notin {"idle", "push"}
    BY DEF PlaceInv
  <1>2. ASSUME NEW p \in Query, call'[p] \in {"idle", "push"}
        PROVE  call[p] = call'[p] /\ gor'[p] = "none" /\ (Untouched(p) => fate'[p] = "open")
    <2>1. p # q /\ call[p] = call'[p] /\ gor'[p] = gor[p]
      BY <1>1, <1>2
    <2>. QED
      BY <1>2, <2>1 DEF PlaceInv, Untouched
  <1>. QED
    BY <1>2, PlaceKept

(* A step of a worker that goes on with its job, and does not check or run *)
(* it.                                                                     *)
LEMMA WorkerKeeps ==
  ASSUME TypeOK, TypeOK', PlaceInv, NEW w \in Worker,
         \A v \in Worker \ {w} : phase'[v] = phase[v],
         phase'[w] \notin {"check", "run"} \/ phase'[w] = phase[w],
         UNCHANGED <<call, gor, queue, job, runs, outcome, fate, resent>>
  PROVE  PlaceInv'
  <1>1. \A v \in Worker :
          /\ job'[v] \in {job[v], NoQuery}
          /\ phase'[v] \in {"check", "run"} => phase'[v] = phase[v] /\ job'[v] = job[v]
    OBVIOUS
  <1>2. \A q \in Query : call'[q] \in {"idle", "push"} =>
          /\ call[q] = "idle" \/ call[q] = call'[q]
          /\ gor'[q] = "none"
          /\ Untouched(q) => fate'[q] = "open"
    BY DEF PlaceInv, Untouched
  <1>. QED
    BY <1>1, <1>2, PlaceKept

(* A worker is done with its job.                                          *)
LEMMA WorkerFinishes ==
  ASSUME TypeOK, TypeOK', PlaceInv, NEW w \in Worker, NEW how, Finish(w, how),
         UNCHANGED <<call, gor, queue, runs, outcome, resent>>
  PROVE  PlaceInv'
  <1>1. \A v \in Worker :
          /\ job'[v] \in {job[v], NoQuery}
          /\ phase'[v] \in {"check", "run"} => phase'[v] = phase[v] /\ job'[v] = job[v]
    BY DEF Finish, TypeOK
  <1>2. \A q \in Query : call'[q] \in {"idle", "push"} =>
          /\ call[q] = "idle" \/ call[q] = call'[q]
          /\ gor'[q] = "none"
    BY DEF PlaceInv
  <1>3. ASSUME NEW q \in Query, Untouched(q) PROVE fate'[q] = "open"
    BY <1>3 DEF Finish, TypeOK, Untouched
  <1>. QED
    BY <1>1, <1>2, <1>3, PlaceKept

(* A query is appended to the list, by its caller or by the Redis client.  *)
LEMMA PlaceAppended ==
  ASSUME TypeOK, TypeOK', PlaceInv, NEW q \in Query, call[q] = "push",
         queue' = Append(queue, q),
         resent' \in {resent, resent \cup {q}},
         call'[q] \notin {"idle", "push"} \/ (call'[q] = "push" /\ q \in resent'),
         \A p \in Query \ {q} : call'[p] = call[p] /\ gor'[p] = gor[p],
         call'[q] \in {"idle", "push"} => gor'[q] = gor[q],
         UNCHANGED <<phase, job, runs, outcome, fate>>
  PROVE  PlaceInv'
  <1>1. /\ Len(queue') = Len(queue) + 1 /\ Len(queue) \in Nat /\ queue'[Len(queue) + 1] = q
        /\ \A i \in 1..Len(queue) : queue'[i] = queue[i]
    BY DEF TypeOK
  <1>2. resent \subseteq resent' /\ resent' \subseteq resent \cup {q}
    OBVIOUS
  <1>3. q \notin resent' => Untouched(q)
    BY <1>2 DEF PlaceInv
  <1>4. ASSUME NEW p \in Query, call'[p] = "idle" \/ (call'[p] = "push" /\ p \notin resent')
        PROVE  Untouched(p)'
    <2>1. p # q
      BY <1>4
    <2>2. Untouched(p)
      BY <1>2, <1>4, <2>1 DEF PlaceInv
    <2>3. ASSUME NEW i \in 1..Len(queue') PROVE queue'[i] # p
      <3>1. CASE i \in 1..Len(queue)
        BY <1>1, <2>2, <3>1 DEF Untouched
      <3>2. CASE i = Len(queue) + 1
        BY <1>1, <2>1, <3>2
      <3>. QED
        BY <1>1, <3>1, <3>2
    <2>. QED
      BY <2>2, <2>3 DEF Untouched
  <1>5. ASSUME NEW i \in 1..Len(queue'), NEW j \in 1..Len(queue'),
               queue'[i] = queue'[j], queue'[i] \notin resent'
        PROVE  i = j
    <2>1. CASE i \in 1..Len(queue) /\ j \in 1..Len(queue)
      BY <1>1, <1>2, <1>5, <2>1 DEF PlaceInv
    <2>2. CASE i = Len(queue) + 1 /\ j \in 1..Len(queue)
      BY <1>1, <1>3, <1>5, <2>2 DEF Untouched
    <2>3. CASE i \in 1..Len(queue) /\ j = Len(queue) + 1
      BY <1>1, <1>3, <1>5, <2>3 DEF Untouched
    <2>. QED
      BY <1>1, <2>1, <2>2, <2>3
  <1>6. ASSUME NEW i \in 1..Len(queue'), queue'[i] \notin resent'
        PROVE  /\ runs'[queue'[i]] = 0 /\ outcome'[queue'[i]] = {}
               /\ \A w \in Worker : job'[w] # queue'[i]
    <2>1. CASE i \in 1..Len(queue)
      BY <1>1, <1>2, <1>6, <2>1 DEF PlaceInv
    <2>2. CASE i = Len(queue) + 1
      BY <1>1, <1>3, <1>6, <2>2 DEF Untouched
    <2>3. i \in 1..Len(queue) \/ i = Len(queue) + 1
      BY <1>1
    <2>. QED
      BY <2>1, <2>2, <2>3
  <1>7. \A p \in Query : call'[p] \in {"idle", "push"} => gor'[p] = "none"
    BY DEF PlaceInv
  <1>8. /\ \A v, w \in Worker :
             job'[v] = job'[w] /\ job'[v] # NoQuery /\ job'[v] \notin resent' => v = w
        /\ \A w \in Worker : job'[w] \notin resent' =>
             /\ phase'[w] = "check" => runs'[job'[w]] = 0
             /\ phase'[w] \in {"check", "run"} => outcome'[job'[w]] = {}
        /\ \A p \in Query : p \notin resent' => runs'[p] <= 1
    BY <1>2 DEF PlaceInv
  <1>9. \A p \in Query : call'[p] = "idle" \/ (call'[p] = "push" /\ p \notin resent') => Untouched(p)'
    BY <1>4
  <1>. QED
    BY <1>5, <1>6, <1>7, <1>8, <1>9, Zenon DEF PlaceInv

LEMMA PlaceInit == Init => PlaceInv
  BY QueryAssumption DEF Init, PlaceInv, Untouched

LEMMA PlaceStep == TypeOK /\ TypeOK' /\ PlaceInv /\ [Next]_vars => PlaceInv'
  <1> SUFFICES ASSUME TypeOK, TypeOK', PlaceInv, [Next]_vars PROVE PlaceInv'
    OBVIOUS
  <1> USE QueryAssumption DEF serverVars, workerVars, historyVars
  <1>1. ASSUME NEW q \in Query, Subscribe(q) PROVE PlaceInv'
    BY <1>1, PlaceKept DEF Subscribe, TypeOK, PlaceInv, Untouched
  <1>2. ASSUME NEW q \in Query, EncodeFails(q) PROVE PlaceInv'
    BY <1>2, PlaceKept DEF EncodeFails, TypeOK, PlaceInv, Untouched
  <1>3. ASSUME NEW q \in Query, Notify(q) PROVE PlaceInv'
    BY <1>3, PlaceKept DEF Notify, TypeOK, PlaceInv, Untouched
  <1>4. ASSUME NEW q \in Query, NotifyFails(q) PROVE PlaceInv'
    BY <1>4, PlaceKept DEF NotifyFails, TypeOK, PlaceInv, Untouched
  <1>5. ASSUME NEW q \in Query, Abandon(q) PROVE PlaceInv'
    BY <1>5, PlaceKept DEF Abandon, TypeOK, PlaceInv, Untouched
  <1>6. ASSUME NEW q \in Query, Receive(q) PROVE PlaceInv'
    BY <1>6, GoroutineKeeps DEF Receive, TypeOK
  <1>7. ASSUME NEW q \in Query, Timeout(q) PROVE PlaceInv'
    BY <1>7, GoroutineKeeps DEF Timeout, TypeOK
  <1>8. ASSUME NEW q \in Query, Get(q) PROVE PlaceInv'
    BY <1>8, GoroutineKeeps DEF Get, TypeOK
  <1>9. ASSUME NEW q \in Query, GetFails(q) PROVE PlaceInv'
    BY <1>9, GoroutineKeeps DEF GetFails, TypeOK
  <1>10. ASSUME NEW q \in Query, Deliver(q) PROVE PlaceInv'
    BY <1>10, GoroutineKeeps DEF Deliver, TypeOK
  <1>11. ASSUME NEW q \in Query, Close(q) PROVE PlaceInv'
    BY <1>11, GoroutineKeeps DEF Close, TypeOK
  <1>12. ASSUME NEW q \in Query, SubscriptionActive(q) PROVE PlaceInv'
    BY <1>12, PlaceKept DEF SubscriptionActive, TypeOK, PlaceInv, Untouched
  <1>13. ASSUME NEW q \in Query, SubscriptionLost(q) PROVE PlaceInv'
    BY <1>13, PlaceKept DEF SubscriptionLost, TypeOK, PlaceInv, Untouched
  <1>14. ASSUME NEW w \in Worker, Tick(w) PROVE PlaceInv'
    BY <1>14, WorkerKeeps DEF Tick, TypeOK
  <1>15. ASSUME NEW w \in Worker, OnNewQuery(w) PROVE PlaceInv'
    BY <1>15, WorkerKeeps DEF OnNewQuery, TypeOK
  <1>16. ASSUME NEW w \in Worker, DequeueEmpty(w) PROVE PlaceInv'
    BY <1>16, WorkerKeeps DEF DequeueEmpty, TypeOK
  <1>17. ASSUME NEW w \in Worker, CheckInactive(w) PROVE PlaceInv'
    BY <1>17, WorkerFinishes DEF CheckInactive
  <1>18. ASSUME NEW w \in Worker, CheckFails(w) PROVE PlaceInv'
    BY <1>18, WorkerFinishes DEF CheckFails
  <1>19. ASSUME NEW w \in Worker, Store(w) PROVE PlaceInv'
    <2>1. phase'[w] \in {"announce", "announceError"} /\ \A v \in Worker \ {w} : phase'[v] = phase[v]
      BY <1>19 DEF Store, TypeOK
    <2>2. UNCHANGED <<call, gor, queue, job, runs, outcome, fate, resent>>
      BY <1>19 DEF Store
    <2>. QED
      BY <2>1, <2>2, WorkerKeeps
  <1>20. ASSUME NEW w \in Worker, Announce(w) PROVE PlaceInv'
    BY <1>20, WorkerFinishes DEF Announce
  <1>21. ASSUME NEW w \in Worker, PublishFails(w) PROVE PlaceInv'
    BY <1>21, WorkerKeeps DEF PublishFails, TypeOK
  <1>22. ASSUME NEW w \in Worker, PublishErrorFails(w) PROVE PlaceInv'
    BY <1>22, WorkerFinishes DEF PublishErrorFails
  <1>23. ASSUME NEW w \in Worker, Restart(w) PROVE PlaceInv'
    BY <1>23, PlaceKept, HasJob DEF Restart, TypeOK, PlaceInv, Untouched
  <1>24. ASSUME NEW w \in Worker, Crash(w) PROVE PlaceInv'
    <2>1. \A v \in Worker :
            /\ job'[v] \in {job[v], NoQuery}
            /\ phase'[v] \in {"check", "run"} => phase'[v] = phase[v] /\ job'[v] = job[v]
      BY <1>24 DEF Crash, TypeOK
    <2>2. UNCHANGED <<call, gor, queue, runs, outcome, resent>>
      BY <1>24 DEF Crash
    <2>3. ASSUME NEW q \in Query, Untouched(q) PROVE fate'[q] = "open"
      BY <1>24, <2>3 DEF Crash, TypeOK, Untouched
    <2>4. \A q \in Query : call'[q] \in {"idle", "push"} =>
            call[q] = call'[q] /\ gor'[q] = "none"
      BY <2>2 DEF PlaceInv
    <2>. QED
      BY <2>1, <2>2, <2>3, <2>4, PlaceKept
  <1>25. CASE ServerStops
    BY <1>25, PlaceKept DEF ServerStops, TypeOK, PlaceInv, Untouched
  <1>26. CASE ServerStarts
    BY <1>26, PlaceKept DEF ServerStarts, TypeOK, PlaceInv, Untouched
  <1>27. CASE UNCHANGED vars
    BY <1>27, PlaceKept DEF vars, TypeOK, PlaceInv, Untouched
  <1>28. ASSUME NEW q \in Query, Push(q) PROVE PlaceInv'
    BY <1>28, PlaceAppended DEF Push, TypeOK
  <1>29. ASSUME NEW q \in Query, PushFails(q) PROVE PlaceInv'
    <2>1. CASE queue' = queue
      BY <1>29, <2>1, PlaceKept DEF PushFails, TypeOK, PlaceInv, Untouched
    <2>2. CASE queue' = Append(queue, q)
      BY <1>29, <2>2, PlaceAppended DEF PushFails, TypeOK
    <2>. QED
      BY <1>29, <2>1, <2>2 DEF PushFails
  <1>30. ASSUME NEW w \in Worker, Dequeue(w) PROVE PlaceInv'
    <2> DEFINE h == Head(queue)
    <2>1. /\ Len(queue') = Len(queue) - 1 /\ h = queue[1] /\ h \in Query
          /\ 1 \in 1..Len(queue)
          /\ \A i \in 1..Len(queue') : queue'[i] = queue[i + 1] /\ i + 1 \in 1..Len(queue)
      BY <1>30 DEF Dequeue, TypeOK
    <2>2. /\ job'[w] = h /\ phase'[w] = "check"
          /\ \A v \in Worker : v # w => job'[v] = job[v] /\ phase'[v] = phase[v]
      BY <1>30 DEF Dequeue, TypeOK
    <2>3. UNCHANGED <<call, gor, runs, outcome, fate, resent>>
      BY <1>30 DEF Dequeue
    <2>4. h \notin resent => /\ runs[h] = 0 /\ outcome[h] = {}
                            /\ \A v \in Worker : job[v] # h
                            /\ \A i \in 1..Len(queue') : queue'[i] # h
      <3>1. ASSUME h \notin resent, NEW i \in 1..Len(queue') PROVE queue'[i] # h
        <4>1. queue[i + 1] = queue[1] /\ queue[i + 1] \notin resent => i + 1 = 1
          BY <2>1, <3>1, Zenon DEF PlaceInv
        <4>. QED
          BY <2>1, <3>1, <4>1
      <3>2. h \notin resent => /\ runs[h] = 0 /\ outcome[h] = {}
                              /\ \A v \in Worker : job[v] # h
        BY <2>1 DEF PlaceInv
      <3>. QED
        BY <3>1, <3>2
    <2>5. ASSUME NEW q \in Query, call[q] = "idle" \/ (call[q] = "push" /\ q \notin resent)
          PROVE  Untouched(q)'
      <3>1. Untouched(q)
        BY <2>5 DEF PlaceInv
      <3>2. q # h
        BY <2>1, <3>1 DEF Untouched
      <3>3. \A i \in 1..Len(queue') : queue'[i] # q
        BY <2>1, <3>1 DEF Untouched
      <3>4. \A v \in Worker : job'[v] # q
        BY <2>2, <3>1, <3>2 DEF Untouched
      <3>5. runs'[q] = 0 /\ outcome'[q] = {} /\ fate'[q] = "open"
        BY <2>3, <3>1 DEF Untouched
      <3>. QED
        BY <3>3, <3>4, <3>5 DEF Untouched
    <2>6. /\ \A q \in Query : call'[q] = "idle" => Untouched(q)'
          /\ \A q \in Query : call'[q] = "push" /\ q \notin resent' => Untouched(q)'
          /\ \A q \in Query : call'[q] \in {"idle", "push"} => gor'[q] = "none"
          /\ \A q \in Query : q \notin resent' => runs'[q] <= 1
      BY <2>3, <2>5 DEF PlaceInv
    <2>7. \A i, j \in 1..Len(queue') :
            queue'[i] = queue'[j] /\ queue'[i] \notin resent' => i = j
      <3>1. ASSUME NEW i \in 1..Len(queue'), NEW j \in 1..Len(queue'),
                   queue'[i] = queue'[j], queue'[i] \notin resent
            PROVE  i = j
        <4>1. i + 1 = j + 1
          BY <2>1, <3>1 DEF PlaceInv
        <4>. QED
          BY <4>1
      <3>. QED
        BY <2>3, <3>1
    <2>8. \A i \in 1..Len(queue') : queue'[i] \notin resent' =>
            /\ runs'[queue'[i]] = 0 /\ outcome'[queue'[i]] = {}
            /\ \A v \in Worker : job'[v] # queue'[i]
      BY <2>1, <2>2, <2>3, <2>4 DEF PlaceInv
    <2>9. /\ \A v, x \in Worker :
               job'[v] = job'[x] /\ job'[v] # NoQuery /\ job'[v] \notin resent' => v = x
          /\ \A v \in Worker : job'[v] \notin resent' =>
               /\ phase'[v] = "check" => runs'[job'[v]] = 0
               /\ phase'[v] \in {"check", "run"} => outcome'[job'[v]] = {}
      BY <2>2, <2>3, <2>4 DEF PlaceInv
    <2>. QED
      BY <2>6, <2>7, <2>8, <2>9 DEF PlaceInv
  <1>31. ASSUME NEW w \in Worker, DequeueFails(w) PROVE PlaceInv'
    <2>1. CASE UNCHANGED <<queue, fate>>
      BY <1>31, <2>1, PlaceKept DEF DequeueFails, TypeOK, PlaceInv, Untouched
    <2>2. CASE /\ queue # <<>>
               /\ queue' = Tail(queue)
               /\ fate'  = [fate EXCEPT ![Head(queue)] = "lost"]
      BY <1>31, <2>2 DEF DequeueFails, TypeOK, PlaceInv, Untouched
    <2>. QED
      BY <1>31, <2>1, <2>2 DEF DequeueFails
  <1>32. ASSUME NEW w \in Worker, CheckActive(w) PROVE PlaceInv'
    BY <1>32, HasJob DEF CheckActive, TypeOK, PlaceInv, Untouched
  <1>33. ASSUME NEW w \in Worker, Run(w) PROVE PlaceInv'
    BY <1>33, HasJob DEF Run, TypeOK, PlaceInv, Untouched
  <1>34. ASSUME NEW w \in Worker, Panic(w) PROVE PlaceInv'
    BY <1>34, HasJob DEF Panic, TypeOK, PlaceInv, Untouched
  <1>35. ASSUME NEW q \in Query, PushAgain(q) PROVE PlaceInv'
    BY <1>35, PlaceAppended DEF PushAgain, TypeOK
  <1>36. ASSUME NEW q \in Query, NotifyAgain(q) PROVE PlaceInv'
    BY <1>36, PlaceKept DEF NotifyAgain, TypeOK, PlaceInv, Untouched
  <1>37. ASSUME NEW w \in Worker, DequeueAgain(w) PROVE PlaceInv'
    BY <1>37 DEF DequeueAgain, TypeOK, PlaceInv, Untouched
  <1>38. ASSUME NEW w \in Worker, PublishAgain(w) PROVE PlaceInv'
    BY <1>38, WorkerKeeps DEF PublishAgain, TypeOK
  <1>39. ASSUME NEW q \in Query, Log(q) PROVE PlaceInv'
    BY <1>39, GoroutineKeeps DEF Log, TypeOK
  <1>. QED
    BY <1>1, <1>2, <1>3, <1>4, <1>5, <1>6, <1>7, <1>8, <1>9, <1>10, <1>11, <1>12, <1>13,
       <1>14, <1>15, <1>16, <1>17, <1>18, <1>19, <1>20, <1>21, <1>22, <1>23, <1>24, <1>25,
       <1>26, <1>27, <1>28, <1>29, <1>30, <1>31, <1>32, <1>33, <1>34, <1>35, <1>36, <1>37,
       <1>38, <1>39
    DEF Next, Handler, Goroutine, Working, Subscription, WorkerStep

(* For any number of calls, workers and failures, no query is executed     *)
(* twice and no two workers hold the same one, unless its LPUSH was sent   *)
(* again.                                                                  *)
THEOREM ExecutedOnce == Spec => []SingleExecution
  <1>1. PlaceInv => SingleExecution
    BY DEF PlaceInv, SingleExecution
  <1>. QED
    BY <1>1, PlaceInit, PlaceStep, Typing, PTL DEF Spec

-------------------------------------------------------------------------------
(* Answers are stored before they are announced, and are faithful.         *)

LEMMA AnswerInit == Init => AnswerInv
  BY ValueAssumption DEF Init, AnswerInv, NotifiedFindsResult, HonestAnswer, OfferInv, Result

(* The steps of workers that store and announce nothing keep AnswerInv, if *)
(* they add faithful results only.                                         *)
LEMMA AnswerKept ==
  ASSUME TypeOK, TypeOK', AnswerInv,
         UNCHANGED <<store, inbox, gor, reply, call>>,
         \A q \in Query : outcome[q] \subseteq outcome'[q],
         faults' = 0 => faults = 0,
         \A w \in Worker : phase'[w] \in {"store", "announce", "storeError", "announceError"} =>
           \/ phase'[w] = phase[w] /\ job'[w] = job[w] /\ result'[w] = result[w]
           \/ /\ phase'[w] \in {"store", "storeError"}
              /\ result'[w] # "none" /\ Faithful(job[w], result[w])'
  PROVE  AnswerInv'
  <1>2. ASSUME NEW w \in Worker,
               phase'[w] \in {"store", "announce", "storeError", "announceError"}
        PROVE  /\ result'[w] # "none" /\ Faithful(job[w], result[w])'
               /\ phase'[w] \in {"announce", "announceError"} => store'[job'[w]] # "none"
    <2>1. CASE phase'[w] = phase[w] /\ job'[w] = job[w] /\ result'[w] = result[w]
      <3>1. job[w] \in Query
        BY <1>2, <2>1, HasJob
      <3>2. result[w] # "none" /\ Faithful(job[w], result[w])
        BY <1>2, <2>1 DEF AnswerInv
      <3>3. Faithful(job[w], result[w])'
        BY <2>1, <3>1, <3>2 DEF Faithful
      <3>. QED
        BY <1>2, <2>1, <3>2, <3>3 DEF AnswerInv, Faithful
    <2>. QED
      BY <1>2, <2>1
  <1>3. ASSUME NEW q \in Query, store'[q] # "none" PROVE Faithful(q, store[q])'
    BY <1>3 DEF AnswerInv, Faithful
  <1>4. NotifiedFindsResult' /\ OfferInv'
    BY DEF AnswerInv, NotifiedFindsResult, OfferInv
  <1>5. HonestAnswer'
    BY DEF AnswerInv, HonestAnswer
  <1>. QED
    BY <1>2, <1>3, <1>4, <1>5 DEF AnswerInv, Faithful

(* The steps that store a result or announce it keep AnswerInv, if they do *)
(* so in this order.                                                       *)
LEMMA AnswerWritten ==
  ASSUME TypeOK, TypeOK', AnswerInv, NEW w \in Worker,
         phase[w] \in {"store", "announce", "storeError", "announceError"},
         UNCHANGED <<gor, reply, call, outcome>>,
         faults' = 0 => faults = 0,
         store' = store \/ store' = [store EXCEPT ![job[w]] = result[w]],
         inbox' = inbox \/ Announcement(job[w]),
         inbox' # inbox => store'[job[w]] # "none",
         \A v \in Worker : v # w =>
           phase'[v] = phase[v] /\ job'[v] = job[v] /\ result'[v] = result[v],
         phase'[w] \in {"store", "announce", "storeError", "announceError"} =>
           /\ job'[w] = job[w]
           /\ result'[w] = result[w] \/ (result'[w] = "error" /\ faults' # 0),
         phase'[w] \in {"announce", "announceError"} => store'[job[w]] # "none"
  PROVE  AnswerInv'
  <1>. USE ValueAssumption
  <1>1. job[w] \in Query /\ result[w] # "none" /\ Faithful(job[w], result[w])
    BY HasJob DEF AnswerInv
  <1>2. ASSUME NEW q \in Query
        PROVE  /\ store'[q] = store[q] \/ (q = job[w] /\ store'[q] = result[w])
               /\ store[q] # "none" => store'[q] # "none"
               /\ inbox'[q] => inbox[q] \/ store'[q] # "none"
    <2>1. /\ store'[q] = store[q] \/ (q = job[w] /\ store'[q] = result[w])
          /\ store[q] # "none" => store'[q] # "none"
      BY <1>1 DEF TypeOK
    <2>2. CASE inbox' = inbox
      BY <2>1, <2>2
    <2>3. CASE inbox' # inbox /\ Announcement(job[w])
      <3>1. q # job[w] => inbox'[q] = inbox[q]
        BY <2>3, ZenonT(30) DEF Announcement, TypeOK
      <3>. QED
        BY <2>1, <2>3, <3>1
    <2>. QED
      BY <2>1, <2>2, <2>3
  <1>3. ASSUME NEW v \in Worker,
               phase'[v] \in {"store", "announce", "storeError", "announceError"}
        PROVE  /\ result'[v] # "none" /\ Faithful(job[v], result[v])'
               /\ phase'[v] \in {"announce", "announceError"} => store'[job'[v]] # "none"
    <2>1. CASE v = w
      BY <1>1, <1>3, <2>1 DEF Faithful
    <2>2. CASE v # w
      <3>1. /\ phase'[v] = phase[v] /\ job'[v] = job[v] /\ result'[v] = result[v]
            /\ job[v] \in Query
        BY <1>3, <2>2, HasJob
      <3>2. /\ result[v] # "none" /\ Faithful(job[v], result[v])
            /\ phase[v] \in {"announce", "announceError"} => store[job[v]] # "none"
        BY <1>3, <3>1 DEF AnswerInv
      <3>. QED
        BY <1>2, <3>1, <3>2 DEF Faithful
    <2>. QED
      BY <2>1, <2>2
  <1>4. ASSUME NEW q \in Query, store'[q] # "none" PROVE Faithful(q, store[q])'
    <2>1. CASE store'[q] = store[q]
      BY <1>4, <2>1 DEF AnswerInv, Faithful
    <2>2. CASE q = job[w] /\ store'[q] = result[w]
      BY <1>1, <2>2 DEF Faithful
    <2>. QED
      BY <1>2, <2>1, <2>2
  <1>5. NotifiedFindsResult' /\ OfferInv'
    BY <1>2 DEF AnswerInv, NotifiedFindsResult, OfferInv
  <1>6. HonestAnswer'
    BY DEF AnswerInv, HonestAnswer
  <1>. QED
    BY <1>3, <1>4, <1>5, <1>6 DEF AnswerInv

LEMMA AnswerStep == TypeOK /\ TypeOK' /\ AnswerInv /\ [Next]_vars => AnswerInv'
  <1> SUFFICES ASSUME TypeOK, TypeOK', AnswerInv, [Next]_vars PROVE AnswerInv'
    OBVIOUS
  <1> USE QueryAssumption, ValueAssumption
      DEF TypeOK, AnswerInv, Faithful, NotifiedFindsResult, HonestAnswer, OfferInv, Result, Reply,
          Fault, NoFault, serverVars, workerVars, historyVars
  <1>1. ASSUME NEW q \in Query, Subscribe(q) PROVE AnswerInv'
    BY <1>1 DEF Subscribe
  <1>2. ASSUME NEW q \in Query, EncodeFails(q) PROVE AnswerInv'
    BY <1>2 DEF EncodeFails
  <1>3. ASSUME NEW q \in Query, Push(q) PROVE AnswerInv'
    BY <1>3 DEF Push
  <1>4. ASSUME NEW q \in Query, PushFails(q) PROVE AnswerInv'
    BY <1>4 DEF PushFails
  <1>5. ASSUME NEW q \in Query, Notify(q) PROVE AnswerInv'
    BY <1>5 DEF Notify
  <1>6. ASSUME NEW q \in Query, NotifyFails(q) PROVE AnswerInv'
    BY <1>6 DEF NotifyFails
  <1>7. ASSUME NEW q \in Query, Abandon(q) PROVE AnswerInv'
    BY <1>7 DEF Abandon
  <1>8. ASSUME NEW q \in Query, Receive(q) PROVE AnswerInv'
    BY <1>8 DEF Receive
  <1>9. ASSUME NEW q \in Query, Timeout(q) PROVE AnswerInv'
    BY <1>9 DEF Timeout
  <1>10. ASSUME NEW q \in Query, Get(q) PROVE AnswerInv'
    BY <1>10 DEF Get
  <1>11. ASSUME NEW q \in Query, GetFails(q) PROVE AnswerInv'
    BY <1>11 DEF GetFails
  <1>12. ASSUME NEW q \in Query, Deliver(q) PROVE AnswerInv'
    BY <1>12 DEF Deliver
  <1>13. ASSUME NEW q \in Query, Close(q) PROVE AnswerInv'
    BY <1>13 DEF Close
  <1>14. ASSUME NEW q \in Query, SubscriptionActive(q) PROVE AnswerInv'
    BY <1>14 DEF SubscriptionActive
  <1>15. ASSUME NEW q \in Query, SubscriptionLost(q) PROVE AnswerInv'
    BY <1>15 DEF SubscriptionLost
  <1>16. ASSUME NEW w \in Worker, Tick(w) PROVE AnswerInv'
    BY <1>16, AnswerKept DEF Tick
  <1>17. ASSUME NEW w \in Worker, OnNewQuery(w) PROVE AnswerInv'
    BY <1>17, AnswerKept DEF OnNewQuery
  <1>18. ASSUME NEW w \in Worker, DequeueEmpty(w) PROVE AnswerInv'
    BY <1>18, AnswerKept DEF DequeueEmpty
  <1>19. ASSUME NEW w \in Worker, Dequeue(w) PROVE AnswerInv'
    BY <1>19, AnswerKept DEF Dequeue
  <1>20. ASSUME NEW w \in Worker, DequeueFails(w) PROVE AnswerInv'
    BY <1>20, AnswerKept DEF DequeueFails
  <1>21. ASSUME NEW w \in Worker, CheckActive(w) PROVE AnswerInv'
    BY <1>21, AnswerKept DEF CheckActive
  <1>22. ASSUME NEW w \in Worker, CheckInactive(w) PROVE AnswerInv'
    BY <1>22, AnswerKept DEF CheckInactive, Finish
  <1>23. ASSUME NEW w \in Worker, CheckFails(w) PROVE AnswerInv'
    BY <1>23, AnswerKept DEF CheckFails, Finish
  <1>24. ASSUME NEW w \in Worker, Run(w) PROVE AnswerInv'
    <2>1. job[w] \in Query
      BY <1>24, HasJob DEF Run
    <2>2. PICK r \in Result : /\ result'  = [result EXCEPT ![w] = r]
                             /\ outcome' = [outcome EXCEPT ![job[w]] = @ \cup {r}]
      BY <1>24 DEF Run
    <2>3. result'[w] = r /\ job'[w] = job[w] /\ r \in outcome'[job[w]] /\ r # "none"
      BY <1>24, <2>1, <2>2 DEF Run
    <2>4. \A q \in Query : outcome[q] \subseteq outcome'[q]
      BY <2>1, <2>2
    <2>5. \A v \in Worker : v # w => phase'[v] = phase[v] /\ result'[v] = result[v]
      BY <1>24, <2>2 DEF Run
    <2>6. Faithful(job[w], result[w])'
      BY <2>3 DEF Faithful
    <2>7. /\ UNCHANGED <<store, inbox, gor, reply, call, job>> /\ faults' = faults
          /\ phase'[w] = "store" /\ result'[w] # "none"
      BY <1>24, <2>3 DEF Run
    <2>. HIDE DEF AnswerInv, Faithful
    <2>. QED
      BY <2>4, <2>5, <2>6, <2>7, AnswerKept
  <1>25. ASSUME NEW w \in Worker, Panic(w) PROVE AnswerInv'
    <2>1. job[w] \in Query
      BY <1>25, HasJob DEF Panic
    <2>2. result'[w] = "error" /\ job'[w] = job[w] /\ "error" \in outcome'[job[w]]
      BY <1>25, <2>1 DEF Panic
    <2>3. \A q \in Query : outcome[q] \subseteq outcome'[q]
      BY <1>25, <2>1 DEF Panic
    <2>4. \A v \in Worker : v # w => phase'[v] = phase[v] /\ result'[v] = result[v]
      BY <1>25 DEF Panic
    <2>5. Faithful(job[w], result[w])'
      BY <2>2 DEF Faithful
    <2>. QED
      BY <1>25, <2>2, <2>3, <2>4, <2>5, AnswerKept DEF Panic
  <1>26. ASSUME NEW w \in Worker, Store(w) PROVE AnswerInv'
    BY <1>26, HasJob, AnswerWritten DEF Store
  <1>27. ASSUME NEW w \in Worker, Announce(w) PROVE AnswerInv'
    BY <1>27, HasJob, AnswerWritten DEF Announce, Finish
  <1>28. ASSUME NEW w \in Worker, PublishFails(w) PROVE AnswerInv'
    <2>1. /\ store' = store \/ store' = [store EXCEPT ![job[w]] = result[w]]
          /\ inbox' = inbox \/ Announcement(job[w])
          /\ phase[w] \in {"store", "announce"}
          /\ inbox' # inbox => phase[w] = "announce" /\ store' = store
      BY <1>28 DEF PublishFails, SetMaybe, AnnounceMaybe
    <2>2. inbox' # inbox => store'[job[w]] # "none"
      BY <2>1
    <2>3. /\ UNCHANGED <<gor, reply, call, outcome>> /\ faults' # 0
          /\ \A v \in Worker : v # w =>
               phase'[v] = phase[v] /\ job'[v] = job[v] /\ result'[v] = result[v]
          /\ phase'[w] = "storeError" /\ job'[w] = job[w] /\ result'[w] = "error"
      BY <1>28, <2>1, HasJob DEF PublishFails
    <2>. HIDE DEF AnswerInv, TypeOK
    <2>. QED
      BY <2>1, <2>2, <2>3, AnswerWritten
  <1>29. ASSUME NEW w \in Worker, PublishErrorFails(w) PROVE AnswerInv'
    <2>1. /\ store' = store \/ store' = [store EXCEPT ![job[w]] = result[w]]
          /\ inbox' = inbox \/ Announcement(job[w])
          /\ phase[w] \in {"storeError", "announceError"}
          /\ inbox' # inbox => phase[w] = "announceError" /\ store' = store
      BY <1>29 DEF PublishErrorFails, SetMaybe, AnnounceMaybe
    <2>2. inbox' # inbox => store'[job[w]] # "none"
      BY <2>1
    <2>3. /\ UNCHANGED <<gor, reply, call, outcome>> /\ faults' # 0
          /\ \A v \in Worker : v # w =>
               phase'[v] = phase[v] /\ job'[v] = job[v] /\ result'[v] = result[v]
          /\ phase'[w] = "idle"
      BY <1>29, <2>1, HasJob DEF PublishErrorFails, Finish
    <2>. HIDE DEF AnswerInv, TypeOK
    <2>. QED
      BY <2>1, <2>2, <2>3, AnswerWritten
  <1>30. ASSUME NEW w \in Worker, Restart(w) PROVE AnswerInv'
    BY <1>30, AnswerKept DEF Restart
  <1>31. ASSUME NEW w \in Worker, Crash(w) PROVE AnswerInv'
    <2>1. /\ phase'[w] = "down" /\ \A v \in Worker : v # w => phase'[v] = phase[v]
          /\ \A v \in Worker : v # w => job'[v] = job[v] /\ result'[v] = result[v]
      BY <1>31 DEF Crash
    <2>2. UNCHANGED <<store, inbox, gor, reply, call, outcome>> /\ (faults' = 0 => faults = 0)
      BY <1>31 DEF Crash
    <2>. HIDE DEF AnswerInv, TypeOK, Faithful
    <2>. QED
      BY <2>1, <2>2, AnswerKept
  <1>32. CASE ServerStops
    BY <1>32 DEF ServerStops
  <1>33. CASE ServerStarts
    BY <1>33 DEF ServerStarts
  <1>34. CASE UNCHANGED vars
    BY <1>34 DEF vars
  <1>35. ASSUME NEW q \in Query, PushAgain(q) PROVE AnswerInv'
    BY <1>35 DEF PushAgain
  <1>36. ASSUME NEW q \in Query, NotifyAgain(q) PROVE AnswerInv'
    BY <1>36 DEF NotifyAgain
  <1>37. ASSUME NEW w \in Worker, DequeueAgain(w) PROVE AnswerInv'
    BY <1>37, AnswerKept DEF DequeueAgain
  <1>38. ASSUME NEW w \in Worker, PublishAgain(w) PROVE AnswerInv'
    <2>1. phase[w] \in {"announce", "announceError"} => store[job[w]] # "none"
      OBVIOUS
    <2>. QED
      BY <1>38, <2>1, HasJob, AnswerWritten DEF PublishAgain
  <1>39. ASSUME NEW q \in Query, Log(q) PROVE AnswerInv'
    BY <1>39 DEF Log
  <1>. QED
    BY <1>1, <1>2, <1>3, <1>4, <1>5, <1>6, <1>7, <1>8, <1>9, <1>10, <1>11, <1>12, <1>13,
       <1>14, <1>15, <1>16, <1>17, <1>18, <1>19, <1>20, <1>21, <1>22, <1>23, <1>24, <1>25,
       <1>26, <1>27, <1>28, <1>29, <1>30, <1>31, <1>32, <1>33, <1>34, <1>35, <1>36, <1>37,
       <1>38, <1>39
    DEF Next, Handler, Goroutine, Working, Subscription, WorkerStep

(* For any number of calls, workers and failures: who is notified finds a  *)
(* result, and what a caller gets comes from an execution of its query.    *)
THEOREM NotifiedFinds == Spec => []NotifiedFindsResult
  <1>1. AnswerInv => NotifiedFindsResult
    BY DEF AnswerInv
  <1>. QED
    BY <1>1, AnswerInit, AnswerStep, Typing, PTL DEF Spec

(* A caller is given what its job ended with, or an error once something   *)
(* has failed (rdb/client.go:283-345).                                     *)
THEOREM Honesty == Spec => []HonestAnswer
  <1>1. AnswerInv => HonestAnswer
    BY DEF AnswerInv
  <1>. QED
    BY <1>1, AnswerInit, AnswerStep, Typing, PTL DEF Spec

-------------------------------------------------------------------------------
(* An answer published without an error does not miss a waiting caller.    *)

LEMMA ListenInit == Init => ListenInv
  BY DEF Init, ListenInv, Awaited, Engaged

LEMMA ListenStep == TypeOK /\ TypeOK' /\ PlaceInv /\ ListenInv /\ [Next]_vars => ListenInv'
  <1> SUFFICES ASSUME TypeOK, TypeOK', PlaceInv, ListenInv, [Next]_vars PROVE ListenInv'
    OBVIOUS
  <1> USE QueryAssumption
      DEF TypeOK, PlaceInv, Untouched, ListenInv, Awaited, Engaged,
          serverVars, workerVars, historyVars
  <1>1. ASSUME NEW q \in Query, Subscribe(q) PROVE ListenInv'
    BY <1>1 DEF Subscribe
  <1>2. ASSUME NEW q \in Query, EncodeFails(q) PROVE ListenInv'
    BY <1>2 DEF EncodeFails
  <1>3. ASSUME NEW q \in Query, Push(q) PROVE ListenInv'
    BY <1>3 DEF Push
  <1>4. ASSUME NEW q \in Query, PushFails(q) PROVE ListenInv'
    BY <1>4 DEF PushFails
  <1>5. ASSUME NEW q \in Query, Notify(q) PROVE ListenInv'
    BY <1>5 DEF Notify
  <1>6. ASSUME NEW q \in Query, NotifyFails(q) PROVE ListenInv'
    BY <1>6 DEF NotifyFails
  <1>7. ASSUME NEW q \in Query, Abandon(q) PROVE ListenInv'
    BY <1>7 DEF Abandon
  <1>8. ASSUME NEW q \in Query, Receive(q) PROVE ListenInv'
    BY <1>8 DEF Receive
  <1>9. ASSUME NEW q \in Query, Timeout(q) PROVE ListenInv'
    BY <1>9 DEF Timeout
  <1>10. ASSUME NEW q \in Query, Get(q) PROVE ListenInv'
    BY <1>10 DEF Get
  <1>11. ASSUME NEW q \in Query, GetFails(q) PROVE ListenInv'
    BY <1>11 DEF GetFails
  <1>12. ASSUME NEW q \in Query, Deliver(q) PROVE ListenInv'
    BY <1>12 DEF Deliver
  <1>13. ASSUME NEW q \in Query, Close(q) PROVE ListenInv'
    BY <1>13 DEF Close
  <1>14. ASSUME NEW q \in Query, SubscriptionActive(q) PROVE ListenInv'
    BY <1>14 DEF SubscriptionActive
  <1>15. ASSUME NEW q \in Query, SubscriptionLost(q) PROVE ListenInv'
    BY <1>15 DEF SubscriptionLost
  <1>16. ASSUME NEW w \in Worker, Tick(w) PROVE ListenInv'
    BY <1>16, HasJob DEF Tick
  <1>17. ASSUME NEW w \in Worker, OnNewQuery(w) PROVE ListenInv'
    BY <1>17, HasJob DEF OnNewQuery
  <1>18. ASSUME NEW w \in Worker, DequeueEmpty(w) PROVE ListenInv'
    BY <1>18, HasJob DEF DequeueEmpty
  <1>19. ASSUME NEW w \in Worker, Dequeue(w) PROVE ListenInv'
    BY <1>19, HasJob DEF Dequeue
  <1>20. ASSUME NEW w \in Worker, DequeueFails(w) PROVE ListenInv'
    BY <1>20, HasJob DEF DequeueFails
  <1>21. ASSUME NEW w \in Worker, CheckActive(w) PROVE ListenInv'
    BY <1>21, HasJob DEF CheckActive
  <1>22. ASSUME NEW w \in Worker, CheckInactive(w) PROVE ListenInv'
    BY <1>22, HasJob DEF CheckInactive, Finish
  <1>23. ASSUME NEW w \in Worker, CheckFails(w) PROVE ListenInv'
    BY <1>23, HasJob DEF CheckFails, Finish
  <1>24. ASSUME NEW w \in Worker, Run(w) PROVE ListenInv'
    BY <1>24, HasJob DEF Run
  <1>25. ASSUME NEW w \in Worker, Panic(w) PROVE ListenInv'
    BY <1>25, HasJob DEF Panic
  <1>26. ASSUME NEW w \in Worker, Store(w) PROVE ListenInv'
    BY <1>26, HasJob DEF Store
  <1>27. ASSUME NEW w \in Worker, Announce(w) PROVE ListenInv'
    <2>1. job[w] \in Query
      BY <1>27, HasJob DEF Announce
    <2>3. ASSUME NEW q \in Query,
                 fate'[q] = "published", Awaited(q)', q \notin lapsed'
          PROVE  inbox'[q]
      <3>1. CASE q = job[w]
        <4>1. sub[q] = "active"
          BY <1>27, <2>1, <2>3, <3>1 DEF Announce
        <4>2. inbox' = [inbox EXCEPT ![q] = inbox[q] \/ sub[q] = "active"]
          BY <1>27, <3>1, Zenon DEF Announce, Announcement
        <4>3. inbox'[q] = (inbox[q] \/ sub[q] = "active")
          <5>1. DOMAIN inbox = Query
            OBVIOUS
          <5>. QED
            BY <4>2, <5>1, Zenon
        <4>. QED
          BY <4>1, <4>3, Zenon
      <3>2. CASE q # job[w]
        BY <1>27, <2>1, <2>3, <3>2 DEF Announce, Announcement, Finish
      <3>. QED
        BY <3>1, <3>2
    <2>4. ASSUME NEW v \in Worker, phase'[v] \in Engaged,
                 Awaited(job[v])', job'[v] \notin lapsed'
          PROVE  sub'[job'[v]] = "active"
      BY <1>27, <2>1, <2>4 DEF Announce, Finish
    <2>. QED
      BY <2>3, <2>4
  <1>28. ASSUME NEW w \in Worker, PublishFails(w) PROVE ListenInv'
    BY <1>28, HasJob DEF PublishFails, SetMaybe, AnnounceMaybe, Announcement
  <1>29. ASSUME NEW w \in Worker, PublishErrorFails(w) PROVE ListenInv'
    BY <1>29, HasJob DEF PublishErrorFails, SetMaybe, AnnounceMaybe, Announcement, Finish
  <1>30. ASSUME NEW w \in Worker, Restart(w) PROVE ListenInv'
    BY <1>30, HasJob DEF Restart
  <1>31. ASSUME NEW w \in Worker, Crash(w) PROVE ListenInv'
    BY <1>31, HasJob DEF Crash
  <1>32. CASE ServerStops
    <2>1. \A q \in Query : gor'[q] # "select" /\ call'[q] # "push"
      BY <1>32 DEF ServerStops
    <2>2. \A w \in Worker : phase'[w] \in Engaged => job'[w] \in Query
      BY <1>32, HasJob DEF ServerStops
    <2>. QED
      BY <2>1, <2>2
  <1>33. CASE ServerStarts
    BY <1>33 DEF ServerStarts
  <1>34. CASE UNCHANGED vars
    BY <1>34 DEF vars
  <1>35. ASSUME NEW q \in Query, PushAgain(q) PROVE ListenInv'
    BY <1>35 DEF PushAgain
  <1>36. ASSUME NEW q \in Query, NotifyAgain(q) PROVE ListenInv'
    BY <1>36 DEF NotifyAgain
  <1>37. ASSUME NEW w \in Worker, DequeueAgain(w) PROVE ListenInv'
    BY <1>37, HasJob DEF DequeueAgain
  <1>38. ASSUME NEW w \in Worker, PublishAgain(w) PROVE ListenInv'
    BY <1>38, HasJob DEF PublishAgain, Announcement
  <1>39. ASSUME NEW q \in Query, Log(q) PROVE ListenInv'
    BY <1>39 DEF Log
  <1>. QED
    BY <1>1, <1>2, <1>3, <1>4, <1>5, <1>6, <1>7, <1>8, <1>9, <1>10, <1>11, <1>12, <1>13,
       <1>14, <1>15, <1>16, <1>17, <1>18, <1>19, <1>20, <1>21, <1>22, <1>23, <1>24, <1>25,
       <1>26, <1>27, <1>28, <1>29, <1>30, <1>31, <1>32, <1>33, <1>34, <1>35, <1>36, <1>37,
       <1>38, <1>39
    DEF Next, Handler, Goroutine, Working, Subscription, WorkerStep

(* For any number of calls, workers and failures, a goroutine that still   *)
(* waits has been notified of a published answer, unless its connection to *)
(* Redis was lost.                                                         *)
THEOREM PublishedReaches == Spec => []PublishedReachesCaller
  <1>1. ListenInv => PublishedReachesCaller
    BY DEF ListenInv, Awaited, PublishedReachesCaller
  <1>. QED
    BY <1>1, ListenInit, ListenStep, PlaceInit, PlaceStep, Typing, PTL DEF Spec
-------------------------------------------------------------------------------
(* A worker does not start a query that has been forgotten.                *)

LEMMA ClosedInit == Init => ClosedInv
  <1>1. ASSUME Init, NEW q \in Query PROVE call[q] = "idle" /\ gor[q] = "none"
    BY <1>1 DEF Init
  <1>. QED
    BY <1>1 DEF ClosedInv, Forgotten

LEMMA ClosedStep == TypeOK /\ TypeOK' /\ PlaceInv /\ ClosedInv /\ [Next]_vars => ClosedInv'
  <1> SUFFICES ASSUME TypeOK, TypeOK', PlaceInv, ClosedInv, [Next]_vars PROVE ClosedInv'
    OBVIOUS
  <1>0. /\ call \in [Query -> CallState] /\ gor \in [Query -> GorState]
        /\ sub \in [Query -> SubState]
        /\ \A q \in Query : call[q] \in {"idle", "push"} => gor[q] = "none"
    BY DEF TypeOK, PlaceInv
  <1> USE <1>0 DEF ClosedInv, Forgotten, serverVars
  <1>1. ASSUME NEW q \in Query, Subscribe(q) PROVE ClosedInv'
    BY <1>1 DEF Subscribe
  <1>2. ASSUME NEW q \in Query, EncodeFails(q) PROVE ClosedInv'
    BY <1>2 DEF EncodeFails
  <1>3. ASSUME NEW q \in Query, Push(q) PROVE ClosedInv'
    BY <1>3 DEF Push
  <1>4. ASSUME NEW q \in Query, PushFails(q) PROVE ClosedInv'
    BY <1>4 DEF PushFails
  <1>5. ASSUME NEW q \in Query, Notify(q) PROVE ClosedInv'
    BY <1>5 DEF Notify
  <1>6. ASSUME NEW q \in Query, NotifyFails(q) PROVE ClosedInv'
    BY <1>6 DEF NotifyFails
  <1>7. ASSUME NEW q \in Query, Abandon(q) PROVE ClosedInv'
    BY <1>7 DEF Abandon
  <1>8. ASSUME NEW q \in Query, Receive(q) PROVE ClosedInv'
    BY <1>8 DEF Receive
  <1>9. ASSUME NEW q \in Query, Timeout(q) PROVE ClosedInv'
    BY <1>9 DEF Timeout
  <1>10. ASSUME NEW q \in Query, Get(q) PROVE ClosedInv'
    BY <1>10 DEF Get
  <1>11. ASSUME NEW q \in Query, GetFails(q) PROVE ClosedInv'
    BY <1>11 DEF GetFails
  <1>12. ASSUME NEW q \in Query, Deliver(q) PROVE ClosedInv'
    BY <1>12 DEF Deliver
  <1>13. ASSUME NEW q \in Query, Log(q) PROVE ClosedInv'
    BY <1>13 DEF Log
  <1>14. ASSUME NEW q \in Query, Close(q) PROVE ClosedInv'
    BY <1>14 DEF Close
  <1>15. ASSUME NEW q \in Query, SubscriptionActive(q) PROVE ClosedInv'
    BY <1>15 DEF SubscriptionActive
  <1>16. ASSUME NEW q \in Query, SubscriptionLost(q) PROVE ClosedInv'
    BY <1>16 DEF SubscriptionLost
  <1>17. ASSUME NEW q \in Query, PushAgain(q) PROVE ClosedInv'
    BY <1>17 DEF PushAgain
  <1>18. ASSUME NEW q \in Query, NotifyAgain(q) PROVE ClosedInv'
    BY <1>18 DEF NotifyAgain
  <1>19. ASSUME NEW w \in Worker, Tick(w) PROVE ClosedInv'
    BY <1>19 DEF Tick
  <1>20. ASSUME NEW w \in Worker, OnNewQuery(w) PROVE ClosedInv'
    BY <1>20 DEF OnNewQuery
  <1>21. ASSUME NEW w \in Worker, DequeueEmpty(w) PROVE ClosedInv'
    BY <1>21 DEF DequeueEmpty
  <1>22. ASSUME NEW w \in Worker, Dequeue(w) PROVE ClosedInv'
    BY <1>22 DEF Dequeue
  <1>23. ASSUME NEW w \in Worker, DequeueFails(w) PROVE ClosedInv'
    BY <1>23 DEF DequeueFails
  <1>24. ASSUME NEW w \in Worker, DequeueAgain(w) PROVE ClosedInv'
    BY <1>24 DEF DequeueAgain
  <1>25. ASSUME NEW w \in Worker, CheckActive(w) PROVE ClosedInv'
    BY <1>25 DEF CheckActive
  <1>26. ASSUME NEW w \in Worker, CheckInactive(w) PROVE ClosedInv'
    BY <1>26 DEF CheckInactive
  <1>27. ASSUME NEW w \in Worker, CheckFails(w) PROVE ClosedInv'
    BY <1>27 DEF CheckFails
  <1>28. ASSUME NEW w \in Worker, Run(w) PROVE ClosedInv'
    BY <1>28 DEF Run
  <1>29. ASSUME NEW w \in Worker, Panic(w) PROVE ClosedInv'
    BY <1>29 DEF Panic
  <1>30. ASSUME NEW w \in Worker, Store(w) PROVE ClosedInv'
    BY <1>30 DEF Store
  <1>31. ASSUME NEW w \in Worker, Announce(w) PROVE ClosedInv'
    BY <1>31 DEF Announce
  <1>32. ASSUME NEW w \in Worker, PublishFails(w) PROVE ClosedInv'
    BY <1>32 DEF PublishFails
  <1>33. ASSUME NEW w \in Worker, PublishErrorFails(w) PROVE ClosedInv'
    BY <1>33 DEF PublishErrorFails
  <1>34. ASSUME NEW w \in Worker, PublishAgain(w) PROVE ClosedInv'
    BY <1>34 DEF PublishAgain
  <1>35. ASSUME NEW w \in Worker, Restart(w) PROVE ClosedInv'
    BY <1>35 DEF Restart
  <1>36. ASSUME NEW w \in Worker, Crash(w) PROVE ClosedInv'
    BY <1>36 DEF Crash
  <1>37. CASE ServerStops
    BY <1>37 DEF ServerStops
  <1>38. CASE ServerStarts
    BY <1>38 DEF ServerStarts
  <1>39. CASE UNCHANGED vars
    BY <1>39 DEF vars
  <1>. QED
    BY <1>1, <1>2, <1>3, <1>4, <1>5, <1>6, <1>7, <1>8, <1>9, <1>10, <1>11, <1>12, <1>13,
       <1>14, <1>15, <1>16, <1>17, <1>18, <1>19, <1>20, <1>21, <1>22, <1>23, <1>24, <1>25, <1>26,
       <1>27, <1>28, <1>29, <1>30, <1>31, <1>32, <1>33, <1>34, <1>35, <1>36, <1>37, <1>38, <1>39
    DEF Next, Handler, Goroutine, Working, Subscription, WorkerStep

(* Only a worker that has counted a subscriber begins a query.             *)
LEMMA BegunIfActive ==
  TypeOK /\ [Next]_vars => \A q \in Query : runs'[q] # runs[q] => sub[q] = "active"
  <1> SUFFICES ASSUME TypeOK, [Next]_vars, NEW p \in Query, runs'[p] # runs[p]
               PROVE  sub[p] = "active"
    OBVIOUS
  <1> USE DEF historyVars
  <1>1. ASSUME NEW q \in Query, Subscribe(q) PROVE FALSE
    BY <1>1 DEF Subscribe
  <1>2. ASSUME NEW q \in Query, EncodeFails(q) PROVE FALSE
    BY <1>2 DEF EncodeFails
  <1>3. ASSUME NEW q \in Query, Push(q) PROVE FALSE
    BY <1>3 DEF Push
  <1>4. ASSUME NEW q \in Query, PushFails(q) PROVE FALSE
    BY <1>4 DEF PushFails
  <1>5. ASSUME NEW q \in Query, Notify(q) PROVE FALSE
    BY <1>5 DEF Notify
  <1>6. ASSUME NEW q \in Query, NotifyFails(q) PROVE FALSE
    BY <1>6 DEF NotifyFails
  <1>7. ASSUME NEW q \in Query, Abandon(q) PROVE FALSE
    BY <1>7 DEF Abandon
  <1>8. ASSUME NEW q \in Query, Receive(q) PROVE FALSE
    BY <1>8 DEF Receive
  <1>9. ASSUME NEW q \in Query, Timeout(q) PROVE FALSE
    BY <1>9 DEF Timeout
  <1>10. ASSUME NEW q \in Query, Get(q) PROVE FALSE
    BY <1>10 DEF Get
  <1>11. ASSUME NEW q \in Query, GetFails(q) PROVE FALSE
    BY <1>11 DEF GetFails
  <1>12. ASSUME NEW q \in Query, Deliver(q) PROVE FALSE
    BY <1>12 DEF Deliver
  <1>13. ASSUME NEW q \in Query, Log(q) PROVE FALSE
    BY <1>13 DEF Log
  <1>14. ASSUME NEW q \in Query, Close(q) PROVE FALSE
    BY <1>14 DEF Close
  <1>15. ASSUME NEW q \in Query, SubscriptionActive(q) PROVE FALSE
    BY <1>15 DEF SubscriptionActive
  <1>16. ASSUME NEW q \in Query, SubscriptionLost(q) PROVE FALSE
    BY <1>16 DEF SubscriptionLost
  <1>17. ASSUME NEW q \in Query, PushAgain(q) PROVE FALSE
    BY <1>17 DEF PushAgain
  <1>18. ASSUME NEW q \in Query, NotifyAgain(q) PROVE FALSE
    BY <1>18 DEF NotifyAgain
  <1>19. ASSUME NEW w \in Worker, Tick(w) PROVE FALSE
    BY <1>19 DEF Tick
  <1>20. ASSUME NEW w \in Worker, OnNewQuery(w) PROVE FALSE
    BY <1>20 DEF OnNewQuery
  <1>21. ASSUME NEW w \in Worker, DequeueEmpty(w) PROVE FALSE
    BY <1>21 DEF DequeueEmpty
  <1>22. ASSUME NEW w \in Worker, Dequeue(w) PROVE FALSE
    BY <1>22 DEF Dequeue
  <1>23. ASSUME NEW w \in Worker, DequeueFails(w) PROVE FALSE
    BY <1>23 DEF DequeueFails
  <1>24. ASSUME NEW w \in Worker, DequeueAgain(w) PROVE FALSE
    BY <1>24 DEF DequeueAgain
  <1>25. ASSUME NEW w \in Worker, CheckActive(w) PROVE sub[p] = "active"
    <2>1. runs' = [runs EXCEPT ![job[w]] = @ + 1] /\ sub[job[w]] = "active"
      BY <1>25 DEF CheckActive
    <2>2. p = job[w]
      BY <2>1 DEF TypeOK
    <2>. QED
      BY <2>1, <2>2
  <1>26. ASSUME NEW w \in Worker, CheckInactive(w) PROVE FALSE
    BY <1>26 DEF CheckInactive
  <1>27. ASSUME NEW w \in Worker, CheckFails(w) PROVE FALSE
    BY <1>27 DEF CheckFails
  <1>28. ASSUME NEW w \in Worker, Run(w) PROVE FALSE
    BY <1>28 DEF Run
  <1>29. ASSUME NEW w \in Worker, Panic(w) PROVE FALSE
    BY <1>29 DEF Panic
  <1>30. ASSUME NEW w \in Worker, Store(w) PROVE FALSE
    BY <1>30 DEF Store
  <1>31. ASSUME NEW w \in Worker, Announce(w) PROVE FALSE
    BY <1>31 DEF Announce
  <1>32. ASSUME NEW w \in Worker, PublishFails(w) PROVE FALSE
    BY <1>32 DEF PublishFails
  <1>33. ASSUME NEW w \in Worker, PublishErrorFails(w) PROVE FALSE
    BY <1>33 DEF PublishErrorFails
  <1>34. ASSUME NEW w \in Worker, PublishAgain(w) PROVE FALSE
    BY <1>34 DEF PublishAgain
  <1>35. ASSUME NEW w \in Worker, Restart(w) PROVE FALSE
    BY <1>35 DEF Restart
  <1>36. ASSUME NEW w \in Worker, Crash(w) PROVE FALSE
    BY <1>36 DEF Crash
  <1>37. CASE ServerStops
    BY <1>37 DEF ServerStops
  <1>38. CASE ServerStarts
    BY <1>38 DEF ServerStarts
  <1>39. CASE UNCHANGED vars
    BY <1>39 DEF vars
  <1>. QED
    BY <1>1, <1>2, <1>3, <1>4, <1>5, <1>6, <1>7, <1>8, <1>9, <1>10, <1>11, <1>12, <1>13,
       <1>14, <1>15, <1>16, <1>17, <1>18, <1>19, <1>20, <1>21, <1>22, <1>23, <1>24, <1>25, <1>26,
       <1>27, <1>28, <1>29, <1>30, <1>31, <1>32, <1>33, <1>34, <1>35, <1>36, <1>37, <1>38, <1>39
    DEF Next, Handler, Goroutine, Working, Subscription, WorkerStep

(* For any number of calls, workers and failures, a query that nobody can  *)
(* be given the answer of any more is not begun, however late it is        *)
(* dequeued (worker/worker.go:215-227).                                    *)
THEOREM NotRunForNobody == Spec => ForgottenNotRun
  <1>1. TypeOK /\ ClosedInv /\ [Next]_vars =>
          [\A q \in Query : Forgotten(q) => runs'[q] = runs[q]]_vars
    BY BegunIfActive DEF ClosedInv
  <1>. QED
    BY <1>1, ClosedInit, ClosedStep, PlaceInit, PlaceStep, Typing, PTL DEF Spec, ForgottenNotRun
===============================================================================
