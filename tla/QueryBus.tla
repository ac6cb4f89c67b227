------------------------------- MODULE QueryBus -------------------------------
(***************************************************************************)
(* The job queue between the API server and the worker processes:          *)
(* rdb/client.go (type Adapter) as called by the HTTP handlers on one side *)
(* and by worker/worker.go (type Worker) on the other.                     *)
(*                                                                         *)
(* A member of Query is one call of Adapter.PublishQuery, and stands for   *)
(* the unique result channel ("<prefix>:<uuid>") the call creates: the     *)
(* channel is the job's identity, the name of the PUBSUB channel on which  *)
(* the answer is announced, and the key under which it is stored.  Three   *)
(* kinds of actors touch a query: the handler that calls PublishQuery, the *)
(* goroutine PublishQuery starts, and the workers.  They share Redis.      *)
(*                                                                         *)
(* Every Redis command is a step of its own.  A command may fail, and a    *)
(* failed write may or may not have reached the server (its reply was      *)
(* lost).  By default the client library sends such a command once more    *)
(* (go-redis; NewAdapter leaves its MaxRetries alone), so that a write may *)
(* also be applied and then follow again: the actions ...Again.            *)
(* Failures, lost replies, lost connections and process crashes share the  *)
(* budget MaxFaults; everything else is unbounded, Query is finite.        *)
(***************************************************************************)
EXTENDS Naturals, Sequences

CONSTANTS
  Query,      \* calls of PublishQuery, each with its own result channel
  Worker,     \* worker processes (systemd: mquery-worker@1, @2, ...)
  NoQuery,    \* "the worker holds no job"
  Value,      \* the results of a function that did not fail, see Result
  ChannelSize, \* how many unread messages the client keeps for a worker (100)
  MaxFaults   \* bound on failures, lost connections and crashes

ASSUME QueryAssumption == NoQuery \notin Query
ASSUME ValueAssumption == Value \cap {"none", "error", "redisError", "timeout"} = {}
ASSUME ChannelAssumption == ChannelSize \in Nat
ASSUME FaultsAssumption == MaxFaults \in Nat

VARIABLES
  (* API server *)
  serverUp,   \* FALSE once the server process has ended
  call,       \* where the calling handler is in (or after) PublishQuery
  gor,        \* where the goroutine of the call is (273-349 of client.go);
              \* "log": it has been read and is in statusWriter.Write
  reply,      \* the WorkerResult the goroutine holds or has sent
  inbox,      \* a message waits in the Go channel sub.Channel()
  (* Redis *)
  sub,        \* the subscription to the result channel, as Redis sees it
  queue,      \* the list "mqueryQueue": LPUSHed on the right, RPOPped at Head
  store,      \* the key with the serialized WorkerResult
  (* workers *)
  phase,      \* where the worker is in tryNextQuery
  job,        \* the query it has dequeued
  result,     \* the FuncResult it is about to publish
  wakeups,    \* "newQuery" messages it has not consumed yet
  faults,     \* failures so far, at most MaxFaults
  (* history variables, read by the properties only *)
  runs,       \* how many times a worker has started to execute the query
  outcome,    \* what its executions ended with
  fate,       \* how the workers' side is done with the query
  lapsed,     \* queries whose subscription lost its connection while active
  resent      \* queries whose LPUSH has been sent again after it was applied

serverVars  == <<serverUp, call, gor, reply, inbox>>
workerVars  == <<phase, job, result, wakeups>>
historyVars == <<runs, outcome, fate, lapsed, resent>>
vars == <<serverVars, sub, queue, store, workerVars, faults, historyVars>>

-------------------------------------------------------------------------------
(* Domains.                                                                *)

(* A Value is a result without an error, or with one the user has to be    *)
(* told of (IsUserError, HasUserError is set).  "error": any other.        *)
Result == Value \cup {"error"}

(* Besides a worker's result, a caller may get one of two ErrorResults made *)
(* by the goroutine itself.                                                *)
Reply == Result \cup {"redisError", "timeout"}

CallState  == {"idle", "push", "notify", "wait", "failed", "answered", "gone"}
GorState   == {"none", "select", "get", "offer", "log", "closing", "ended"}
SubState   == {"none", "requested", "active", "closed"}
Phase      == {"idle", "dequeue", "check", "run", "store", "announce",
               "storeError", "announceError", "down"}
Fate       == {"open", "inactive", "lost", "published"}

(* Phases in which a worker is past the test of SomeoneListens.            *)
Engaged    == {"run", "store", "announce", "storeError", "announceError"}

Init ==
  /\ serverUp = TRUE
  /\ call    = [q \in Query |-> "idle"]
  /\ gor     = [q \in Query |-> "none"]
  /\ reply   = [q \in Query |-> "none"]
  /\ inbox   = [q \in Query |-> FALSE]
  /\ sub     = [q \in Query |-> "none"]
  /\ queue   = <<>>
  /\ store   = [q \in Query |-> "none"]
  /\ phase   = [w \in Worker |-> "idle"]
  /\ job     = [w \in Worker |-> NoQuery]
  /\ result  = [w \in Worker |-> "none"]
  /\ wakeups = [w \in Worker |-> 0]
  /\ faults  = 0
  /\ runs    = [q \in Query |-> 0]
  /\ outcome = [q \in Query |-> {}]
  /\ fate    = [q \in Query |-> "open"]
  /\ lapsed  = {}
  /\ resent  = {}

Fault   == faults < MaxFaults /\ faults' = faults + 1
NoFault == UNCHANGED faults

-------------------------------------------------------------------------------
(* The handler: PublishQuery, then a receive from the channel it returned. *)

(* The query cannot be serialized: PublishQuery returns before it touches  *)
(* Redis.                                                                  *)
EncodeFails(q) ==
  /\ serverUp /\ call[q] = "idle"
  /\ Fault
  /\ call' = [call EXCEPT ![q] = "failed"]
  /\ UNCHANGED <<serverUp, gor, reply, inbox, sub, queue, store, workerVars, historyVars>>

(* The SUBSCRIBE command is sent; the client does not wait for Redis to    *)
(* confirm it.                                                             *)
Subscribe(q) ==
  /\ serverUp /\ call[q] = "idle"
  /\ call' = [call EXCEPT ![q] = "push"]
  /\ sub'  = [sub EXCEPT ![q] = "requested"]
  /\ NoFault
  /\ UNCHANGED <<serverUp, gor, reply, inbox, queue, store, workerVars, historyVars>>

(* LPUSH succeeds, the channel is made and the goroutine started.          *)
Push(q) ==
  /\ call[q] = "push"
  /\ queue' = Append(queue, q)
  /\ call'  = [call EXCEPT ![q] = "notify"]
  /\ gor'   = [gor EXCEPT ![q] = "select"]
  /\ NoFault
  /\ UNCHANGED <<serverUp, reply, inbox, sub, store, workerVars, historyVars>>

(* LPUSH returns an error, applied or not: PublishQuery returns, and the   *)
(* subscription stays as it is with nobody to close it.                    *)
PushFails(q) ==
  /\ call[q] = "push"
  /\ Fault
  /\ queue' \in {queue, Append(queue, q)}
  /\ call'  = [call EXCEPT ![q] = "failed"]
  /\ UNCHANGED <<serverUp, gor, reply, inbox, sub, store, workerVars, historyVars>>

(* LPUSH is applied, its reply is lost, and the client sends it again:     *)
(* the query is in the list twice.                                         *)
PushAgain(q) ==
  /\ call[q] = "push"
  /\ Fault
  /\ queue'  = Append(queue, q)
  /\ resent' = resent \cup {q}
  /\ UNCHANGED <<serverVars, sub, store, workerVars, runs, outcome, fate, lapsed>>

(* PUBLISH "newQuery" reaches the workers that are up; the client library  *)
(* drops it where the channel is full.                                     *)
WakeWorkers ==
  wakeups' = [w \in Worker |->
    IF phase[w] = "down" \/ wakeups[w] = ChannelSize THEN wakeups[w] ELSE wakeups[w] + 1]

Notify(q) ==
  /\ call[q] = "notify"
  /\ WakeWorkers
  /\ call' = [call EXCEPT ![q] = "wait"]
  /\ NoFault
  /\ UNCHANGED <<serverUp, gor, reply, inbox, sub, queue, store, phase, job, result, historyVars>>

(* The last PUBLISH fails: its error is what PublishQuery returns, and     *)
(* every caller then drops the channel, although the query is queued and   *)
(* the goroutine is running.                                               *)
NotifyFails(q) ==
  /\ call[q] = "notify"
  /\ Fault
  /\ WakeWorkers \/ UNCHANGED wakeups
  /\ call' = [call EXCEPT ![q] = "failed"]
  /\ UNCHANGED <<serverUp, gor, reply, inbox, sub, queue, store, phase, job, result, historyVars>>

NotifyAgain(q) ==
  /\ call[q] = "notify"
  /\ Fault
  /\ WakeWorkers
  /\ UNCHANGED <<serverVars, sub, queue, store, phase, job, result, historyVars>>

(* A handler returns without reading the channel, because another query of *)
(* the same request has failed.                                            *)
Abandon(q) ==
  /\ call[q] = "wait"
  /\ call' = [call EXCEPT ![q] = "gone"]
  /\ NoFault
  /\ UNCHANGED <<serverUp, gor, reply, inbox, sub, queue, store, workerVars, historyVars>>

-------------------------------------------------------------------------------
(* The goroutine of PublishQuery.                                          *)

(* select takes the message; both cases may be ready, and then either wins. *)
Receive(q) ==
  /\ gor[q] = "select" /\ inbox[q]
  /\ inbox' = [inbox EXCEPT ![q] = FALSE]
  /\ gor'   = [gor EXCEPT ![q] = "get"]
  /\ NoFault
  /\ UNCHANGED <<serverUp, call, reply, sub, queue, store, workerVars, historyVars>>

(* Variant: customTimeout <= 0 taken for "no timeout" (cf. 250-252).       *)
TimeoutNeverFires(q) == gor[q] = "select" /\ FALSE

(* select takes the timer.                                                 *)
Timeout(q) ==
  /\ gor[q] = "select"
  /\ gor'   = [gor EXCEPT ![q] = "offer"]
  /\ reply' = [reply EXCEPT ![q] = "timeout"]
  /\ NoFault
  /\ UNCHANGED <<serverUp, call, inbox, sub, queue, store, workerVars, historyVars>>

(* GET of the stored result; a missing key is an error too (redis.Nil).    *)
Get(q) ==
  /\ gor[q] = "get"
  /\ gor'   = [gor EXCEPT ![q] = "offer"]
  /\ reply' = [reply EXCEPT ![q] = IF store[q] = "none" THEN "redisError" ELSE store[q]]
  /\ NoFault
  /\ UNCHANGED <<serverUp, call, inbox, sub, queue, store, workerVars, historyVars>>

(* Variant: the error of GET is not tested, the zero WorkerResult is sent. *)
GetFailsUnnoticed(q) ==
  /\ gor[q] = "get"
  /\ Fault
  /\ gor'   = [gor EXCEPT ![q] = "offer"]
  /\ \E r \in Value : reply' = [reply EXCEPT ![q] = r]
  /\ UNCHANGED <<serverUp, call, inbox, sub, queue, store, workerVars, historyVars>>

(* GET fails, the key has expired, or its content cannot be decoded.       *)
GetFails(q) ==
  /\ gor[q] = "get"
  /\ Fault
  /\ gor'   = [gor EXCEPT ![q] = "offer"]
  /\ reply' = [reply EXCEPT ![q] = "redisError"]
  /\ UNCHANGED <<serverUp, call, inbox, sub, queue, store, workerVars, historyVars>>

(* `ans <- wr` on an unbuffered channel: goroutine and handler meet.  The  *)
(* job is logged next, unless GET has failed: only of the errors that the  *)
(* goroutine calls "redisError" here, an undecodable result is logged.     *)
Deliver(q) ==
  /\ gor[q] = "offer" /\ call[q] = "wait"
  /\ \E next \in IF reply[q] = "redisError" THEN {"log", "closing"} ELSE {"log"} :
       gor' = [gor EXCEPT ![q] = next]
  /\ call' = [call EXCEPT ![q] = "answered"]
  /\ NoFault
  /\ UNCHANGED <<serverUp, reply, inbox, sub, queue, store, workerVars, historyVars>>

(* statusWriter.Write has handed the job over to the writer of the log     *)
(* table.  It is a send to a channel of that library: it waits for room,   *)
(* for ever if the library has stopped reading.                            *)
Log(q) ==
  /\ gor[q] = "log"
  /\ gor' = [gor EXCEPT ![q] = "closing"]
  /\ NoFault
  /\ UNCHANGED <<serverUp, call, reply, inbox, sub, queue, store, workerVars, historyVars>>

(* Variant: the deferred sub.Close is missing.                             *)
CloseKeepsSubscription(q) ==
  /\ gor[q] = "closing"
  /\ gor' = [gor EXCEPT ![q] = "ended"]
  /\ NoFault
  /\ UNCHANGED <<serverUp, call, reply, inbox, sub, queue, store, workerVars, historyVars>>

(* The goroutine returns: the deferred sub.Close and close(ans) run.       *)
Close(q) ==
  /\ gor[q] = "closing"
  /\ gor'   = [gor EXCEPT ![q] = "ended"]
  /\ sub'   = [sub EXCEPT ![q] = "closed"]
  /\ inbox' = [inbox EXCEPT ![q] = FALSE]
  /\ NoFault
  /\ UNCHANGED <<serverUp, call, reply, queue, store, workerVars, historyVars>>

(* The server process ends (SIGTERM, panic in a goroutine): handlers,      *)
(* goroutines and connections go with it, the Redis list does not.         *)
ServerStops ==
  /\ serverUp
  /\ Fault
  /\ serverUp' = FALSE
  /\ call'  = [q \in Query |-> IF call[q] \in {"push", "notify", "wait"} THEN "gone" ELSE call[q]]
  /\ gor'   = [q \in Query |-> IF gor[q] = "none" THEN "none" ELSE "ended"]
  /\ sub'   = [q \in Query |-> IF sub[q] = "none" THEN "none" ELSE "closed"]
  /\ inbox' = [q \in Query |-> FALSE]
  /\ UNCHANGED <<reply, queue, store, workerVars, historyVars>>

(* An operator starts it again.                                            *)
ServerStarts ==
  /\ ~serverUp
  /\ serverUp' = TRUE
  /\ NoFault
  /\ UNCHANGED <<call, gor, reply, inbox, sub, queue, store, workerVars, historyVars>>

-------------------------------------------------------------------------------
(* The result subscription inside Redis and its client (external).         *)

SubscriptionActive(q) ==
  /\ sub[q] = "requested"
  /\ sub' = [sub EXCEPT ![q] = "active"]
  /\ NoFault
  /\ UNCHANGED <<serverVars, queue, store, workerVars, historyVars>>

(* The connection breaks; the client reconnects and subscribes again, and  *)
(* what is published meanwhile is not delivered.                           *)
SubscriptionLost(q) ==
  /\ sub[q] = "active"
  /\ Fault
  /\ sub'    = [sub EXCEPT ![q] = "requested"]
  /\ lapsed' = lapsed \cup {q}
  /\ UNCHANGED <<serverVars, queue, store, workerVars, runs, outcome, fate, resent>>

-------------------------------------------------------------------------------
(* The worker.                                                             *)

(* Variant: the worker relies on the messages alone.                       *)
TickNever(w) == phase[w] = "idle" /\ FALSE

(* The ticker fires.                                                       *)
Tick(w) ==
  /\ phase[w] = "idle"
  /\ phase' = [phase EXCEPT ![w] = "dequeue"]
  /\ NoFault
  /\ UNCHANGED <<serverVars, sub, queue, store, job, result, wakeups, historyVars>>

(* Variant: a message is taken off a channel that has none.                *)
OnNewQueryUnguarded(w) ==
  /\ phase[w] = "idle"
  /\ phase'   = [phase EXCEPT ![w] = "dequeue"]
  /\ wakeups' = [wakeups EXCEPT ![w] = @ - 1]
  /\ NoFault
  /\ UNCHANGED <<serverVars, sub, queue, store, job, result, historyVars>>

(* A "newQuery" message arrives; one message, one call of tryNextQuery.    *)
OnNewQuery(w) ==
  /\ phase[w] = "idle" /\ wakeups[w] > 0
  /\ phase'   = [phase EXCEPT ![w] = "dequeue"]
  /\ wakeups' = [wakeups EXCEPT ![w] = @ - 1]
  /\ NoFault
  /\ UNCHANGED <<serverVars, sub, queue, store, job, result, historyVars>>

DequeueEmpty(w) ==
  /\ phase[w] = "dequeue" /\ queue = <<>>
  /\ phase' = [phase EXCEPT ![w] = "idle"]
  /\ NoFault
  /\ UNCHANGED <<serverVars, sub, queue, store, job, result, wakeups, historyVars>>

(* Variant: the element is read (LINDEX) instead of popped.                *)
DequeueByReading(w) ==
  /\ phase[w] = "dequeue" /\ queue # <<>>
  /\ job'   = [job EXCEPT ![w] = Head(queue)]
  /\ phase' = [phase EXCEPT ![w] = "check"]
  /\ NoFault
  /\ UNCHANGED <<serverVars, sub, queue, store, result, wakeups, historyVars>>

(* RPOP takes the oldest query.                                            *)
Dequeue(w) ==
  /\ phase[w] = "dequeue" /\ queue # <<>>
  /\ queue' = Tail(queue)
  /\ job'   = [job EXCEPT ![w] = Head(queue)]
  /\ phase' = [phase EXCEPT ![w] = "check"]
  /\ NoFault
  /\ UNCHANGED <<serverVars, sub, store, result, wakeups, historyVars>>

(* RPOP fails, and DequeueQuery calls that an empty queue; or the element  *)
(* was removed but its reply was lost or cannot be decoded.                *)
DequeueFails(w) ==
  /\ phase[w] = "dequeue"
  /\ Fault
  /\ phase' = [phase EXCEPT ![w] = "idle"]
  /\ \/ UNCHANGED <<queue, fate>>
     \/ /\ queue # <<>>
        /\ queue' = Tail(queue)
        /\ fate'  = [fate EXCEPT ![Head(queue)] = "lost"]
  /\ UNCHANGED <<serverVars, sub, store, job, result, wakeups, runs, outcome, lapsed, resent>>

(* RPOP is sent again: the worker goes on with the next query, and the     *)
(* element it has popped first is gone.                                    *)
DequeueAgain(w) ==
  /\ phase[w] = "dequeue" /\ queue # <<>>
  /\ Fault
  /\ queue' = Tail(queue)
  /\ fate'  = [fate EXCEPT ![Head(queue)] = "lost"]
  /\ UNCHANGED <<serverVars, sub, store, workerVars, runs, outcome, lapsed, resent>>

(* tryNextQuery ends with the job given up, one way or another.            *)
Finish(w, how) ==
  /\ phase'  = [phase EXCEPT ![w] = "idle"]
  /\ job'    = [job EXCEPT ![w] = NoQuery]
  /\ result' = [result EXCEPT ![w] = "none"]
  /\ fate'   = [fate EXCEPT ![job[w]] = how]

(* Variant: the job is run without asking who listens.                     *)
CheckNothing(w) ==
  /\ phase[w] = "check"
  /\ phase' = [phase EXCEPT ![w] = "run"]
  /\ runs'  = [runs EXCEPT ![job[w]] = @ + 1]
  /\ NoFault
  /\ UNCHANGED <<serverVars, sub, queue, store, job, result, wakeups, outcome, fate, lapsed, resent>>

(* NUMSUB counts a subscriber of the result channel: the job is run.       *)
CheckActive(w) ==
  /\ phase[w] = "check" /\ sub[job[w]] = "active"
  /\ phase' = [phase EXCEPT ![w] = "run"]
  /\ runs'  = [runs EXCEPT ![job[w]] = @ + 1]
  /\ NoFault
  /\ UNCHANGED <<serverVars, sub, queue, store, job, result, wakeups, outcome, fate, lapsed, resent>>

(* NUMSUB is 0: the query is dropped.                                      *)
CheckInactive(w) ==
  /\ phase[w] = "check" /\ sub[job[w]] # "active"
  /\ Finish(w, "inactive")
  /\ NoFault
  /\ UNCHANGED <<serverVars, sub, queue, store, wakeups, runs, outcome, lapsed, resent>>

(* NUMSUB fails: the query is dropped as well, and nobody is told.         *)
CheckFails(w) ==
  /\ phase[w] = "check"
  /\ Fault
  /\ Finish(w, "lost")
  /\ UNCHANGED <<serverVars, sub, queue, store, wakeups, runs, outcome, lapsed, resent>>

(* The function of the query returns a result, which may carry an error.   *)
Run(w) ==
  /\ phase[w] = "run"
  /\ \E r \in Result :
       /\ result'  = [result EXCEPT ![w] = r]
       /\ outcome' = [outcome EXCEPT ![job[w]] = @ \cup {r}]
  /\ phase' = [phase EXCEPT ![w] = "store"]
  /\ NoFault
  /\ UNCHANGED <<serverVars, sub, queue, store, job, wakeups, runs, fate, lapsed, resent>>

(* Variant: recover leaves ansErr unset, and an empty result goes out.     *)
PanicUnreported(w) ==
  /\ phase[w] = "run"
  /\ \E r \in Value : result' = [result EXCEPT ![w] = r]
  /\ outcome' = [outcome EXCEPT ![job[w]] = @ \cup {"error"}]
  /\ phase'   = [phase EXCEPT ![w] = "store"]
  /\ NoFault
  /\ UNCHANGED <<serverVars, sub, queue, store, job, wakeups, runs, fate, lapsed, resent>>

(* The function panics; the panic is recovered and becomes the error that  *)
(* tryNextQuery publishes.                                                 *)
Panic(w) ==
  /\ phase[w] = "run"
  /\ result'  = [result EXCEPT ![w] = "error"]
  /\ outcome' = [outcome EXCEPT ![job[w]] = @ \cup {"error"}]
  /\ phase'   = [phase EXCEPT ![w] = "storeError"]
  /\ NoFault
  /\ UNCHANGED <<serverVars, sub, queue, store, job, wakeups, runs, fate, lapsed, resent>>

(* PublishResult, first half: SET.                                         *)
Store(w) ==
  /\ \/ phase[w] = "store" /\ phase' = [phase EXCEPT ![w] = "announce"]
     \/ phase[w] = "storeError" /\ phase' = [phase EXCEPT ![w] = "announceError"]
  /\ store' = [store EXCEPT ![job[w]] = result[w]]
  /\ NoFault
  /\ UNCHANGED <<serverVars, sub, queue, job, result, wakeups, historyVars>>

(* PUBLISH on the result channel reaches the goroutine iff Redis knows the *)
(* subscription at that moment.                                            *)
Announcement(q) == inbox' = [inbox EXCEPT ![q] = @ \/ sub[q] = "active"]

(* PublishResult, second half: PUBLISH.                                    *)
Announce(w) ==
  /\ phase[w] \in {"announce", "announceError"}
  /\ Announcement(job[w])
  /\ Finish(w, "published")
  /\ NoFault
  /\ UNCHANGED <<serverUp, call, gor, reply, sub, queue, store, wakeups, runs, outcome, lapsed, resent>>

(* A SET or a PUBLISH whose error does not tell whether it was applied.    *)
SetMaybe(w)      == store' \in {store, [store EXCEPT ![job[w]] = result[w]]}
AnnounceMaybe(w) == Announcement(job[w]) \/ UNCHANGED inbox

(* SET or PUBLISH is applied, and sent again.                              *)
PublishAgain(w) ==
  /\ Fault
  /\ \/ phase[w] \in {"store", "storeError"}
        /\ store' = [store EXCEPT ![job[w]] = result[w]] /\ UNCHANGED inbox
     \/ phase[w] \in {"announce", "announceError"}
        /\ Announcement(job[w]) /\ UNCHANGED store
  /\ UNCHANGED <<serverUp, call, gor, reply, sub, queue, workerVars, historyVars>>

(* Variant: the error of SET is not tested, PUBLISH follows.               *)
PublishFailsUnnoticed(w) ==
  /\ Fault
  /\ phase[w] = "store" /\ SetMaybe(w)
  /\ phase' = [phase EXCEPT ![w] = "announce"]
  /\ UNCHANGED <<serverVars, sub, queue, job, result, wakeups, historyVars>>

(* PublishResult returns an error.  After the first attempt the same error *)
(* is published in a result of the job's type, which never succeeds: the   *)
(* error is an *fmt.wrapError, a type gob has not registered.  So what     *)
(* follows is the ErrorResult of tryNextQuery; if that fails as well, the  *)
(* failure is only logged.                                                 *)
PublishFails(w) ==
  /\ Fault
  /\ \/ phase[w] = "store" /\ SetMaybe(w) /\ UNCHANGED inbox
     \/ phase[w] = "announce" /\ AnnounceMaybe(w) /\ UNCHANGED store
  /\ phase'  = [phase EXCEPT ![w] = "storeError"]
  /\ result' = [result EXCEPT ![w] = "error"]
  /\ UNCHANGED <<serverUp, call, gor, reply, sub, queue, job, wakeups, historyVars>>

PublishErrorFails(w) ==
  /\ Fault
  /\ \/ phase[w] = "storeError" /\ SetMaybe(w) /\ UNCHANGED inbox
     \/ phase[w] = "announceError" /\ AnnounceMaybe(w) /\ UNCHANGED store
  /\ Finish(w, "lost")
  /\ UNCHANGED <<serverUp, call, gor, reply, sub, queue, wakeups, runs, outcome, lapsed, resent>>

(* The process ends: SIGTERM (main does not wait for the running job), an  *)
(* uncaught C++ exception, the kernel.  The job it held is gone.           *)
Crash(w) ==
  /\ phase[w] # "down"
  /\ Fault
  /\ phase'   = [phase EXCEPT ![w] = "down"]
  /\ job'     = [job EXCEPT ![w] = NoQuery]
  /\ result'  = [result EXCEPT ![w] = "none"]
  /\ wakeups' = [wakeups EXCEPT ![w] = 0]
  /\ fate'    = IF job[w] = NoQuery THEN fate ELSE [fate EXCEPT ![job[w]] = "lost"]
  /\ UNCHANGED <<serverVars, sub, queue, store, runs, outcome, lapsed, resent>>

(* systemd: Restart=always.                                                *)
Restart(w) ==
  /\ phase[w] = "down"
  /\ phase' = [phase EXCEPT ![w] = "idle"]
  /\ NoFault
  /\ UNCHANGED <<serverVars, sub, queue, store, job, result, wakeups, historyVars>>

-------------------------------------------------------------------------------
Handler(q) == Subscribe(q) \/ EncodeFails(q) \/ Push(q) \/ PushFails(q) \/ PushAgain(q)
              \/ Notify(q) \/ NotifyFails(q) \/ NotifyAgain(q) \/ Abandon(q)

(* What a goroutine does on its own or with its handler, and all it does.  *)
Working(q)   == Receive(q) \/ Timeout(q) \/ Get(q) \/ GetFails(q) \/ Deliver(q) \/ Close(q)
Goroutine(q) == Working(q) \/ Log(q)

Subscription(q) == SubscriptionActive(q) \/ SubscriptionLost(q)

WorkerStep(w) == Tick(w) \/ OnNewQuery(w)
                 \/ DequeueEmpty(w) \/ Dequeue(w) \/ DequeueFails(w) \/ DequeueAgain(w)
                 \/ CheckActive(w) \/ CheckInactive(w) \/ CheckFails(w)
                 \/ Run(w) \/ Panic(w)
                 \/ Store(w) \/ Announce(w) \/ PublishFails(w) \/ PublishErrorFails(w)
                 \/ PublishAgain(w) \/ Restart(w)

Next ==
  \/ \E q \in Query : Handler(q) \/ Goroutine(q) \/ Subscription(q)
  \/ \E w \in Worker : WorkerStep(w) \/ Crash(w)
  \/ ServerStops \/ ServerStarts

Spec == Init /\ [][Next]_vars

(* What the scheduling justifies: a handler inside PublishQuery and a      *)
(* goroutine run on (the timer does fire), Redis confirms subscriptions,   *)
(* and workers run on: the ticker fires, every job ends, a worker that has *)
(* gone down is started again.  Nobody has to make a call, to give up or   *)
(* to fail, and nothing makes the writer of the log take an entry.         *)
Fairness ==
  /\ \A q \in Query : /\ WF_vars(Push(q) \/ Notify(q))
                      /\ WF_vars(Working(q))
                      /\ WF_vars(SubscriptionActive(q))
  /\ \A w \in Worker : WF_vars(WorkerStep(w))

FairSpec == Spec /\ Fairness

-------------------------------------------------------------------------------
(* Properties.                                                             *)

TypeOK ==
  /\ serverUp \in BOOLEAN
  /\ call    \in [Query -> CallState]
  /\ gor     \in [Query -> GorState]
  /\ reply   \in [Query -> Reply \cup {"none"}]
  /\ inbox   \in [Query -> BOOLEAN]
  /\ sub     \in [Query -> SubState]
  /\ queue   \in Seq(Query)
  /\ store   \in [Query -> Result \cup {"none"}]
  /\ phase   \in [Worker -> Phase]
  /\ job     \in [Worker -> Query \cup {NoQuery}]
  /\ \A w \in Worker : (job[w] = NoQuery) <=> (phase[w] \in {"idle", "dequeue", "down"})
  /\ result  \in [Worker -> Result \cup {"none"}]
  /\ wakeups \in [Worker -> 0..ChannelSize]
  /\ faults  \in 0..MaxFaults
  /\ runs    \in [Query -> Nat]
  /\ outcome \in [Query -> SUBSET Result]
  /\ fate    \in [Query -> Fate]
  /\ lapsed  \in SUBSET Query
  /\ resent  \in SUBSET Query

(* No query is executed twice, or by two workers at a time, however        *)
(* dequeueing, crashes, restarts and failed commands interleave; unless    *)
(* the client has sent its LPUSH again, nothing else can duplicate it.     *)
(* (worker.go:197-244, client.go:266-270 and 356-370)                      *)
SingleExecution ==
  /\ \A q \in Query : q \notin resent => runs[q] <= 1
  /\ \A v, w \in Worker :
       job[v] = job[w] /\ job[v] # NoQuery /\ job[v] \notin resent => v = w

(* A goroutine still waiting for an answer that some worker has published  *)
(* without an error has the message in its channel: the answer cannot have *)
(* been announced to nobody, unless the connection was lost meanwhile.     *)
(* This is what testing SomeoneListens before the job, and closing the     *)
(* subscription only after the wait, is for.  (worker.go:215-229)          *)
PublishedReachesCaller ==
  \A q \in Query :
    fate[q] = "published" /\ gor[q] = "select" /\ q \notin lapsed => inbox[q]

(* Whoever has been told of a result finds it under its key: SET comes     *)
(* before PUBLISH on every path, the failing ones included.                *)
(* (client.go:390-397)                                                     *)
NotifiedFindsResult ==
  \A q \in Query : inbox[q] \/ gor[q] = "get" => store[q] # "none"

(* What a caller is given is the result of its job, or of one of its       *)
(* executions should it be duplicated; the worker's generic error can      *)
(* replace it only if something has failed, and an answer made from a job  *)
(* that has not been executed does not exist.                              *)
(* (client.go:280-348, worker.go:94-195 and 229-243)                       *)
HonestAnswer ==
  \A q \in Query : reply[q] \in Result \cup {"redisError"} =>
    /\ reply[q] \in Value => reply[q] \in outcome[q]
    /\ outcome[q] # {}
    /\ faults = 0 => reply[q] \in outcome[q]

(* No query stays in the Redis list for ever, even if the message about it *)
(* was lost or reached no worker: the ticker polls.  (worker.go:47-63)     *)
QueueDrains ==
  \A q \in Query : (\E i \in DOMAIN queue : queue[i] = q)
                    ~> ~(\E i \in DOMAIN queue : queue[i] = q)

(* The goroutine of a call ends and its subscription is closed, unless it  *)
(* stays for ever in one of two places: it offers an answer that nobody    *)
(* reads (PublishQuery has returned an error, or the handler has left), or *)
(* it waits for the writer of the log.  (client.go:274-345)                *)
Leaked(q) ==
  \/ gor[q] = "offer" /\ call[q] \in {"failed", "gone"}
  \/ gor[q] = "log"

ListenerReleased ==
  \A q \in Query : gor[q] # "none" ~> (gor[q] = "ended" /\ sub[q] = "closed") \/ []Leaked(q)

(* Nobody starts to execute a query whose goroutine has ended, because of  *)
(* its timeout for instance, or whose server stopped before starting one,  *)
(* however late the query is dequeued.  (A query whose LPUSH was applied    *)
(* although it failed is not forgotten in this sense: it has no goroutine, *)
(* and nothing closes its subscription.)  (worker.go:215-227;              *)
(* client.go:267-277)                                                      *)
Forgotten(q) == gor[q] = "ended" \/ (gor[q] = "none" /\ call[q] = "gone")

ForgottenNotRun == [][\A q \in Query : Forgotten(q) => runs'[q] = runs[q]]_vars

(* The calls as their callers see them.                                    *)
CallerView(c) ==
  CASE c = "idle"                        -> "new"
    [] c \in {"push", "notify", "wait"} -> "open"
    [] c = "failed"                      -> "refused"
    [] c = "answered"                    -> "answered"
    [] c = "gone"                        -> "left"

callStatus == [q \in Query |-> CallerView(call[q])]
callAnswer == [q \in Query |-> IF call[q] = "answered" THEN reply[q] ELSE "none"]

Service == INSTANCE QueryService
             WITH status <- callStatus, exec <- outcome, answer <- callAnswer,
                  repeated <- resent

(* The job queue implements QueryService: every step of a handler, a       *)
(* goroutine or a worker is a step a caller is promised, or none at all.   *)
(* (client.go:243-247)                                                     *)
ImplementsService == Service!SvcSpec

(* ... and its promise of progress: whoever waits for an answer gets one,  *)
(* or has itself given up, because the timer covers dropped queries, dead  *)
(* workers and lost messages.  (client.go:275-345)                         *)
ServiceProgress == Service!SvcFairSpec

(* "The error returned by this method means that the publishing itself     *)
(* failed." (client.go:246-247): a query whose LPUSH succeeded, so that    *)
(* its goroutine was started, but whose caller was given an error, is not  *)
(* executed all the same.                                                  *)
ErrorMeansUnpublished ==
  \A q \in Query : call[q] = "failed" /\ gor[q] # "none" => runs[q] = 0

(* "If false, then there is nobody interested in the query anymore."       *)
(* (client.go:234-235): no query is dropped as inactive while its caller   *)
(* still waits.                                                            *)
InactiveMeansNobody ==
  \A q \in Query : fate[q] = "inactive" => ~(call[q] = "wait" /\ gor[q] = "select")
===============================================================================
