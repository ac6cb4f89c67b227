------------------------------ MODULE QueryBusInv -----------------------------
(***************************************************************************)
(* The inductive invariants behind the safety properties of QueryBus, each *)
(* inductive relative to TypeOK and to the ones before it.  TLC evaluates  *)
(* them through QueryBusMC, QueryBus_proofs proves them.                   *)
(***************************************************************************)
EXTENDS QueryBus

(* A call that has not reached LPUSH has left no trace at the workers.     *)
Untouched(q) ==
  /\ \A i \in 1..Len(queue) : queue[i] # q
  /\ \A w \in Worker : job[w] # q
  /\ runs[q] = 0
  /\ outcome[q] = {}
  /\ fate[q] = "open"

(* A query whose LPUSH has not been sent again is in one place: before     *)
(* LPUSH, in the list, with one worker, or done with.  Its execution       *)
(* begins and ends at most once.                                           *)
PlaceInv ==
  /\ \A q \in Query : call[q] = "idle" => Untouched(q)
  /\ \A q \in Query : call[q] = "push" /\ q \notin resent => Untouched(q)
  /\ \A q \in Query : call[q] \in {"idle", "push"} => gor[q] = "none"
  /\ \A i, j \in 1..Len(queue) : queue[i] = queue[j] /\ queue[i] \notin resent => i = j
  /\ \A i \in 1..Len(queue) : queue[i] \notin resent =>
       /\ runs[queue[i]] = 0 /\ outcome[queue[i]] = {}
       /\ \A w \in Worker : job[w] # queue[i]
  /\ \A v, w \in Worker :
       job[v] = job[w] /\ job[v] # NoQuery /\ job[v] \notin resent => v = w
  /\ \A w \in Worker : job[w] \notin resent =>
       /\ phase[w] = "check" => runs[job[w]] = 0
       /\ phase[w] \in {"check", "run"} => outcome[job[w]] = {}
  /\ \A q \in Query : q \notin resent => runs[q] <= 1

(* r may be stored for q, or handed to its caller.                         *)
Faithful(q, r) ==
  /\ outcome[q] # {}
  /\ r \in Value => r \in outcome[q]
  /\ faults = 0 => r \in outcome[q]

(* The goroutine offers a reply it has, and the caller is answered only    *)
(* then.                                                                   *)
OfferInv ==
  \A q \in Query :
    /\ gor[q] = "offer" => reply[q] # "none"
    /\ gor[q] \in {"none", "select", "get", "offer"} => call[q] # "answered"

(* Results are stored before they are announced, and they are faithful on  *)
(* their whole way from the worker to the caller.                          *)
AnswerInv ==
  /\ \A w \in Worker : phase[w] \in {"store", "announce", "storeError", "announceError"}
       => result[w] # "none" /\ Faithful(job[w], result[w])
  /\ \A w \in Worker : phase[w] \in {"announce", "announceError"} => store[job[w]] # "none"
  /\ \A q \in Query : store[q] # "none" => Faithful(q, store[q])
  /\ NotifiedFindsResult
  /\ HonestAnswer
  /\ OfferInv

(* The goroutine waits, or is still to be started.                         *)
Awaited(q) == gor[q] = "select" \/ call[q] = "push"

(* While a worker is past the test of SomeoneListens, a goroutine waiting  *)
(* for the job is subscribed, unless its connection has been lost.         *)
ListenInv ==
  /\ \A w \in Worker : LET q == job[w] IN
       phase[w] \in Engaged /\ Awaited(q) /\ q \notin lapsed => sub[q] = "active"
  /\ \A q \in Query : fate[q] = "published" /\ Awaited(q) /\ q \notin lapsed => inbox[q]

(* A call subscribes before it LPUSHes and starts its goroutine, and a     *)
(* forgotten query is unsubscribed.                                        *)
ClosedInv ==
  \A q \in Query :
    /\ call[q] = "push" => sub[q] # "none"
    /\ call[q] \in {"notify", "wait"} => gor[q] # "none"
    /\ gor[q] # "none" => sub[q] # "none"
    /\ Forgotten(q) => sub[q] = "closed"
===============================================================================
