----------------------------- MODULE QueryService -----------------------------
(***************************************************************************)
(* What the job queue promises to the code that calls                      *)
(* Adapter.PublishQuery, with Redis and the workers out of sight.          *)
(*                                                                         *)
(* A call is open until it is refused (PublishQuery returns an error),     *)
(* answered with exactly one WorkerResult, or left by its caller.  The     *)
(* query behind it is executed at most once unless the transport repeats   *)
(* it, possibly never, and possibly after the call is over.  The answer is *)
(* what an execution ended with, or an error; it is a worker's answer only *)
(* if the query was executed.                                              *)
(***************************************************************************)
CONSTANTS Query, Value

VARIABLES
  status,   \* where the call is
  exec,     \* what the executions of the query have ended with
  answer,   \* the WorkerResult the caller has received
  repeated  \* the queries the transport may have repeated

svcVars == <<status, exec, answer, repeated>>

Outcome == Value \cup {"error"}

SvcInit ==
  /\ status = [q \in Query |-> "new"]
  /\ exec   = [q \in Query |-> {}]
  /\ answer = [q \in Query |-> "none"]
  /\ repeated = {}

Request(q) ==
  /\ status[q] = "new"
  /\ status' = [status EXCEPT ![q] = "open"]
  /\ UNCHANGED <<exec, answer, repeated>>

Refuse(q) ==
  /\ status[q] \in {"new", "open"}
  /\ status' = [status EXCEPT ![q] = "refused"]
  /\ UNCHANGED <<exec, answer, repeated>>

Repeat(q) ==
  /\ status[q] = "open"
  /\ repeated' = repeated \cup {q}
  /\ UNCHANGED <<status, exec, answer>>

Execute(q) ==
  /\ status[q] # "new"
  /\ exec[q] = {} \/ q \in repeated
  /\ \E r \in Outcome : exec' = [exec EXCEPT ![q] = @ \cup {r}]
  /\ UNCHANGED <<status, answer, repeated>>

(* A worker's error may stand for a result that could not be published.    *)
PossibleAnswers(q) ==
  {"timeout"} \cup (IF exec[q] = {} THEN {} ELSE exec[q] \cup {"error", "redisError"})

Answer(q) ==
  /\ status[q] = "open"
  /\ \E r \in PossibleAnswers(q) : answer' = [answer EXCEPT ![q] = r]
  /\ status' = [status EXCEPT ![q] = "answered"]
  /\ UNCHANGED <<exec, repeated>>

(* One handler gives up, or the server process ends with several.          *)
Leave(S) ==
  /\ S # {} /\ \A q \in S : status[q] = "open"
  /\ status' = [q \in Query |-> IF q \in S THEN "left" ELSE status[q]]
  /\ UNCHANGED <<exec, answer, repeated>>

SvcNext ==
  \/ \E q \in Query : Request(q) \/ Refuse(q) \/ Repeat(q) \/ Execute(q) \/ Answer(q)
  \/ \E S \in SUBSET Query : Leave(S)

SvcSpec == SvcInit /\ [][SvcNext]_svcVars

(* An open call does not stay open.                                        *)
SvcFairSpec == SvcSpec /\ \A q \in Query : WF_svcVars(Answer(q))
===============================================================================
