---------------------------- MODULE CollExamplesInv ----------------------------
(***************************************************************************)
(* The inductive invariant behind the properties of Handlers and           *)
(* CollExamples.  TLC evaluates it on the instance of CollExamples.cfg,    *)
(* CollExamples_proofs proves it.                                          *)
(***************************************************************************)
EXTENDS CollExamples

JobRecord == [func : Functions, arg : SUBSET Unusual,
              subc : {"whole", "saved", "path"}, end : End \cup {"pending"}]

DomainInv ==
  TypeOK /\ jobs \in Seq(JobRecord) /\ responses \in Seq({200, 400, 404, 422, 500})

(* A job asks what the request asks, and ends as its function can.         *)
MadeOfRequest(j) ==
  /\ j.func = Handler[kind].func /\ j.subc = Subcorpus(kind) /\ j.arg \subseteq PassedOn(kind)
  /\ j.end # "pending" => j.end \in Ends(j.func, j.arg) \cup {"error"}

JobsInv == \A i \in DOMAIN jobs : MadeOfRequest(jobs[i])

AllEnded(end) == \A i \in DOMAIN jobs : jobs[i].end = end

(* A handler with one job at a time.  What its response says of the jobs.  *)
ResponseIsRight ==
  /\ Final = 200 => AllEnded("value")
  /\ Final = 400 => Last.end = "userError"
  /\ Final = 500 => failed \/ FormsOfWords \/ Last.end \in {"error", "panic"}
  /\ ~failed => \A i \in DOMAIN jobs : jobs[i].end # "pending"

SequentialInv ==
  Sequential =>
    /\ pc \in {"check", "publish", "wait", "done"}
    /\ pc = "check" => todo = 1 /\ jobs = <<>> /\ responses = <<>>
    /\ pc = "publish" => todo > 0 /\ AllEnded("value")
    /\ pc = "wait" => /\ jobs # <<>> /\ Last.end = "pending"
                      /\ \A i \in 1..(Len(jobs) - 1) : jobs[i].end = "value"
    /\ pc = "done" => responses # <<>> /\ (jobs # <<>> => ResponseIsRight)
    /\ kind # "termFrequency" =>
         /\ Len(responses) = (IF pc = "done" THEN 1 ELSE 0)
         /\ Refused => pc \in {"check", "done"} /\ jobs = <<>>

(* The two jobs of CollocationsExtended.                                   *)
StreamingInv ==
  Streaming =>
    /\ pc # "wait"
    /\ pc = "check" => jobs = <<>>
    /\ pc = "publish" => AllEnded("pending") /\ Len(jobs) \in {0, 1} /\ (Len(jobs) = 1 => cmpCorp)
    /\ pc = "first" => AllEnded("pending") /\ Len(jobs) = IF cmpCorp THEN 2 ELSE 1
    /\ pc = "second" => Len(jobs) = 2 /\ jobs[1].end = "value" /\ jobs[2].end = "pending"
    /\ pc \in {"list", "loop", "write"} => AllEnded("value")
    /\ NobodyLeftWaiting

(* The collocates that the result has an item of, and those whose          *)
(* goroutine has complained.                                               *)
Shown      == {c \in colls : item[c] # "none"}
Complained == {c \in colls : gor[c] = "done" /\ item[c] = "none"}

ExamplesInv ==
  /\ \A c \in Collocate : /\ gor[c] # "none" => c \in colls
                          /\ item[c] # "none" => gor[c] = "done"
  /\ intruders = Cardinality(Complained)
  /\ garbled => intruders > 0 /\ Cardinality(colls) > 1
  /\ Sequential \/ pc \in {"check", "publish", "first", "second", "list"} =>
       /\ event = {} /\ errors = 0 /\ events = (IF pc = "list" THEN 1 ELSE 0)
       /\ \A c \in Collocate : gor[c] = "none"
  /\ pc \in {"loop", "write"} => errors = 0 /\ events = 1 + Cardinality(event)
  /\ pc = "loop" => event = Shown
  /\ pc = "write" => \E c \in Shown : event = Shown \ {c}
  /\ pc = "done" => /\ \A c \in Collocate : gor[c] \in {"none", "done"}
                    /\ events > 0 /\ errors = 0 =>
                         /\ event = Shown /\ events = 1 + Cardinality(event)
                         /\ \A c \in colls : gor[c] = "done"

(* A request that is refused is told so first.                             *)
RefusalInv ==
  /\ pc = "check" => responses = <<>>
  /\ pc # "check" /\ Refused => responses # <<>> /\ Head(responses) # 200

HandlerInv == DomainInv /\ JobsInv /\ SequentialInv /\ StreamingInv /\ ExamplesInv /\ RefusalInv
===============================================================================
