------------------------------- MODULE FanOutInv -------------------------------
(***************************************************************************)
(* The inductive invariant behind the safety properties of FanOut.  TLC    *)
(* evaluates it on the instance of FanOut.cfg, FanOut_proofs proves it.    *)
(***************************************************************************)
EXTENDS FanOut

(* The handler is between wg.Add and its response.                         *)
Begun == pc \in {"publish", "append"} \/ response \in {"ok", "badRequest", "serverError"}

(* wg.Done has been called for the job.                                    *)
Finished(j) ==
  \/ gor[j] = "done"
  \/ gor[j] = "failed" /\ kind # "freqs" /\ ~(pc = "append" /\ j = next)

(* The WaitGroup counts the jobs that are not finished.                    *)
Unfinished == {j \in Job : ~Finished(j)}

WaitInv == Begun => wg = Cardinality(Unfinished)

(* The loop has started the goroutines of the jobs before next.            *)
LoopInv ==
  /\ \A j \in Job : gor[j] = "none" <=> j > next \/ (j = next /\ pc # "append")
  /\ pc = "append" => gor[next] = "failed" /\ kind # "freqs"
  /\ pc = "start" => next = 1
  /\ \A j \in Job : gor[j] \in {"none", "failed", "wait"} <=> answer[j] = "none"
  /\ \A j \in Job : answer[j] \in Answers(kind) \cup {"none"}
  /\ \A j \in Job : gor[j] \in {"errs", "append"} <=> todo[j] > 0

(* A complaint, once made, is visible in the length of the slice, even if  *)
(* it has been overwritten since.                                          *)
ErrsInv ==
  \A j \in Job :
    \/ gor[j] = "failed" /\ Finished(j)
    \/ gor[j] \in {"lock", "merge", "leave", "done"} /\ Complaints(kind, answer[j]) > 0
    => errs > 0

(* The lock works, and what a finished job had to add is in the result.    *)
MergeInv ==
  /\ \A j \in Job : gor[j] = "merge" => holder = j /\ copy = merged
  /\ \A j \in Job : gor[j] \in {"lock", "merge"} => Merges(kind, answer[j])
  /\ \A j \in Job : j \in merged <=>
       gor[j] \in {"leave", "done"} /\ Merges(kind, answer[j]) /\ HasData(answer[j])

(* The flag says what the answers say.                                     *)
FlagInv == userErr <=> kind = "overview" /\ \E j \in Job : answer[j] = "userError"

(* What the response was made of.                                          *)
OverInv ==
  /\ pc = "over" <=> response # "none"
  /\ response = "rejected" => \A j \in Job : gor[j] = "none"
  /\ response \in {"ok", "badRequest", "serverError"} =>
       /\ next \notin Job
       /\ \A j \in Job : Finished(j)
       /\ response = "ok" <=> kind = "freqs" \/ errs = 0
       /\ response = "badRequest" <=> kind = "overview" /\ errs > 0 /\ userErr

FanInv == WaitInv /\ LoopInv /\ ErrsInv /\ MergeInv /\ FlagInv /\ OverInv
===============================================================================
