---------------------------- MODULE SplitCorpusInv ----------------------------
(***************************************************************************)
(* The inductive invariant behind the properties of SplitCorpus.  TLC      *)
(* evaluates it on the instance of SplitCorpus.cfg, SplitCorpus_proofs     *)
(* proves it.                                                              *)
(***************************************************************************)
EXTENDS SplitCorpus

(* How far a request is, and what it has responded.                        *)
ProgressInv ==
  /\ \A q \in Request : pc[q] # "done" => response[q] = "none"
  /\ \A r \in Splitter :
       /\ pc[r] \notin {"list", "remove"}
       /\ pc[r] = "start" => next[r] = 0
       /\ pc[r] = "write" /\ Accepted(r) => next[r] <= Ceil(size[r])

(* A split that is, or should be, in the directory.                        *)
Placed(r) == Complete(r) /\ Chunks(r) # {}

(* What a split nobody has disturbed finds there: while writing, and after *)
(* that.                                                                   *)
Own(r) ==
  /\ pc[r] = "write" =>
       \A i \in Index : file[i] = (IF i < next[r] THEN r ELSE NoFile) /\ data[i] \in {NoFile, r}
  /\ Placed(r) => \A i \in Index : file[i] = IF i \in Chunks(r) THEN r ELSE NoFile

OwnInv == \A r \in Splitter \ disturbed : Own(r)

(* Whoever is there while a split is being written is disturbed.           *)
Intrudes(s) ==
  /\ \A r \in Splitter \ {s} : pc[r] = "write" \/ Placed(r) => r \in disturbed
  /\ \A i \in Index : file[i] \in Splitter \ {s} => file[i] \in disturbed

IntrudeInv == \A s \in Splitter : pc[s] = "write" => Intrudes(s)

MixInv ==
  /\ NoMixedSplits
  /\ \A i \in Index : file[i] \in Splitter => pc[file[i]] # "start"

(* A job has been published once, for a chunk that has been written; one   *)
(* that is answered with a value is over and has left its files.           *)
JobOf(r, i) ==
  /\ job[r][i] # "none" => i \in Chunks(r) /\ (pc[r] = "dead" \/ Complete(r))
  /\ job[r][i] = "none" => answer[r][i] = "none"
  /\ pc[r] = "publish" /\ next[r] <= i => job[r][i] = "none"
  /\ answer[r][i] = "value" => job[r][i] = "ended"
  /\ answer[r][i] = "value" /\ Complete(r) /\ attrs[r] /\ r \notin disturbed => data[i] = r

JobInv ==
  /\ \A r \in Splitter, i \in Index : JobOf(r, i)
  /\ \A r \in Splitter : response[r] = "ok" => \A i \in Chunks(r) : answer[r][i] = "value"

(* What a deletion nobody has disturbed still has to remove.               *)
Removes(d) ==
  /\ pc[d] = "remove" => \A i \in Opened : <<"chunk", i>> \in todo[d]
  /\ response[d] = "ok" => Opened = {}

DeleteInv == \A d \in Deleter \ disturbed : Removes(d)

SplitInv ==
  TypeOK /\ ProgressInv /\ OwnInv /\ IntrudeInv /\ MixInv /\ JobInv /\ DeleteInv
===============================================================================
