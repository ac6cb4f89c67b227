-------------------------- MODULE SplitCorpus_proofs --------------------------
(***************************************************************************)
(* Safety of SplitCorpus for any requests, any size of the corpus and of   *)
(* the chunks, and any limit on their number.                              *)
(***************************************************************************)
EXTENDS SplitCorpusInv, FiniteSetTheorems, TLAPS

-------------------------------------------------------------------------------
(* Arithmetic: the pieces of a split tile the corpus.                      *)

(* Multiplication is monotonic.                                            *)
LEMMA Product ==
  ASSUME NEW a \in Int, NEW b \in Int, NEW n \in Nat, a <= b
  PROVE  a * n <= b * n
  OBVIOUS

(* A quotient is rounded down, for either sign.                            *)
LEMMA Quotient ==
  ASSUME NEW x \in Int, NEW n \in Nat \ {0}
  PROVE  /\ x \div n \in Int
         /\ (x \div n) * n <= x
         /\ x < (x \div n + 1) * n
  OBVIOUS

(* A quotient of two naturals is a natural number.                         *)
LEMMA QuotientIsPositive ==
  ASSUME NEW x \in Nat, NEW n \in Nat \ {0}
  PROVE  x \div n \in Nat
<1>1. x \div n \in Int /\ x < (x \div n + 1) * n
  BY Quotient
<1>2. CASE x \div n < 0
  <2>1. x \div n + 1 <= 0
    BY <1>1, <1>2
  <2>2. (x \div n + 1) * n <= 0 * n
    BY <1>1, <2>1, Product
  <2> QED
    BY <1>1, <2>2
<1> QED
  BY <1>1, <1>2

(* Only a positive chunk size gives any chunks.                            *)
LEMMA SomeChunks ==
  ASSUME NEW r \in Splitter, size[r] \in Int, Chunks(r) # {}
  PROVE  size[r] \in Nat \ {0} /\ Ceil(size[r]) \in Nat /\ Ceil(size[r]) <= MaxChunks
<1>1. size[r] # 0 /\ Ceil(size[r]) \in 0..MaxChunks /\ 0..(Ceil(size[r]) - 1) # {}
  BY DEF Chunks, Accepted
<1>2. Ceil(size[r]) > 0
  BY <1>1, MaxChunksAssumption
<1>3. CASE size[r] < 0
  <2>1. Size \div (-size[r]) \in Nat
    BY <1>3, SizeAssumption, QuotientIsPositive
  <2> QED
    BY <1>2, <1>3, <2>1 DEF Ceil
<1> QED
  BY <1>1, <1>3, MaxChunksAssumption

(* The chunks of an accepted split have numbers within the limit.          *)
LEMMA ChunkIsIndex ==
  ASSUME NEW r \in Splitter
  PROVE  Chunks(r) \subseteq Index
BY MaxChunksAssumption DEF Chunks, Accepted, Index

(* Each position is in exactly one piece.                                  *)
LEMMA Tiling ==
  ASSUME NEW r \in Splitter, size[r] \in Int, Chunks(r) # {}, NEW x \in 0..(Size - 1)
  PROVE  \E k \in Chunks(r) : \A i \in Chunks(r) : x \in Piece(r, i) <=> i = k
<1> DEFINE n == size[r]
           k == x \div n
<1>1. n \in Nat \ {0} /\ Ceil(n) \in Nat /\ Accepted(r) /\ x \in Nat /\ x < Size
  BY SomeChunks, SizeAssumption DEF Chunks
<1> HIDE DEF n
<1>2. k \in Nat /\ k * n <= x /\ x < (k + 1) * n
  BY <1>1, Quotient, QuotientIsPositive
<1>3. k < Ceil(n)
  <2>1. Ceil(n) = (Size + n - 1) \div n
    BY <1>1 DEF Ceil
  <2>2. Size + n - 1 \in Int /\ Size + n - 1 < (Ceil(n) + 1) * n
    BY <1>1, <2>1, Quotient, SizeAssumption
  <2>3. (k + 1) * n <= x + n /\ x + n <= Size + n - 1
    BY <1>1, <1>2, SizeAssumption
  <2>4. CASE Ceil(n) <= k
    <3>1. (Ceil(n) + 1) * n <= (k + 1) * n
      BY <1>1, <1>2, <2>4, Product
    <3> QED
      BY <1>1, <1>2, <2>2, <2>3, <3>1, SizeAssumption
  <2> QED
    BY <1>1, <1>2, <2>4
<1>4. k \in Chunks(r)
  BY <1>1, <1>2, <1>3 DEF Chunks, n
<1>5. ASSUME NEW i \in Chunks(r) PROVE x \in Piece(r, i) <=> i = k
  <2>1. i \in Int /\ (x \in Piece(r, i) <=> i * n <= x /\ x < (i + 1) * n)
    BY DEF Piece, Chunks, n
  <2>2. CASE i < k
    <3>1. (i + 1) * n <= k * n
      BY <1>1, <1>2, <2>1, <2>2, Product
    <3> QED
      BY <1>1, <1>2, <2>1, <2>2, <3>1
  <2>3. CASE k < i
    <3>1. (k + 1) * n <= i * n
      BY <1>1, <1>2, <2>1, <2>3, Product
    <3> QED
      BY <1>1, <1>2, <2>1, <2>3, <3>1
  <2> QED
    BY <1>2, <2>1, <2>2, <2>3
<1> QED
  BY <1>4, <1>5
-------------------------------------------------------------------------------
(* Domains.                                                                *)

LEMMA TypeInit == Init => TypeOK
<1> SUFFICES ASSUME Init PROVE TypeOK
  OBVIOUS
<1>1. \A r \in Splitter : <<size[r], attrs[r]>> \in Asked
  <2> TAKE r \in Splitter
  <2>1. PICK ask \in [Splitter -> Asked] :
          size = [s \in Splitter |-> ask[s][1]] /\ attrs = [s \in Splitter |-> ask[s][2]]
    BY DEF Init
  <2>2. ask[r] \in Asked
    OBVIOUS
  <2>3. ask[r] = <<ask[r][1], ask[r][2]>>
    BY <2>2, AskedAssumption
  <2>4. size[r] = ask[r][1] /\ attrs[r] = ask[r][2]
    BY <2>1
  <2> QED
    BY <2>2, <2>3, <2>4
<1> QED
  BY <1>1, MaxChunksAssumption DEF Init, TypeOK

(* The chunk a split writes or publishes next.                             *)
LEMMA NextChunk ==
  ASSUME TypeOK, NEW r \in Splitter, next[r] \in Chunks(r)
  PROVE  next[r] \in Index /\ next[r] + 1 \in 0..MaxChunks /\ next[r] + 1 <= Ceil(size[r])
         /\ Accepted(r)
BY MaxChunksAssumption DEF Chunks, Accepted, Index, TypeOK

(* The steps of a split keep the domains.                                  *)
LEMMA SplitterSteps ==
  ASSUME TypeOK, NEW r \in Splitter, Split(r)
  PROVE  TypeOK'
<1> USE DEF TypeOK, Step, Respond, files, jobs, Request
<1>1. CASE Refuse(r) \/ Decline(r) \/ PublishFails(r) \/ FinishSplit(r)
  BY <1>1 DEF Refuse, Decline, PublishFails, FinishSplit
<1>2. CASE AdmitSplit(r)
  BY <1>2 DEF AdmitSplit
<1>3. CASE WriteChunk(r)
  BY <1>3, NextChunk DEF WriteChunk, DisturbedByWrite
<1>4. CASE WriteFails(r)
  BY <1>4 DEF WriteFails, DisturbedByWrite
<1>5. CASE Written(r)
  BY <1>5, MaxChunksAssumption DEF Written
<1>6. CASE Publish(r)
  BY <1>6, NextChunk DEF Publish
<1> QED
  BY <1>1, <1>2, <1>3, <1>4, <1>5, <1>6 DEF Split

(* The steps of a deletion keep the domains.                               *)
LEMMA DeleterSteps ==
  ASSUME TypeOK, NEW d \in Deleter, Delete(d)
  PROVE  TypeOK'
<1> USE DEF TypeOK, Step, Respond, files, jobs, Request
<1>1. CASE Refuse(d) \/ RemoveFails(d) \/ FinishDelete(d)
  BY <1>1 DEF Refuse, RemoveFails, FinishDelete
<1>2. CASE AdmitDelete(d)
  BY <1>2 DEF AdmitDelete
<1>3. CASE List(d)
  <2>1. Listing \in SUBSET ({"chunk", "data"} \X Index)
    BY DEF Listing
  <2> QED
    BY <1>3, <2>1 DEF List
<1>4. ASSUME NEW f \in todo[d], Remove(d, f) PROVE TypeOK'
  <2>1. f \in {"chunk", "data"} \X Index
    OBVIOUS
  <2> QED
    BY <1>4, <2>1 DEF Remove
<1> QED
  BY <1>1, <1>2, <1>3, <1>4 DEF Delete

LEMMA NestedUpdate ==
  ASSUME NEW S, NEW T, NEW V, NEW f \in [S -> [T -> V]], NEW s \in S, NEW t \in T, NEW v \in V
  PROVE  [f EXCEPT ![s][t] = v] \in [S -> [T -> V]]
  OBVIOUS

(* The steps of a job keep the domains.                                    *)
LEMMA JobSteps ==
  ASSUME TypeOK, NEW r \in Splitter, NEW i \in Index, Job(r, i)
  PROVE  TypeOK'
<1> USE DEF TypeOK, files, jobs, Request
<1>1. CASE Run(r, i)
  BY <1>1 DEF Run
<1>2. ASSUME WriteData(r, i) \/ UNCHANGED <<data, disturbed>>
      PROVE  /\ data' \in [Index -> Splitter \cup {NoFile, Blank}]
             /\ disturbed' \in SUBSET Request
  BY <1>2 DEF WriteData
<1>3. CASE Succeed(r, i) \/ FailJob(r, i)
  <2>1. WriteData(r, i) \/ UNCHANGED <<data, disturbed>>
    BY <1>3 DEF Succeed, FailJob
  <2>2. End(r, i, "value") \/ End(r, i, "error")
    BY <1>3 DEF Succeed, FailJob
  <2>3. /\ job'  = [job EXCEPT ![r][i] = "ended"]
        /\ read' = [read EXCEPT ![r][i] = NoFile]
        /\ answer' = answer \/ \E what \in {"value", "error"} :
             answer' = [answer EXCEPT ![r][i] = what]
    BY <2>2 DEF End, Answered
  <2>4. job' \in [Splitter -> [Index -> {"none", "queued", "running", "ended"}]]
    BY <2>3, NestedUpdate
  <2>5. read' \in [Splitter -> [Index -> Splitter \cup {NoFile, Blank}]]
    BY <2>3, NestedUpdate
  <2>6. answer' \in [Splitter -> [Index -> {"none", "value", "error"}]]
    <3>1. answer \in [Splitter -> [Index -> {"none", "value", "error"}]]
      OBVIOUS
    <3>2. CASE answer' = answer
      BY <3>1, <3>2
    <3>3. ASSUME NEW what \in {"value", "error"}, answer' = [answer EXCEPT ![r][i] = what]
          PROVE  answer' \in [Splitter -> [Index -> {"none", "value", "error"}]]
      BY <3>1, <3>3, NestedUpdate
    <3> QED
      BY <2>3, <3>2, <3>3
  <2> QED
    BY <1>2, <2>1, <2>2, <2>4, <2>5, <2>6 DEF End
<1>4. CASE Timeout(r, i)
  BY <1>4 DEF Timeout, Answered, Dropped
<1> QED
  BY <1>1, <1>3, <1>4 DEF Job

LEMMA TypeStep == TypeOK /\ [Next]_vars => TypeOK'
<1> SUFFICES ASSUME TypeOK, [Next]_vars PROVE TypeOK'
  OBVIOUS
<1>1. CASE Crash
  BY <1>1 DEF Crash, TypeOK, Dropped, files
<1>2. CASE UNCHANGED vars
  BY <1>2 DEF vars, files, jobs, TypeOK
<1> QED
  BY <1>1, <1>2, SplitterSteps, DeleterSteps, JobSteps DEF Next

(* The domains of the state.                                               *)
THEOREM Typing == Spec => []TypeOK
  BY TypeInit, TypeStep, PTL DEF Spec

-------------------------------------------------------------------------------
LEMMA ProgressStep == TypeOK /\ ProgressInv /\ [Next]_vars => ProgressInv'
<1> SUFFICES ASSUME TypeOK, ProgressInv, [Next]_vars PROVE ProgressInv'
  OBVIOUS
<1> USE DEF TypeOK, ProgressInv, Step, Respond, files, jobs, Request, Accepted
<1>1. ASSUME NEW r \in Splitter,
             Refuse(r) \/ Decline(r) \/ PublishFails(r) \/ FinishSplit(r) \/ WriteFails(r)
      PROVE  ProgressInv'
  <2>1. CASE Refuse(r)
    BY <2>1 DEF Refuse
  <2>2. CASE Decline(r)
    BY <2>2 DEF Decline
  <2>3. CASE PublishFails(r)
    BY <2>3 DEF PublishFails
  <2>4. CASE FinishSplit(r)
    BY <2>4 DEF FinishSplit
  <2>5. CASE WriteFails(r)
    BY <2>5 DEF WriteFails
  <2> QED
    BY <1>1, <2>1, <2>2, <2>3, <2>4, <2>5
<1>2. ASSUME NEW r \in Splitter, AdmitSplit(r) PROVE ProgressInv'
  BY <1>2 DEF AdmitSplit
<1>3. ASSUME NEW r \in Splitter, WriteChunk(r) PROVE ProgressInv'
  <2>1. next'[r] = next[r] + 1 /\ next[r] + 1 <= Ceil(size[r])
    BY <1>3, NextChunk DEF WriteChunk
  <2> QED
    BY <1>3, <2>1 DEF WriteChunk
<1>4. ASSUME NEW r \in Splitter, Written(r) PROVE ProgressInv'
  BY <1>4 DEF Written
<1>5. ASSUME NEW r \in Splitter, Publish(r) PROVE ProgressInv'
  BY <1>5 DEF Publish
<1>6. ASSUME NEW d \in Deleter, Delete(d) PROVE ProgressInv'
  <2>1. d \in Request /\ \A r \in Splitter : r # d
    BY RequestAssumption
  <2>2. CASE Refuse(d) \/ AdmitDelete(d)
    BY <2>1, <2>2 DEF Refuse, AdmitDelete
  <2>3. CASE List(d)
    BY <2>1, <2>3 DEF List
  <2>4. ASSUME NEW f \in todo[d], Remove(d, f) PROVE ProgressInv'
    BY <2>1, <2>4 DEF Remove
  <2>5. CASE RemoveFails(d)
    BY <2>1, <2>5 DEF RemoveFails
  <2>6. CASE FinishDelete(d)
    BY <2>1, <2>6 DEF FinishDelete
  <2> QED
    BY <1>6, <2>2, <2>3, <2>4, <2>5, <2>6 DEF Delete
<1>7. ASSUME NEW r \in Splitter, NEW i \in Index, Job(r, i) PROVE ProgressInv'
  BY <1>7 DEF Job, Run, Succeed, FailJob, End, Timeout
<1>8. CASE Crash
  BY <1>8 DEF Crash
<1>9. CASE UNCHANGED vars
  BY <1>9 DEF vars
<1> QED
  BY <1>1, <1>2, <1>3, <1>4, <1>5, <1>6, <1>7, <1>8, <1>9 DEF Next, Split

(* Once disturbed, always disturbed; and the size a split asks for does    *)
(* not change.                                                             *)
LEMMA DisturbedGrows ==
  ASSUME [Next]_vars
  PROVE  disturbed \subseteq disturbed' /\ size' = size /\ attrs' = attrs
<1>1. ASSUME NEW r \in Splitter, Split(r)
      PROVE  disturbed \subseteq disturbed' /\ size' = size /\ attrs' = attrs
  BY <1>1 DEF Split, Refuse, AdmitSplit, Decline, WriteChunk, WriteFails, Written, Publish,
     PublishFails, FinishSplit
<1>2. ASSUME NEW d \in Deleter, Delete(d)
      PROVE  disturbed \subseteq disturbed' /\ size' = size /\ attrs' = attrs
  BY <1>2 DEF Delete, Refuse, AdmitDelete, List, Remove, RemoveFails, FinishDelete
<1>3. ASSUME NEW r \in Splitter, NEW i \in Index, Job(r, i)
      PROVE  disturbed \subseteq disturbed' /\ size' = size /\ attrs' = attrs
  BY <1>3 DEF Job, Run, Succeed, FailJob, WriteData, End, Timeout
<1> QED
  BY <1>1, <1>2, <1>3 DEF Next, Crash, vars

(* What becomes of a split in one step.  It becomes complete when its last *)
(* chunk has been written.                                                 *)
LEMMA CompleteStep ==
  ASSUME TypeOK, ProgressInv, [Next]_vars, NEW r \in Splitter, Complete(r)'
  PROVE  Complete(r) \/ Written(r)
<1> USE DEF TypeOK, ProgressInv, Step, Respond, Complete, Request
<1>1. ASSUME NEW s \in Splitter, Split(s) PROVE Complete(r) \/ Written(r)
  <2>1. CASE s # r
    BY <1>1, <2>1 DEF Split, Refuse, AdmitSplit, Decline, WriteChunk, WriteFails, Written, Publish,
       PublishFails, FinishSplit
  <2>2. CASE s = r
    BY <1>1, <2>2, RequestAssumption DEF Split, Refuse, AdmitSplit, Decline, WriteChunk, WriteFails,
       Publish, PublishFails, FinishSplit
  <2> QED
    BY <2>1, <2>2
<1>2. ASSUME NEW d \in Deleter, Delete(d) PROVE Complete(r)
  BY <1>2, RequestAssumption
     DEF Delete, Refuse, AdmitDelete, List, Remove, RemoveFails, FinishDelete
<1>3. ASSUME NEW s \in Splitter, NEW i \in Index, Job(s, i) PROVE Complete(r)
  BY <1>3 DEF Job, Run, Succeed, FailJob, End, Timeout
<1>4. ASSUME Crash \/ UNCHANGED vars PROVE Complete(r)
  BY <1>4 DEF Crash, vars
<1> QED
  BY <1>1, <1>2, <1>3, <1>4 DEF Next

(* Nothing changes the chunks a split is for.                              *)
LEMMA SameChunks ==
  ASSUME [Next]_vars, NEW r \in Splitter
  PROVE  Chunks(r)' = Chunks(r)
BY DisturbedGrows DEF Chunks, Accepted

(* Nobody takes a step for another split.                                  *)
LEMMA OtherSplit ==
  ASSUME TypeOK, NEW r \in Splitter,
         \/ \E s \in Splitter \ {r} : Split(s)
         \/ \E d \in Deleter : Delete(d)
         \/ \E s \in Splitter, i \in Index : Job(s, i)
  PROVE  pc'[r] = pc[r] /\ next'[r] = next[r] /\ response'[r] = response[r]
<1> USE DEF TypeOK, Step, Respond, Request
<1>1. ASSUME NEW s \in Splitter \ {r}, Split(s)
      PROVE  pc'[r] = pc[r] /\ next'[r] = next[r] /\ response'[r] = response[r]
  BY <1>1 DEF Split, Refuse, AdmitSplit, Decline, WriteChunk, WriteFails, Written, Publish,
     PublishFails, FinishSplit
<1>2. ASSUME NEW d \in Deleter, Delete(d)
      PROVE  pc'[r] = pc[r] /\ next'[r] = next[r] /\ response'[r] = response[r]
  BY <1>2, RequestAssumption
     DEF Delete, Refuse, AdmitDelete, List, Remove, RemoveFails, FinishDelete
<1>3. ASSUME NEW s \in Splitter, NEW i \in Index, Job(s, i)
      PROVE  pc'[r] = pc[r] /\ next'[r] = next[r] /\ response'[r] = response[r]
  BY <1>3 DEF Job, Run, Succeed, FailJob, End, Timeout
<1> QED
  BY <1>1, <1>2, <1>3

(* A split finds things as they were.                                      *)
LEMMA OwnFrame ==
  ASSUME [Next]_vars, NEW r \in Splitter, Own(r), UNCHANGED files,
         pc'[r] # "write" \/ (pc[r] = "write" /\ next'[r] = next[r]),
         Complete(r)' => Complete(r)
  PROVE  Own(r)'
BY SameChunks DEF Own, Placed, files

LEMMA OwnStep == TypeOK /\ ProgressInv /\ OwnInv /\ IntrudeInv /\ [Next]_vars => OwnInv'
<1> SUFFICES ASSUME TypeOK, ProgressInv, OwnInv, IntrudeInv, [Next]_vars,
                    NEW r \in Splitter, r \notin disturbed'
             PROVE  Own(r)'
  BY DEF OwnInv
<1>1. Own(r) /\ r \notin disturbed
  BY DisturbedGrows DEF OwnInv
<1>2. Chunks(r)' = Chunks(r) /\ Chunks(r) \subseteq Index
  BY SameChunks, ChunkIsIndex
<1>3. pc[r] = "start" => ~Complete(r) /\ next[r] = 0
  BY DEF ProgressInv, Complete, Request
<1>4. CASE Refuse(r) \/ Decline(r) \/ Publish(r) \/ PublishFails(r) \/ FinishSplit(r) \/ WriteFails(r)
  <2>1. pc'[r] # "write"
    BY <1>4 DEF Refuse, Decline, Publish, PublishFails, FinishSplit, WriteFails, Respond,
       Step, TypeOK,
       Request
  <2>2. Complete(r)' => Complete(r)
    <3>1. ~Written(r)
      BY <2>1, <1>4 DEF Written, Step, Refuse, Decline, Publish, PublishFails, FinishSplit,
         WriteFails,
         Respond, TypeOK, Request
    <3> QED
      BY <3>1, CompleteStep
  <2>3. CASE WriteFails(r)
    <3>1. ~Complete(r)'
      BY <2>3 DEF WriteFails, Respond, Step, Complete, TypeOK, Request
    <3> QED
      BY <2>1, <3>1 DEF Own, Placed
  <2>4. CASE ~WriteFails(r)
    <3>1. UNCHANGED files
      BY <1>4, <2>4 DEF Refuse, Decline, Publish, PublishFails, FinishSplit
    <3> QED
      BY <1>1, <2>1, <2>2, <3>1, OwnFrame
  <2> QED
    BY <2>3, <2>4
<1>5. CASE AdmitSplit(r)
  <2>1. pc'[r] = "write" /\ next'[r] = 0 /\ response'[r] = "none"
    BY <1>3, <1>5 DEF AdmitSplit, Step, TypeOK, ProgressInv, Request
  <2>2. \A i \in Index : file'[i] = NoFile /\ data'[i] = NoFile /\ ~(i < 0)
    BY <1>5 DEF AdmitSplit, Exists, files, Index
  <2> QED
    BY <2>1, <2>2 DEF Own, Placed, Complete
<1>6. CASE WriteChunk(r)
  <2>1. /\ pc[r] = "write" /\ pc' = pc /\ next'[r] = next[r] + 1 /\ response' = response
        /\ file' = [file EXCEPT ![next[r]] = r] /\ data' = data
    BY <1>6 DEF WriteChunk, TypeOK
  <2>2. next[r] \in Index
    BY <1>6, NextChunk DEF WriteChunk
  <2>3. \A i \in Index : file'[i] = IF i < next[r] + 1 THEN r ELSE NoFile
    BY <1>1, <2>1, <2>2 DEF Own, TypeOK, Index
  <2>4. ~Complete(r)'
    BY <2>1 DEF Complete, ProgressInv, Request
  <2> QED
    BY <1>1, <2>1, <2>3, <2>4 DEF Own, Placed
<1>7. CASE Written(r)
  <2>1. pc[r] = "write" /\ pc'[r] = "publish" /\ Accepted(r) /\ next[r] \notin Chunks(r) /\ file' = file
    BY <1>7 DEF Written, Step, TypeOK, Request, files
  <2>2. next[r] <= Ceil(size[r]) /\ next[r] \in Nat /\ Ceil(size[r]) \in Nat
    BY <2>1, MaxChunksAssumption DEF ProgressInv, TypeOK, Accepted
  <2>3. next[r] = Ceil(size[r])
    BY <2>1, <2>2 DEF Chunks
  <2>4. \A i \in Index : i \in Chunks(r) <=> i < next[r]
    BY <2>1, <2>2, <2>3 DEF Chunks, Index
  <2> QED
    BY <1>1, <1>2, <2>1, <2>4 DEF Own
<1>8. ASSUME NEW s \in Splitter \ {r}, Split(s) PROVE Own(r)'
  <2>1. pc'[r] = pc[r] /\ next'[r] = next[r] /\ response'[r] = response[r]
    BY <1>8, OtherSplit
  <2>2. CASE WriteChunk(s) \/ WriteFails(s)
    <3>1. pc[s] = "write"
      BY <2>2 DEF WriteChunk, WriteFails
    <3>2. pc[r] # "write" /\ ~Placed(r)
      BY <1>1, <3>1 DEF IntrudeInv, Intrudes
    <3> QED
      BY <1>2, <2>1, <3>2 DEF Own, Placed, Complete
  <2>3. CASE ~(WriteChunk(s) \/ WriteFails(s))
    <3>1. UNCHANGED files
      BY <1>8, <2>3 DEF Split, Refuse, AdmitSplit, Decline, Written, Publish, PublishFails,
         FinishSplit
    <3> QED
      BY <1>1, <2>1, <3>1, OwnFrame DEF Complete
  <2> QED
    BY <2>2, <2>3
<1>9. ASSUME NEW d \in Deleter, Delete(d) PROVE Own(r)'
  <2>1. pc'[r] = pc[r] /\ next'[r] = next[r] /\ response'[r] = response[r]
    BY <1>9, OtherSplit
  <2>2. CASE \E f \in todo[d] : Remove(d, f)
    <3>1. pc[r] = "start"
      BY <1>1, <2>2 DEF Remove
    <3> QED
      BY <1>3, <2>1, <3>1 DEF Own, Placed, Complete
  <2>3. CASE ~\E f \in todo[d] : Remove(d, f)
    <3>1. UNCHANGED files
      BY <1>9, <2>3 DEF Delete, Refuse, AdmitDelete, List, RemoveFails, FinishDelete, files
    <3> QED
      BY <1>1, <2>1, <3>1, OwnFrame DEF Complete
  <2> QED
    BY <2>2, <2>3
<1>10. ASSUME NEW s \in Splitter, NEW i \in Index, Job(s, i) PROVE Own(r)'
  <2>1. pc'[r] = pc[r] /\ next'[r] = next[r] /\ response'[r] = response[r]
    BY <1>10, OtherSplit
  <2>2. file' = file
    BY <1>10 DEF Job, Run, Succeed, FailJob, End, Timeout, files
  <2>3. WriteData(s, i) \/ UNCHANGED data
    BY <1>10 DEF Job, Run, Succeed, FailJob, Timeout, files
  <2>4. ASSUME pc[r] = "write", NEW j \in Index PROVE data'[j] \in {NoFile, r}
    <3>1. data[j] \in {NoFile, r} /\ file[i] \in {NoFile, r}
      BY <1>1, <2>4 DEF Own
    <3>2. ASSUME WriteData(s, i) PROVE read[s][i] = file[i]
      BY <1>1, <2>4, <3>2 DEF WriteData
    <3> QED
      BY <2>3, <3>1, <3>2 DEF WriteData, TypeOK
  <2> QED
    BY <1>1, <1>2, <2>1, <2>2, <2>4 DEF Own, Placed, Complete
<1>11. CASE Crash \/ UNCHANGED vars
  <2>1. UNCHANGED files
    BY <1>11 DEF Crash, vars
  <2>2. Complete(r)' => Complete(r)
    BY <1>11 DEF Crash, vars, Complete, Request
  <2>3. pc'[r] # "write" \/ (pc[r] = "write" /\ next'[r] = next[r])
    BY <1>11 DEF Crash, vars, Request
  <2> QED
    BY <1>1, <2>1, <2>2, <2>3, OwnFrame
<1> QED
  BY <1>4, <1>5, <1>6, <1>7, <1>8, <1>9, <1>10, <1>11 DEF Next, Split

-------------------------------------------------------------------------------
(* A split begins to write when it is admitted.                            *)
LEMMA WriteBegins ==
  ASSUME TypeOK, [Next]_vars, NEW r \in Splitter, pc'[r] = "write"
  PROVE  pc[r] = "write" \/ AdmitSplit(r)
<1> USE DEF TypeOK, Step, Respond, Request
<1>1. ASSUME Split(r) PROVE pc[r] = "write" \/ AdmitSplit(r)
  BY <1>1 DEF Split, Refuse, Decline, WriteChunk, WriteFails, Written, Publish,
     PublishFails, FinishSplit
<1>2. ASSUME Crash \/ UNCHANGED vars PROVE pc[r] = "write"
  BY <1>2 DEF Crash, vars
<1> QED
  BY <1>1, <1>2, OtherSplit DEF Next

(* A request does not begin twice.                                         *)
LEMMA StartEnds ==
  ASSUME TypeOK, [Next]_vars, NEW r \in Splitter, pc'[r] = "start"
  PROVE  pc[r] = "start"
<1> USE DEF TypeOK, Step, Respond, Request
<1>1. ASSUME Split(r) PROVE pc[r] = "start"
  BY <1>1 DEF Split, Refuse, AdmitSplit, Decline, WriteChunk, WriteFails, Written, Publish,
     PublishFails, FinishSplit
<1>2. ASSUME Crash \/ UNCHANGED vars PROVE pc[r] = "start"
  BY <1>2 DEF Crash, vars
<1> QED
  BY <1>1, <1>2, OtherSplit DEF Next

(* A chunk file is new only if a split has written it.                     *)
LEMMA FileStep ==
  ASSUME TypeOK, [Next]_vars, \A w \in Splitter : ~WriteChunk(w),
         NEW i \in Index, file'[i] \in Splitter
  PROVE  file'[i] = file[i]
<1>1. ASSUME NEW s \in Splitter, Split(s) PROVE file'[i] = file[i]
  <2>1. CASE WriteFails(s)
    BY <2>1, FileAssumption DEF WriteFails, TypeOK
  <2>2. CASE ~WriteFails(s)
    BY <1>1, <2>2 DEF Split, Refuse, AdmitSplit, Decline, Written, Publish, PublishFails,
       FinishSplit, files
  <2> QED
    BY <2>1, <2>2
<1>2. ASSUME NEW d \in Deleter, Delete(d) PROVE file'[i] = file[i]
  <2>1. ASSUME NEW f \in todo[d], Remove(d, f) PROVE file'[i] = file[i]
    BY <2>1, FileAssumption DEF Remove, TypeOK
  <2>2. CASE ~\E f \in todo[d] : Remove(d, f)
    BY <1>2, <2>2 DEF Delete, Refuse, AdmitDelete, List, RemoveFails, FinishDelete, files
  <2> QED
    BY <2>1, <2>2
<1>3. ASSUME NEW s \in Splitter, NEW k \in Index, Job(s, k) PROVE file'[i] = file[i]
  BY <1>3 DEF Job, Run, Succeed, FailJob, End, Timeout, files
<1> QED
  BY <1>1, <1>2, <1>3 DEF Next, Crash, vars, files

(* Frequencies are new if a job has written them; whoever finds others     *)
(* there than those of the chunk is disturbed by that.                     *)
LEMMA DataStep ==
  ASSUME TypeOK, [Next]_vars, NEW i \in Index, data'[i] # data[i]
  PROVE  /\ file'[i] = file[i] \/ data'[i] = NoFile
         /\ \/ data'[i] = file[i]
            \/ \A r \in Splitter : pc[r] # "start" => r \in disturbed'
<1>1. ASSUME NEW s \in Splitter, Split(s) PROVE FALSE
  BY <1>1 DEF Split, Refuse, AdmitSplit, Decline, WriteChunk, WriteFails, Written, Publish,
     PublishFails, FinishSplit, files
<1>2. ASSUME NEW d \in Deleter, Delete(d)
      PROVE  data'[i] = NoFile /\ \A r \in Splitter : pc[r] # "start" => r \in disturbed'
  <2>1. PICK f \in todo[d] : Remove(d, f)
    BY <1>2 DEF Delete, Refuse, AdmitDelete, List, RemoveFails, FinishDelete, files
  <2> QED
    BY <2>1 DEF Remove, TypeOK
<1>3. ASSUME NEW s \in Splitter, NEW k \in Index, Job(s, k)
      PROVE  /\ file'[i] = file[i]
             /\ \/ data'[i] = file[i]
                \/ \A r \in Splitter : pc[r] # "start" => r \in disturbed'
  <2>1. WriteData(s, k)
    BY <1>3 DEF Job, Run, Succeed, FailJob, Timeout, files
  <2>2. i = k /\ data'[i] = read[s][k]
    BY <2>1 DEF WriteData, TypeOK
  <2>3. file' = file
    BY <1>3 DEF Job, Run, Succeed, FailJob, End, Timeout, files
  <2> QED
    BY <2>1, <2>2, <2>3 DEF WriteData
<1> QED
  BY <1>1, <1>2, <1>3 DEF Next, Crash, vars, files

LEMMA IntrudeStep == TypeOK /\ ProgressInv /\ OwnInv /\ IntrudeInv /\ [Next]_vars => IntrudeInv'
<1> SUFFICES ASSUME TypeOK, ProgressInv, OwnInv, IntrudeInv, [Next]_vars,
                    NEW s \in Splitter, pc'[s] = "write"
             PROVE  Intrudes(s)'
  BY DEF IntrudeInv
<1>1. ASSUME NEW r \in Splitter, Placed(r)' PROVE Placed(r) \/ pc[r] = "write"
  BY <1>1, CompleteStep, SameChunks DEF Placed, Written, Step
<1>2. CASE AdmitSplit(s)
  <2>1. /\ \A i \in Index : file[i] = NoFile
        /\ disturbed' = disturbed \cup {r \in Splitter \ {s} : pc[r] = "write"}
                          \cup IF {r \in Splitter \ {s} : pc[r] = "write"} # {} THEN {s} ELSE {}
        /\ file' = file
    BY <1>2 DEF AdmitSplit, Exists, Writing, files
  <2>2. ASSUME NEW r \in Splitter \ {s}, pc'[r] = "write" \/ Placed(r)' PROVE r \in disturbed'
    <3>1. pc'[r] = pc[r]
      BY <1>2 DEF AdmitSplit, Step, TypeOK
    <3>2. CASE pc[r] = "write"
      BY <2>1, <3>2
    <3>3. CASE Placed(r)
      <4>1. PICK i \in Chunks(r) : i \in Index
        BY <3>3, ChunkIsIndex DEF Placed
      <4>2. r # NoFile
        BY FileAssumption
      <4> QED
        BY <2>1, <3>3, <4>1, <4>2 DEF OwnInv, Own
    <3> QED
      BY <1>1, <2>2, <3>1, <3>2, <3>3
  <2> QED
    BY <2>1, <2>2, FileAssumption DEF Intrudes
<1>3. CASE pc[s] = "write"
  <2>1. Intrudes(s) /\ disturbed \subseteq disturbed'
    BY <1>3, DisturbedGrows DEF IntrudeInv
  <2>2. ASSUME NEW r \in Splitter \ {s}, AdmitSplit(r) PROVE r \in disturbed'
    BY <1>3, <2>2 DEF AdmitSplit, Writing
  <2>3. ASSUME NEW r \in Splitter \ {s}, pc'[r] = "write" \/ Placed(r)' PROVE r \in disturbed'
    BY <1>1, <2>1, <2>2, <2>3, WriteBegins DEF Intrudes
  <2>4. ASSUME NEW i \in Index, file'[i] \in Splitter \ {s} PROVE file'[i] \in disturbed'
    <3>1. ASSUME NEW w \in Splitter, WriteChunk(w) PROVE file'[i] \in disturbed'
      <4>1. pc[w] = "write" /\ file' = [file EXCEPT ![next[w]] = w]
        BY <3>1 DEF WriteChunk
      <4>2. CASE i = next[w]
        BY <2>1, <2>4, <4>1, <4>2 DEF Intrudes, TypeOK
      <4>3. CASE i # next[w]
        BY <2>1, <2>4, <4>1, <4>3 DEF Intrudes, TypeOK
      <4> QED
        BY <4>2, <4>3
    <3>2. CASE \A w \in Splitter : ~WriteChunk(w)
      BY <2>1, <2>4, <3>2, FileStep DEF Intrudes
    <3> QED
      BY <3>1, <3>2
  <2> QED
    BY <2>3, <2>4 DEF Intrudes
<1> QED
  BY <1>2, <1>3, WriteBegins

LEMMA MixStep == TypeOK /\ OwnInv /\ IntrudeInv /\ MixInv /\ [Next]_vars => MixInv'
<1> SUFFICES ASSUME TypeOK, OwnInv, IntrudeInv, MixInv, [Next]_vars PROVE MixInv'
  OBVIOUS
<1> DEFINE Mixed(i) ==
      file[i] \in Splitter =>
        /\ \A j \in Index : file[j] \in Splitter \ {file[i]} => {file[i], file[j]} \subseteq disturbed
        /\ data[i] \notin {NoFile, file[i]} => file[i] \in disturbed
        /\ pc[file[i]] # "start"
<1>1. \A i \in Index : Mixed(i)
  BY DEF MixInv, NoMixedSplits
<1>2. disturbed \subseteq disturbed'
  BY DisturbedGrows
<1>3. ASSUME NEW w \in Splitter, WriteChunk(w), NEW i \in Index PROVE Mixed(i)'
  <2>1. /\ pc[w] = "write" /\ pc' = pc /\ data' = data /\ file' = [file EXCEPT ![next[w]] = w]
    BY <1>3 DEF WriteChunk, files
  <2>2. next[w] \in Index
    BY <1>3, NextChunk DEF WriteChunk
  <2>3. \A j \in Index : file'[j] = IF j = next[w] THEN w ELSE file[j]
    BY <2>1 DEF TypeOK
  <2>4. \A j \in Index : file[j] \in Splitter \ {w} => file[j] \in disturbed /\ w \in disturbed
    <3>1. Intrudes(w)
      BY <2>1 DEF IntrudeInv
    <3>2. ASSUME w \notin disturbed, NEW j \in Index PROVE file[j] \in {w, NoFile}
      BY <2>1, <3>2 DEF OwnInv, Own
    <3> QED
      BY <3>1, <3>2, FileAssumption DEF Intrudes
  <2>5. data[i] \notin {NoFile, w} => w \in disturbed
    BY <2>1 DEF OwnInv, Own
  <2>6. CASE i = next[w]
    BY <1>2, <2>1, <2>3, <2>4, <2>5, <2>6
  <2>7. CASE i # next[w]
    BY <1>1, <1>2, <2>1, <2>3, <2>4, <2>7
  <2> QED
    BY <2>6, <2>7
<1>4. ASSUME \A w \in Splitter : ~WriteChunk(w), NEW i \in Index PROVE Mixed(i)'
  <2> SUFFICES ASSUME file'[i] \in Splitter
               PROVE  /\ \A j \in Index : file'[j] \in Splitter \ {file'[i]} =>
                            {file'[i], file'[j]} \subseteq disturbed'
                      /\ data'[i] \notin {NoFile, file'[i]} => file'[i] \in disturbed'
                      /\ pc'[file'[i]] # "start"
    OBVIOUS
  <2>1. \A j \in Index : file'[j] \in Splitter => file'[j] = file[j]
    BY <1>4, FileStep
  <2>2. file'[i] = file[i] /\ file[i] \in Splitter
    BY <2>1
  <2>3. pc[file[i]] # "start" /\ pc'[file[i]] # "start"
    BY <1>1, <2>2, StartEnds
  <2>4. CASE data'[i] = data[i]
    BY <1>1, <1>2, <2>1, <2>2, <2>3, <2>4
  <2>5. CASE data'[i] # data[i]
    <3>1. data'[i] = file[i] \/ file[i] \in disturbed'
      BY <2>2, <2>3, <2>5, DataStep
    <3> QED
      BY <1>1, <1>2, <2>1, <2>2, <2>3, <3>1
  <2> QED
    BY <2>4, <2>5
<1>5. \A i \in Index : Mixed(i)'
  BY <1>3, <1>4
<1> QED
  BY <1>5 DEF MixInv, NoMixedSplits

-------------------------------------------------------------------------------
(* A split that has not written its chunks has no jobs.                    *)
LEMMA NoJobsYet ==
  ASSUME TypeOK, ProgressInv, JobInv, NEW r \in Splitter, pc[r] \in {"start", "write"}, NEW i \in Index
  PROVE  job[r][i] = "none" /\ answer[r][i] = "none" /\ ~Complete(r)
<1>1. response[r] = "none"
  BY DEF ProgressInv, Request
<1>2. ~Complete(r) /\ pc[r] # "dead"
  BY <1>1 DEF Complete
<1> QED
  BY <1>2 DEF JobInv, JobOf

(* A value that has been received stays; one is received when a job ends   *)
(* well.                                                                   *)
LEMMA ValueStep ==
  ASSUME TypeOK, JobInv, [Next]_vars, NEW r \in Splitter, NEW i \in Index
  PROVE  /\ answer[r][i] = "value" => answer'[r][i] = "value"
         /\ answer'[r][i] = "value" => answer[r][i] = "value" \/ Succeed(r, i)
<1> DEFINE Goal == /\ answer[r][i] = "value" => answer'[r][i] = "value"
                   /\ answer'[r][i] = "value" => answer[r][i] = "value" \/ Succeed(r, i)
<1>1. ASSUME answer' = answer PROVE Goal
  BY <1>1
<1>2. ASSUME NEW s \in Splitter, Split(s) PROVE answer' = answer
  BY <1>2 DEF Split, Refuse, AdmitSplit, Decline, WriteChunk, WriteFails, Written, Publish,
     PublishFails, FinishSplit, jobs
<1>3. ASSUME NEW d \in Deleter, Delete(d) PROVE answer' = answer
  BY <1>3 DEF Delete, Refuse, AdmitDelete, List, Remove, RemoveFails, FinishDelete, jobs
<1>4. ASSUME NEW s \in Splitter, NEW k \in Index, Job(s, k) PROVE Goal
  <2>1. CASE s # r \/ k # i
    BY <1>4, <2>1 DEF Job, Run, Succeed, FailJob, End, Timeout, Answered, TypeOK
  <2>2. CASE s = r /\ k = i
    <3>1. answer[r][i] = "value" => job[r][i] = "ended"
      BY DEF JobInv, JobOf
    <3>2. CASE Run(r, i)
      BY <3>2 DEF Run
    <3>3. CASE Succeed(r, i)
      BY <3>1, <3>3 DEF Succeed
    <3>4. CASE FailJob(r, i)
      BY <3>1, <3>4 DEF FailJob, End, Answered, TypeOK
    <3>5. CASE Timeout(r, i)
      BY <3>5 DEF Timeout, Answered, TypeOK
    <3> QED
      BY <1>4, <2>2, <3>2, <3>3, <3>4, <3>5 DEF Job
  <2> QED
    BY <2>1, <2>2
<1>5. ASSUME Crash \/ UNCHANGED vars PROVE answer' = answer
  BY <1>5 DEF Crash, vars, jobs
<1> QED
  BY <1>1, <1>2, <1>3, <1>4, <1>5 DEF Next

(* What JobInv says of the stages of a job.                                *)
LEMMA StageStep ==
  ASSUME TypeOK, ProgressInv, JobInv, [Next]_vars, NEW r \in Splitter, NEW i \in Index
  PROVE  /\ job'[r][i] # "none" => i \in Chunks(r) /\ (pc'[r] = "dead" \/ Complete(r)')
         /\ job'[r][i] = "none" => answer'[r][i] = "none"
         /\ pc'[r] = "publish" /\ next'[r] <= i => job'[r][i] = "none"
         /\ answer'[r][i] = "value" => job'[r][i] = "ended"
<1> DEFINE Goal == /\ job'[r][i] # "none" => i \in Chunks(r) /\ (pc'[r] = "dead" \/ Complete(r)')
                   /\ job'[r][i] = "none" => answer'[r][i] = "none"
                   /\ pc'[r] = "publish" /\ next'[r] <= i => job'[r][i] = "none"
                   /\ answer'[r][i] = "value" => job'[r][i] = "ended"
<1>1. /\ job[r][i] # "none" => i \in Chunks(r) /\ (pc[r] = "dead" \/ Complete(r))
      /\ job[r][i] = "none" => answer[r][i] = "none"
      /\ pc[r] = "publish" /\ next[r] <= i => job[r][i] = "none"
      /\ answer[r][i] = "value" => job[r][i] = "ended"
  BY DEF JobInv, JobOf
<1>2. CASE Split(r)
  <2>1. ASSUME pc[r] = "start" \/ pc[r] = "write", UNCHANGED jobs PROVE Goal
    BY <2>1, NoJobsYet DEF jobs
  <2>2. CASE Refuse(r) \/ AdmitSplit(r) \/ Decline(r) \/ WriteChunk(r) \/ WriteFails(r) \/ Written(r)
    BY <2>1, <2>2 DEF Refuse, AdmitSplit, Decline, WriteChunk, WriteFails, Written, Respond, Step
  <2>3. CASE Publish(r)
    <3>1. /\ pc[r] = "publish" /\ pc'[r] = "publish" /\ next[r] \in Chunks(r)
          /\ next'[r] = next[r] + 1 /\ next[r] \in Nat /\ answer' = answer
          /\ job'[r][i] = IF i = next[r] THEN "queued" ELSE job[r][i]
      BY <2>3 DEF Publish, TypeOK
    <3>2. CASE i = next[r]
      BY <1>1, <3>1, <3>2 DEF Complete
    <3>3. CASE i # next[r]
      BY <1>1, <3>1, <3>3 DEF Complete, Index
    <3> QED
      BY <3>2, <3>3
  <2>4. CASE PublishFails(r) \/ FinishSplit(r)
    <3>1. UNCHANGED jobs /\ pc[r] = "publish" /\ pc'[r] = "done" /\ Complete(r)'
      BY <2>4 DEF PublishFails, FinishSplit, Respond, Step, Complete, TypeOK, Request
    <3> QED
      BY <1>1, <3>1 DEF jobs
  <2> QED
    BY <1>2, <2>2, <2>3, <2>4 DEF Split
<1>3. ASSUME UNCHANGED <<job[r], answer[r], pc[r], next[r], response[r]>> PROVE Goal
  BY <1>1, <1>3 DEF Complete
<1>4. ASSUME NEW s \in Splitter \ {r}, Split(s) PROVE Goal
  <2>1. UNCHANGED <<job[r], answer[r]>>
    BY <1>4 DEF Split, Refuse, AdmitSplit, Decline, WriteChunk, WriteFails, Written, Publish,
       PublishFails, FinishSplit, jobs, TypeOK
  <2> QED
    BY <1>3, <1>4, <2>1, OtherSplit
<1>5. ASSUME NEW d \in Deleter, Delete(d) PROVE Goal
  <2>1. UNCHANGED <<job[r], answer[r]>>
    BY <1>5 DEF Delete, Refuse, AdmitDelete, List, Remove, RemoveFails, FinishDelete, jobs
  <2> QED
    BY <1>3, <1>5, <2>1, OtherSplit
<1>6. ASSUME NEW s \in Splitter, NEW k \in Index, Job(s, k) PROVE Goal
  <2>1. pc'[r] = pc[r] /\ next'[r] = next[r] /\ response'[r] = response[r]
    BY <1>6, OtherSplit
  <2>2. Complete(r)' <=> Complete(r)
    BY <2>1 DEF Complete
  <2>3. CASE s # r \/ k # i
    <3>1. job'[r][i] = job[r][i] /\ answer'[r][i] = answer[r][i]
      BY <1>6, <2>3 DEF Job, Run, Succeed, FailJob, End, Timeout, Answered, TypeOK
    <3> QED
      BY <1>1, <2>1, <2>2, <3>1
  <2>4. CASE s = r /\ k = i
    <3>1. job[r][i] # "none" /\ job'[r][i] # "none"
      BY <1>6, <2>4 DEF Job, Run, Succeed, FailJob, End, Timeout, Dropped, TypeOK
    <3>2. ASSUME answer'[r][i] = "value" PROVE job'[r][i] = "ended"
      <4>1. CASE answer[r][i] = "value"
        <5>1. job[r][i] = "ended" /\ Timeout(r, i)
          BY <1>1, <1>6, <2>4, <4>1 DEF Job, Run, Succeed, FailJob
        <5> QED
          BY <4>1, <5>1 DEF Timeout
      <4>2. CASE Succeed(r, i)
        BY <4>2 DEF Succeed, End, TypeOK
      <4> QED
        BY <3>2, <4>1, <4>2, ValueStep
    <3> QED
      BY <1>1, <2>1, <2>2, <3>1, <3>2
  <2> QED
    BY <2>3, <2>4
<1>7. CASE Crash
  <2>1. /\ job'[r][i] = (IF job[r][i] = "queued" THEN "ended" ELSE job[r][i])
        /\ UNCHANGED <<answer, next, response>>
    BY <1>7 DEF Crash, Dropped, TypeOK, jobs
  <2>2. /\ pc'[r] # "publish" /\ (pc'[r] = "dead" \/ pc'[r] = pc[r])
    BY <1>7 DEF Crash, Request
  <2>3. pc[r] = "publish" => pc'[r] = "dead"
    BY <1>7 DEF Crash, Request
  <2> QED
    BY <1>1, <2>1, <2>2, <2>3 DEF Complete
<1>8. CASE UNCHANGED vars
  BY <1>3, <1>8 DEF vars, jobs
<1> QED
  BY <1>2, <1>4, <1>5, <1>6, <1>7, <1>8 DEF Next

(* A split that responds ok has been given a value for every chunk         *)
(* (handlers/edit.go:137-159).                                             *)
LEMMA OkStep ==
  ASSUME TypeOK, ProgressInv, JobInv, [Next]_vars,
         NEW r \in Splitter, response'[r] = "ok", NEW i \in Chunks(r)
  PROVE  answer'[r][i] = "value"
<1>1. i \in Index
  BY ChunkIsIndex
<1>2. CASE FinishSplit(r)
  BY <1>1, <1>2 DEF FinishSplit, Respond, TypeOK, Request, jobs
<1>3. CASE Split(r) /\ ~FinishSplit(r)
  <2>1. response[r] = "ok"
    BY <1>3, RequestAssumption DEF Split, Refuse, AdmitSplit, Decline, WriteChunk,
       WriteFails, Written,
       Publish, PublishFails, Respond, TypeOK, Request
  <2> QED
    BY <1>1, <2>1, ValueStep DEF JobInv
<1>4. CASE ~Split(r)
  <2>1. response[r] = "ok"
    BY <1>4, OtherSplit DEF Next, Crash, vars
  <2> QED
    BY <1>1, <2>1, ValueStep DEF JobInv
<1> QED
  BY <1>2, <1>3, <1>4

(* A value that was received stands for files, as long as nobody has       *)
(* interfered.                                                             *)
LEMMA ComputedStep ==
  ASSUME TypeOK, ProgressInv, OwnInv, JobInv, [Next]_vars, NEW r \in Splitter, NEW i \in Index,
         answer'[r][i] = "value", Complete(r)', attrs[r], r \notin disturbed'
  PROVE  data'[i] = r
<1>1. r \notin disturbed
  BY DisturbedGrows
<1>2. job[r][i] # "none"
  BY ValueStep DEF Succeed, JobInv, JobOf
<1>3. Complete(r) /\ pc[r] # "start" /\ i \in Chunks(r)
  <2>1. pc[r] \notin {"start", "write"}
    BY <1>2, NoJobsYet
  <2>2. Complete(r)
    BY <2>1, CompleteStep DEF Written, Step
  <2> QED
    BY <1>2, <2>1, <2>2 DEF JobInv, JobOf
<1>4. file[i] = r
  BY <1>1, <1>3 DEF OwnInv, Own, Placed
<1>5. CASE answer[r][i] = "value"
  <2>1. data[i] = r
    BY <1>1, <1>3, <1>5 DEF JobInv, JobOf
  <2> QED
    BY <1>3, <1>4, <2>1, DataStep
<1>6. CASE Succeed(r, i)
  <2>1. WriteData(r, i)
    BY <1>6 DEF Succeed
  <2> QED
    BY <1>3, <1>4, <2>1 DEF WriteData, TypeOK
<1> QED
  BY <1>5, <1>6, ValueStep

LEMMA JobStep == TypeOK /\ ProgressInv /\ OwnInv /\ JobInv /\ [Next]_vars => JobInv'
<1> SUFFICES ASSUME TypeOK, ProgressInv, OwnInv, JobInv, [Next]_vars PROVE JobInv'
  OBVIOUS
<1>1. ASSUME NEW r \in Splitter, NEW i \in Index PROVE JobOf(r, i)'
  <2>1. Chunks(r)' = Chunks(r) /\ attrs' = attrs
    BY SameChunks, DisturbedGrows
  <2>2. answer'[r][i] = "value" /\ Complete(r)' /\ attrs[r] /\ r \notin disturbed' => data'[i] = r
    BY ComputedStep
  <2> QED
    BY <2>1, <2>2, StageStep DEF JobOf
<1>2. ASSUME NEW r \in Splitter, response'[r] = "ok", NEW i \in Chunks(r)' PROVE answer'[r][i] = "value"
  BY <1>2, OkStep, SameChunks
<1> QED
  BY <1>1, <1>2 DEF JobInv

-------------------------------------------------------------------------------
(* A file that is new disturbs all deletions.                              *)
LEMMA NewFile ==
  ASSUME TypeOK, [Next]_vars, NEW i \in Index, file[i] = NoFile, file'[i] # NoFile,
         NEW d \in Deleter, pc[d] # "start"
  PROVE  d \in disturbed'
<1>1. ASSUME NEW s \in Splitter, Split(s) PROVE d \in disturbed'
  <2>1. WriteChunk(s) \/ WriteFails(s)
    BY <1>1 DEF Split, Refuse, AdmitSplit, Decline, Written, Publish, PublishFails,
       FinishSplit, files
  <2> QED
    BY <2>1 DEF WriteChunk, WriteFails, DisturbedByWrite
<1>2. ASSUME NEW e \in Deleter, Delete(e) PROVE FALSE
  BY <1>2 DEF Delete, Refuse, AdmitDelete, List, Remove, RemoveFails, FinishDelete, files, TypeOK
<1>3. ASSUME NEW s \in Splitter, NEW k \in Index, Job(s, k) PROVE FALSE
  BY <1>3 DEF Job, Run, Succeed, FailJob, End, Timeout, files
<1> QED
  BY <1>1, <1>2, <1>3 DEF Next, Crash, vars, files

(* Nobody takes a step for another deletion.                               *)
LEMMA OtherDelete ==
  ASSUME TypeOK, NEW d \in Deleter,
         \/ \E s \in Splitter : Split(s)
         \/ \E e \in Deleter \ {d} : Delete(e)
         \/ \E s \in Splitter, i \in Index : Job(s, i)
  PROVE  pc'[d] = pc[d] /\ todo'[d] = todo[d] /\ response'[d] = response[d]
<1> USE DEF TypeOK, Step, Respond, Request
<1>1. ASSUME NEW s \in Splitter, Split(s)
      PROVE  pc'[d] = pc[d] /\ todo'[d] = todo[d] /\ response'[d] = response[d]
  BY <1>1, RequestAssumption DEF Split, Refuse, AdmitSplit, Decline, WriteChunk, WriteFails,
     Written,
     Publish, PublishFails, FinishSplit
<1>2. ASSUME NEW e \in Deleter \ {d}, Delete(e)
      PROVE  pc'[d] = pc[d] /\ todo'[d] = todo[d] /\ response'[d] = response[d]
  BY <1>2 DEF Delete, Refuse, AdmitDelete, List, Remove, RemoveFails, FinishDelete
<1>3. ASSUME NEW s \in Splitter, NEW i \in Index, Job(s, i)
      PROVE  pc'[d] = pc[d] /\ todo'[d] = todo[d] /\ response'[d] = response[d]
  BY <1>3 DEF Job, Run, Succeed, FailJob, End, Timeout
<1> QED
  BY <1>1, <1>2, <1>3

LEMMA DeleteStep == TypeOK /\ ProgressInv /\ DeleteInv /\ [Next]_vars => DeleteInv'
<1> SUFFICES ASSUME TypeOK, ProgressInv, DeleteInv, [Next]_vars,
                    NEW d \in Deleter, d \notin disturbed'
             PROVE  Removes(d)'
  BY DEF DeleteInv
<1>1. Removes(d)
  BY DisturbedGrows DEF DeleteInv
<1>2. pc[d] # "start" => Opened' \subseteq Opened
  BY NewFile DEF Opened
<1>3. pc[d] # "done" => response[d] = "none"
  BY DEF ProgressInv, Request
<1> USE DEF TypeOK, Step, Respond, Request
<1>4. ASSUME pc'[d] = pc[d], todo'[d] = todo[d], response'[d] = response[d] PROVE Removes(d)'
  <2>1. CASE pc[d] = "start"
    BY <1>3, <1>4, <2>1 DEF Removes
  <2>2. CASE pc[d] # "start"
    BY <1>1, <1>2, <1>4, <2>2 DEF Removes
  <2> QED
    BY <2>1, <2>2
<1>5. CASE Refuse(d) \/ AdmitDelete(d) \/ RemoveFails(d)
  BY <1>3, <1>5 DEF Refuse, AdmitDelete, RemoveFails, Removes
<1>6. CASE List(d)
  BY <1>3, <1>6 DEF List, Listing, Opened, Removes, files
<1>7. ASSUME NEW f \in todo[d], Remove(d, f) PROVE Removes(d)'
  <2>1. /\ pc[d] = "remove" /\ pc' = pc /\ response' = response /\ todo'[d] = todo[d] \ {f}
        /\ f[1] = "chunk" => file' = [file EXCEPT ![f[2]] = NoFile]
    BY <1>7 DEF Remove
  <2>2. ASSUME NEW i \in Opened' PROVE f # <<"chunk", i>>
    BY <2>1, <2>2 DEF Opened
  <2> QED
    BY <1>1, <1>2, <1>3, <2>1, <2>2 DEF Removes
<1>8. CASE FinishDelete(d)
  <2>1. Opened' = {} /\ pc'[d] = "done"
    BY <1>1, <1>2, <1>8 DEF FinishDelete, Removes
  <2> QED
    BY <2>1 DEF Removes
<1>9. CASE Crash
  BY <1>1, <1>3, <1>4, <1>9 DEF Crash, Removes, files, Opened
<1> QED
  BY <1>4, <1>5, <1>6, <1>7, <1>8, <1>9, OtherDelete DEF Next, Delete, vars

-------------------------------------------------------------------------------
LEMMA SplitInit == Init => SplitInv
<1> SUFFICES ASSUME Init PROVE SplitInv
  OBVIOUS
<1>1. TypeOK
  BY TypeInit
<1>2. /\ \A q \in Request : pc[q] = "start" /\ response[q] = "none"
      /\ \A i \in Index : file[i] = NoFile
      /\ \A r \in Splitter : next[r] = 0 /\ ~Complete(r)
      /\ \A r \in Splitter, i \in Index : job[r][i] = "none" /\ answer[r][i] = "none"
  BY DEF Init, Request, Complete
<1>3. ProgressInv /\ OwnInv /\ IntrudeInv
  BY <1>2 DEF ProgressInv, OwnInv, Own, Placed, IntrudeInv, Request
<1>4. MixInv /\ JobInv /\ DeleteInv
  BY <1>2, FileAssumption DEF MixInv, NoMixedSplits, JobInv, JobOf, DeleteInv, Removes, Request
<1> QED
  BY <1>1, <1>3, <1>4 DEF SplitInv

LEMMA SplitStep == SplitInv /\ [Next]_vars => SplitInv'
  BY TypeStep, ProgressStep, OwnStep, IntrudeStep, MixStep, JobStep, DeleteStep DEF SplitInv

LEMMA SplitInvariant == Spec => []SplitInv
  BY SplitInit, SplitStep, PTL DEF Spec

LEMMA Covered == SplitInv => SplitCoversCorpus
<1> SUFFICES ASSUME SplitInv,
                    NEW r \in Splitter, Complete(r), Chunks(r) # {}, r \notin disturbed
             PROVE  /\ Opened = Chunks(r)
                    /\ \A x \in 0..(Size - 1) :
                         Cardinality({i \in Opened : file[i] \in Splitter /\ x \in Piece(file[i], i)}) = 1
  BY DEF SplitCoversCorpus
<1>1. \A i \in Index : file[i] = IF i \in Chunks(r) THEN r ELSE NoFile
  BY DEF SplitInv, OwnInv, Own, Placed
<1>2. Opened = Chunks(r)
  BY <1>1, ChunkIsIndex, FileAssumption DEF Opened, SplitInv
<1>3. ASSUME NEW x \in 0..(Size - 1)
      PROVE  Cardinality({i \in Opened : file[i] \in Splitter /\ x \in Piece(file[i], i)}) = 1
  <2>1. size[r] \in Int
    BY AskedAssumption DEF SplitInv, TypeOK
  <2>2. PICK k \in Chunks(r) : \A i \in Chunks(r) : x \in Piece(r, i) <=> i = k
    BY <2>1, Tiling
  <2>3. {i \in Opened : file[i] \in Splitter /\ x \in Piece(file[i], i)} = {k}
    BY <1>1, <1>2, <2>2, ChunkIsIndex DEF SplitInv
  <2> QED
    BY <2>3, FS_Singleton
<1> QED
  BY <1>2, <1>3

LEMMA Computed == SplitInv => OkMeansComputed
<1> SUFFICES ASSUME SplitInv, NEW r \in Splitter, response[r] = "ok"
             PROVE  /\ \A i \in Chunks(r) : answer[r][i] = "value" /\ job[r][i] = "ended"
                    /\ attrs[r] /\ r \notin disturbed => \A i \in Chunks(r) : data[i] = r
  BY DEF OkMeansComputed
<1>1. \A i \in Chunks(r) : i \in Index /\ answer[r][i] = "value"
  BY ChunkIsIndex DEF SplitInv, JobInv
<1> QED
  BY <1>1 DEF SplitInv, JobInv, JobOf, Complete

(* The chunks of a split no other request has come in between tile the     *)
(* corpus, and they are all that opening it lists.                         *)
(* (edit/edit.go:71-116, handlers/edit.go:83-98, corpus/common.go:48-66)   *)
THEOREM Coverage == Spec => []SplitCoversCorpus
  BY SplitInvariant, Covered, PTL

(* Chunks and frequencies of different splits meet only when the requests  *)
(* overlapped.  (handlers/edit.go:87-98, 105, edit/edit.go:38-69)          *)
THEOREM Purity == Spec => []NoMixedSplits
<1>1. SplitInv => NoMixedSplits
  BY DEF SplitInv, MixInv
<1> QED
  BY <1>1, SplitInvariant, PTL

(* An answer 200 means that the split's frequencies have been computed     *)
(* from its own chunks.                                                    *)
(* (handlers/edit.go:111-159, worker/actions.go:224-238)                   *)
THEOREM Computation == Spec => []OkMeansComputed
  BY SplitInvariant, Computed, PTL

(* A successful deletion leaves no chunk behind.  (edit/edit.go:55-69)     *)
THEOREM Deletion == Spec => []DeleteIsComplete
<1>1. SplitInv => DeleteIsComplete
  BY DEF SplitInv, DeleteInv, Removes, DeleteIsComplete
<1> QED
  BY <1>1, SplitInvariant, PTL

===============================================================================
