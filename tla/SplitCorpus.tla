------------------------------ MODULE SplitCorpus ------------------------------
(***************************************************************************)
(* Split corpora: a large corpus is divided into chunks, small files in a  *)
(* directory that the API server and all workers share.  Requests split a  *)
(* corpus and have workers add frequency files to its chunks               *)
(* (corpus/handlers/edit.go SplitCorpus, corpus/edit/edit.go), or delete a *)
(* split (DeleteSplit); others open it (corpus/common.go).  Every request  *)
(* first looks at the directory and acts on it later; nothing locks it.    *)
(*                                                                         *)
(* Chunks are numbered from 0, their contents are intervals of the         *)
(* positions 0..Size-1.  A chunk file is known by the request that wrote   *)
(* it, since number and chunk size determine what it wrote; the frequency  *)
(* files next to a chunk by the chunk file they were computed from.  The   *)
(* job queue is taken by its promise (QueryService): a published job runs  *)
(* at most once, and its caller is answered, if only by a timeout.         *)
(***************************************************************************)
EXTENDS Integers, FiniteSets

CONSTANTS
  Splitter,    \* the requests to split the corpus
  Deleter,     \* the requests to delete the split
  Size,        \* the number of positions of the corpus
  Asked,       \* what splits are asked for: a chunk size, and whether frequencies
  MaxChunks,   \* maxReasonableNumChunks (200)
  NoFile,      \* there is no such file
  Blank        \* the file was created and not written

ASSUME SizeAssumption == Size \in Nat
ASSUME AskedAssumption == Asked \subseteq Int \X BOOLEAN
ASSUME MaxChunksAssumption == MaxChunks \in Nat
ASSUME RequestAssumption == Splitter \cap Deleter = {}
ASSUME FileAssumption == NoFile # Blank /\ NoFile \notin Splitter /\ Blank \notin Splitter

VARIABLES
  size,       \* the chunk size a split asks for
  attrs,      \* whether it asks for frequencies
  pc,         \* where its handler is
  next,       \* the chunk its loop is at
  todo,       \* the files a deletion has listed and not removed
  file,       \* the chunk files
  data,       \* the frequency files of each chunk
  job,        \* the jobs of a split, one per chunk
  read,       \* the chunk file each job has read
  answer,     \* what the goroutine of each job has received
  response,   \* what the client is sent
  disturbed   \* the requests another one has interfered with

files == <<file, data>>
jobs  == <<job, read, answer>>
vars  == <<size, attrs, pc, next, todo, files, jobs, response, disturbed>>

-------------------------------------------------------------------------------
Request == Splitter \cup Deleter
Index   == 0..(MaxChunks - 1)

(* Variant: the quotient is rounded down.                                  *)
Floor(n) == IF n > 0 THEN Size \div n ELSE -(Size \div (-n))

(* ceil(Size / n), for an n of either sign.                                *)
Ceil(n) == IF n > 0 THEN (Size + n - 1) \div n ELSE -(Size \div (-n))

(* Variant: there is no limit.                                             *)
AcceptedUnlimited(r) == size[r] # 0 /\ Ceil(size[r]) >= 0

(* What splitting makes of the chunk size.  A division by zero gives a     *)
(* number that is too large or, on other machines, too small.              *)
Accepted(r) == size[r] # 0 /\ Ceil(size[r]) \in 0..MaxChunks
Chunks(r)   == IF Accepted(r) THEN 0..(Ceil(size[r]) - 1) ELSE {}

(* The interval written to chunk i: from i * size to the next multiple or  *)
(* the end of the corpus.                                                  *)
Piece(r, i) == {x \in 0..(Size - 1) : i * size[r] <= x /\ x < (i + 1) * size[r]}

Init ==
  /\ \E ask \in [Splitter -> Asked] :
       size = [r \in Splitter |-> ask[r][1]] /\ attrs = [r \in Splitter |-> ask[r][2]]
  /\ pc       = [r \in Request |-> "start"]
  /\ next     = [r \in Splitter |-> 0]
  /\ todo     = [d \in Deleter |-> {}]
  /\ file     = [i \in Index |-> NoFile]
  /\ data     = [i \in Index |-> NoFile]
  /\ job      = [r \in Splitter |-> [i \in Index |-> "none"]]
  /\ read     = [r \in Splitter |-> [i \in Index |-> NoFile]]
  /\ answer   = [r \in Splitter |-> [i \in Index |-> "none"]]
  /\ response = [r \in Request |-> "none"]
  /\ disturbed = {}

-------------------------------------------------------------------------------
(* All requests.                                                           *)

Step(r, from, to) ==
  /\ pc[r] = from
  /\ pc' = [pc EXCEPT ![r] = to]

Respond(r, from, what) ==
  /\ Step(r, from, "done")
  /\ response' = [response EXCEPT ![r] = what]

(* SplitCorpusExists: the directory has an entry, be it not a chunk.       *)
Exists == \E i \in Index : file[i] # NoFile \/ data[i] # NoFile

(* A split between its test for existence and its last chunk.              *)
Writing(r) == pc[r] = "write"

(* The test is refused: the split is there already, or not there, or the   *)
(* directory cannot be read.                                               *)
Refuse(r) ==
  /\ Respond(r, "start", IF r \in Deleter /\ ~Exists THEN "notFound" ELSE "conflict")
  /\ UNCHANGED <<size, attrs, next, todo, files, jobs, disturbed>>

(* Variant: any entry that is not a chunk file is overlooked.              *)
AdmitSplitIgnoringData(r) ==
  /\ \A i \in Index : file[i] = NoFile
  /\ Step(r, "start", "write")
  /\ LET others == {s \in Splitter \ {r} : Writing(s)}
     IN  disturbed' = disturbed \cup others \cup IF others # {} THEN {r} ELSE {}
  /\ UNCHANGED <<size, attrs, next, todo, files, jobs, response>>

(* The test of a split is passed.  Splits that pass it side by side        *)
(* disturb each other.                                                     *)
AdmitSplit(r) ==
  /\ ~Exists
  /\ Step(r, "start", "write")
  /\ LET others == {s \in Splitter \ {r} : Writing(s)}
     IN  disturbed' = disturbed \cup others \cup IF others # {} THEN {r} ELSE {}
  /\ UNCHANGED <<size, attrs, next, todo, files, jobs, response>>

-------------------------------------------------------------------------------
(* Splitting.                                                              *)

(* The argument is no number, the size of the corpus cannot be read, there *)
(* would be too many chunks; or a negative number of them, which panics.   *)
Decline(r) ==
  /\ next[r] = 0
  /\ Respond(r, "write", IF Accepted(r) THEN "conflict" ELSE "declined")
  /\ UNCHANGED <<size, attrs, next, todo, files, jobs, disturbed>>

(* Deletions under way may or may not have seen a file written now.        *)
DisturbedByWrite == {d \in Deleter : pc[d] # "start"}

WriteChunk(r) ==
  /\ pc[r] = "write" /\ next[r] \in Chunks(r)
  /\ file' = [file EXCEPT ![next[r]] = r]
  /\ next' = [next EXCEPT ![r] = @ + 1]
  /\ disturbed' = disturbed \cup DisturbedByWrite
  /\ UNCHANGED <<size, attrs, pc, todo, data, jobs, response>>

(* The file cannot be opened, or it is created and cannot be written.      *)
(* What has been written before stays.                                     *)
WriteFails(r) ==
  /\ pc[r] = "write" /\ next[r] \in Chunks(r)
  /\ Respond(r, "write", "writeError")
  /\ \/ UNCHANGED <<file, disturbed>>
     \/ /\ file[next[r]] = NoFile
        /\ file' = [file EXCEPT ![next[r]] = Blank]
        /\ disturbed' = disturbed \cup DisturbedByWrite
  /\ UNCHANGED <<size, attrs, next, todo, data, jobs>>

Written(r) ==
  /\ Accepted(r) /\ next[r] \notin Chunks(r)
  /\ Step(r, "write", "publish")
  /\ next' = [next EXCEPT ![r] = 0]
  /\ UNCHANGED <<size, attrs, todo, files, jobs, response, disturbed>>

Publish(r) ==
  /\ pc[r] = "publish" /\ next[r] \in Chunks(r)
  /\ job'  = [job EXCEPT ![r][next[r]] = "queued"]
  /\ next' = [next EXCEPT ![r] = @ + 1]
  /\ UNCHANGED <<size, attrs, pc, todo, files, read, answer, response, disturbed>>

(* The handler returns; the goroutines of the earlier jobs go on.          *)
PublishFails(r) ==
  /\ next[r] \in Chunks(r)
  /\ Respond(r, "publish", "publishError")
  /\ UNCHANGED <<size, attrs, next, todo, files, jobs, disturbed>>

(* wg.Wait, and the response.  Appends to errs race; they may lose errors, *)
(* but not the last one (see FanOut).                                      *)
FinishSplit(r) ==
  /\ next[r] \notin Chunks(r)
  /\ \A i \in Chunks(r) : answer[r][i] # "none"
  /\ Respond(r, "publish", IF \E i \in Chunks(r) : answer[r][i] = "error" THEN "jobError" ELSE "ok")
  /\ UNCHANGED <<size, attrs, next, todo, files, jobs, disturbed>>

-------------------------------------------------------------------------------
(* The jobs of a split, calcCollFreqData.                                  *)

Answered(r, i, what) == answer' = [answer EXCEPT ![r][i] = what]

(* Nobody listens any more: the goroutine has had its timeout, or ended    *)
(* with the server.                                                        *)
Deserted(r, i) == answer[r][i] = "error" \/ pc[r] = "dead"

(* The worker reads the chunk, if there is an attribute to compute.        *)
Run(r, i) ==
  /\ job[r][i] = "queued"
  /\ attrs[r] => file[i] # NoFile
  /\ job'  = [job EXCEPT ![r][i] = "running"]
  /\ read' = [read EXCEPT ![r][i] = IF attrs[r] THEN file[i] ELSE NoFile]
  /\ UNCHANGED <<size, attrs, pc, next, todo, files, answer, response, disturbed>>

(* Files are written next to whatever chunk is there by now.  Frequencies  *)
(* of a chunk that has been replaced disturb the split that replaced it.   *)
WriteData(r, i) ==
  /\ data' = [data EXCEPT ![i] = read[r][i]]
  /\ disturbed' = IF file[i] = read[r][i] THEN disturbed
                  ELSE disturbed \cup {s \in Splitter : pc[s] # "start"}

(* The job has ended.  Nobody may be there to hear of it.                  *)
End(r, i, what) ==
  /\ job'  = [job EXCEPT ![r][i] = "ended"]
  /\ read' = [read EXCEPT ![r][i] = NoFile]
  /\ IF Deserted(r, i) THEN UNCHANGED answer ELSE Answered(r, i, what)
  /\ UNCHANGED <<size, attrs, pc, next, todo, file, response>>

Succeed(r, i) ==
  /\ job[r][i] = "running"
  /\ IF attrs[r] THEN WriteData(r, i) ELSE UNCHANGED <<data, disturbed>>
  /\ End(r, i, "value")

(* The chunk is not there; or Manatee or mktokencov fails, when some of    *)
(* the files may have been written.                                        *)
FailJob(r, i) ==
  /\ attrs[r]
  /\ \/ job[r][i] = "running" /\ WriteData(r, i)
     \/ job[r][i] = "running" /\ UNCHANGED <<data, disturbed>>
     \/ job[r][i] = "queued" /\ file[i] = NoFile /\ UNCHANGED <<data, disturbed>>
  /\ End(r, i, "error")

(* A worker drops a queued job that nobody waits for any more.             *)
Dropped(js) == [i \in Index |-> IF js[i] = "queued" THEN "ended" ELSE js[i]]

(* Variant: an answer that is an error is taken for a value.               *)
TimeoutUnnoticed(r, i) ==
  /\ job[r][i] # "none" /\ answer[r][i] = "none" /\ pc[r] # "dead"
  /\ Answered(r, i, "value")
  /\ job' = [job EXCEPT ![r][i] = Dropped(job[r])[i]]
  /\ UNCHANGED <<size, attrs, pc, next, todo, files, read, response, disturbed>>

(* The goroutine is told of a timeout, or that Redis has failed.           *)
Timeout(r, i) ==
  /\ job[r][i] # "none" /\ answer[r][i] = "none" /\ pc[r] # "dead"
  /\ Answered(r, i, "error")
  /\ job' = [job EXCEPT ![r][i] = Dropped(job[r])[i]]
  /\ UNCHANGED <<size, attrs, pc, next, todo, files, read, response, disturbed>>

-------------------------------------------------------------------------------
(* Deleting and opening.                                                   *)

Listing == {<<"chunk", i>> : i \in {j \in Index : file[j] # NoFile}}
           \cup {<<"data", i>> : i \in {j \in Index : data[j] # NoFile}}

AdmitDelete(d) ==
  /\ Exists
  /\ Step(d, "start", "list")
  /\ disturbed' = IF \E s \in Splitter : Writing(s) THEN disturbed \cup {d} ELSE disturbed
  /\ UNCHANGED <<size, attrs, next, todo, files, jobs, response>>

List(d) ==
  /\ Step(d, "list", "remove")
  /\ todo' = [todo EXCEPT ![d] = Listing]
  /\ UNCHANGED <<size, attrs, next, files, jobs, response, disturbed>>

Present(f) == IF f[1] = "chunk" THEN file[f[2]] # NoFile ELSE data[f[2]] # NoFile

(* One file; a split that has begun loses something.                       *)
Remove(d, f) ==
  /\ pc[d] = "remove" /\ f \in todo[d] /\ Present(f)
  /\ \A g \in todo[d] : f[2] <= g[2]
  /\ todo' = [todo EXCEPT ![d] = @ \ {f}]
  /\ IF f[1] = "chunk"
       THEN file' = [file EXCEPT ![f[2]] = NoFile] /\ UNCHANGED data
       ELSE data' = [data EXCEPT ![f[2]] = NoFile] /\ UNCHANGED file
  /\ disturbed' = disturbed \cup {s \in Splitter : pc[s] # "start"}
  /\ UNCHANGED <<size, attrs, pc, next, jobs, response>>

(* The file has been removed by another request, or cannot be removed.     *)
RemoveFails(d) ==
  /\ pc[d] = "remove" /\ todo[d] # {}
  /\ Respond(d, "remove", "removeError")
  /\ UNCHANGED <<size, attrs, next, todo, files, jobs, disturbed>>

(* Variant: a file that cannot be removed ends the loop without an error.  *)
FinishDeleteEarly(d) ==
  /\ Respond(d, "remove", "ok")
  /\ UNCHANGED <<size, attrs, next, todo, files, jobs, disturbed>>

FinishDelete(d) ==
  /\ todo[d] = {}
  /\ Respond(d, "remove", "ok")
  /\ UNCHANGED <<size, attrs, next, todo, files, jobs, disturbed>>

(* OpenSplitCorpus lists the chunk files.                                  *)
Opened == {i \in Index : file[i] # NoFile}

(* The server ends, and with it all requests it is serving.                *)
Crash ==
  /\ pc'  = [r \in Request |-> IF pc[r] \in {"start", "done"} THEN pc[r] ELSE "dead"]
  /\ job' = [r \in Splitter |-> Dropped(job[r])]
  /\ UNCHANGED <<size, attrs, next, todo, files, read, answer, response, disturbed>>

-------------------------------------------------------------------------------
Split(r) == Refuse(r) \/ AdmitSplit(r) \/ Decline(r) \/ WriteChunk(r) \/ WriteFails(r)
            \/ Written(r) \/ Publish(r) \/ PublishFails(r) \/ FinishSplit(r)

Delete(d) == Refuse(d) \/ AdmitDelete(d) \/ List(d) \/ (\E f \in todo[d] : Remove(d, f))
             \/ RemoveFails(d) \/ FinishDelete(d)

Job(r, i) == Run(r, i) \/ Succeed(r, i) \/ FailJob(r, i) \/ Timeout(r, i)

Next == (\E r \in Splitter : Split(r)) \/ (\E d \in Deleter : Delete(d))
        \/ (\E r \in Splitter, i \in Index : Job(r, i)) \/ Crash

Spec == Init /\ [][Next]_vars

-------------------------------------------------------------------------------
(* Properties.                                                             *)

TypeOK ==
  /\ \A r \in Splitter : <<size[r], attrs[r]>> \in Asked
  /\ pc \in [Request -> {"start", "write", "publish", "list", "remove", "done", "dead"}]
  /\ next \in [Splitter -> 0..MaxChunks]
  /\ todo \in [Deleter -> SUBSET ({"chunk", "data"} \X Index)]
  /\ file \in [Index -> Splitter \cup {NoFile, Blank}]
  /\ data \in [Index -> Splitter \cup {NoFile, Blank}]
  /\ job \in [Splitter -> [Index -> {"none", "queued", "running", "ended"}]]
  /\ read \in [Splitter -> [Index -> Splitter \cup {NoFile, Blank}]]
  /\ answer \in [Splitter -> [Index -> {"none", "value", "error"}]]
  /\ response \in [Request -> {"none", "notFound", "conflict", "declined", "writeError",
                               "publishError", "jobError", "ok", "removeError"}]
  /\ disturbed \in SUBSET Request

(* All chunks of the split have been written.                             *)
Complete(r) == pc[r] = "publish" \/ response[r] \in {"publishError", "jobError", "ok"}

(* Unless another request has come in between, the chunk files of a split  *)
(* that was written to its end cover each position of the corpus exactly   *)
(* once, and there is no other chunk file for OpenSplitCorpus to list,     *)
(* whatever earlier requests and crashes have left.  (A split into no      *)
(* chunks is excepted: a negative size whose amount exceeds the corpus is  *)
(* accepted as one.)                                                       *)
(* (edit/edit.go:71-116, handlers/edit.go:83-98, corpus/common.go:48-66)   *)
SplitCoversCorpus ==
  \A r \in Splitter : Complete(r) /\ Chunks(r) # {} /\ r \notin disturbed =>
    /\ Opened = Chunks(r)
    /\ \A x \in 0..(Size - 1) :
         Cardinality({i \in Opened : file[i] \in Splitter /\ x \in Piece(file[i], i)}) = 1

(* Chunks of different splits, or a chunk and the frequencies of another   *)
(* split, are in the directory together only if the requests overlapped.   *)
(* (handlers/edit.go:87-98, 105, edit/edit.go:38-69)                       *)
NoMixedSplits ==
  \A i \in Index : file[i] \in Splitter =>
    /\ \A j \in Index : file[j] \in Splitter \ {file[i]} => {file[i], file[j]} \subseteq disturbed
    /\ data[i] \notin {NoFile, file[i]} => file[i] \in disturbed

(* A split answered 200 has had all its frequencies computed, from its own *)
(* chunks, unless another request interfered; and even then no job of its  *)
(* own has failed.  (handlers/edit.go:111-159, worker/actions.go:224-238)  *)
OkMeansComputed ==
  \A r \in Splitter : response[r] = "ok" =>
    /\ \A i \in Chunks(r) : answer[r][i] = "value" /\ job[r][i] = "ended"
    /\ attrs[r] /\ r \notin disturbed => \A i \in Chunks(r) : data[i] = r

(* A deletion that reports success leaves no chunk behind, unless a split  *)
(* was being written meanwhile.  (edit/edit.go:55-69)                      *)
DeleteIsComplete ==
  \A d \in Deleter : response[d] = "ok" /\ d \notin disturbed
    => Opened = {}
===============================================================================
