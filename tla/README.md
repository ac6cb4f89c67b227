# TLA+ models of MQuery

MQuery is an HTTP API over the Manatee corpus search engine. One program,
`cmd/mquery`, runs either as the API server or as a worker. The server turns a
request into jobs, the workers compute them in C++ (`mango/`), and Redis carries
jobs and answers between them. This directory holds TLA+ models of that system,
TLC configurations that check them, and TLAPS proofs about them. `PROJECT.json`
maps every definition that models code to its lines.

## 1. Inventory

### Components, their state and their operations

| Component | State | Operations |
|---|---|---|
| **Job queue** `rdb/client.go` | Redis list `mqueryQueue`; one PUBSUB channel and one key per call; PUBSUB channel "newQuery"; per call a goroutine, a timer, an unbuffered Go channel | `PublishQuery`, `DequeueQuery`, `SomeoneListens`, `PublishResult`, `Subscribe` |
| **Worker** `worker/worker.go` | the job in hand; ticker; messages | `Start` (loop), `tryNextQuery`, `runQueryProtected`, `publishResult` |
| **Worker functions** `worker/actions.go` | cache of text type sizes | one function per kind of query; all but the cache is a function of the corpus |
| **One-job handlers** `corpus/handlers/*.go` | none | publish, wait, test the error, test the type, respond |
| **Parallel handlers** `freqs.go`, `ttypes2.go`, `ttoverview.go` | WaitGroup, mutex, merged result, slice of errors, flag | publish in a loop, one goroutine per job, merge, join, respond |
| **Streaming handlers** `ttchunked.go` | channel of 10, merged result, filter stage | one goroutine per chunk, a snapshot per answer, SSE output |
| **Collocations with examples** `collswithex.go` | channels of several jobs | two jobs, then a fan-out |
| **Split corpora** `corpus/edit`, `corpus/common.go`, `handlers/edit.go` | directory of `.subc` files shared by all processes | split, delete, open; jobs that fill the directory |
| **Results** `rdb/results` | none | `MergeWith`, `Cut`, `CompileFreqResult` (in `worker`), `BinAsDataSeries` |
| **Corpus information** `corpus/infoload`, `corpus/conf.go` | two unguarded maps | load on demand, read, modify in place |
| **Monitoring** `monitoring` | channels to a database writer | `Write`, called by every goroutine of `PublishQuery` |
| **Server and worker processes** `cmd/mquery` | configuration | start, signal, stop; systemd restarts workers |
| Manatee binding, audio, proxy, MCP server, formatting | none that another part reads | pure calls, pure I/O |

### How they interact

A handler calls `PublishQuery` (call). It subscribes to a new channel, LPUSHes
the query, starts a goroutine and publishes "newQuery" (messages through Redis).
A worker, woken by the message or by its ticker, RPOPs the query, asks how many
subscribers its channel has, runs it, SETs the result under the channel's name
and PUBLISHes the name on the channel. The goroutine, woken by that or by its
timer, GETs the result and hands it to the handler over the Go channel. Parallel
handlers do this for several jobs and join the goroutines (shared memory). Split
corpora are shared between handlers and workers through the file system.

### What is hard, and what makes each part correct

* **Job queue and worker.** Concurrency between server goroutines and several
  processes, commands that fail with unknown effect, at-most-once messages,
  crashes, a timer racing an answer. Correct means: no query runs twice; an
  answer is what the job ended with; an announced answer is there; whoever waits
  is answered; nothing stays in the list; nothing leaks.
* **Parallel handlers.** Unsynchronised appends, a WaitGroup that must meet all
  failure paths, partial failure. Correct means: a success is complete, a
  failure is visible, the request ends.
* **Streaming.** Snapshots taken outside the lock, a bounded channel, a consumer
  that leaves. Correct means: the data grow, the last message is complete, the
  producers end.
* **Split corpora.** Check-then-act on files, late jobs after a delete. Correct
  means: the chunks tile the corpus, a split that opens is complete.
* **Results and binning.** Merging bounded lists, zero bases, window sizes.
  Correct means: sums agree with a reference, no panic.
* **Caches.** Unsynchronised maps and shared pointers. Correct means: a reader
  sees what the corpus says.

`PROJECT.json` "hazards" lists each hazard at its line, with the properties that
cover it.

## 2. Plan

| # | Modules | Composition | Theorems worth proving | State |
|---|---|---|---|---|
| 1 | `QueryService`, `QueryBus` | `QueryBus` implements `QueryService` | typing, single execution, answers, refinement | done |
| 2 | `FanOut` | uses the promise of `QueryService` | completeness of a 200, status, quiet after the response | done |
| 3 | `StreamCalc` | as `FanOut` | no send after close, what a copy contains, one message per chunk | done |
| 4 | `SplitCorpus` | jobs by `QueryService`, files shared | chunks cover the corpus, a success has been computed, deletions | done |
| 5 | `FreqMerge`, `Results` | `Results` extends `FreqMerge`; `FanOut` has the goroutines around the merge | merging and cutting, binning, contexts | done |
| 6 | `WorkerFunctions`, `Handlers`, `CollExamples` | each extends the one before; jobs by `QueryService` | who is to blame, one response, every collocate accounted for | done |
| 7 | `CorpusInfo` | the goroutine of a query, abridged from `QueryBus` | the caches hold what belongs there | done |

Every module declares its bounds as CONSTANTS with named assumptions, has one
action per operation, states its invariants as conjunctions of named parts, and
is free of RECURSIVE operators. Every invariant of every passing run, the action
properties `NothingAfterResponse` and `ForgottenNotRun`, and the refinement are
proved; so is the action property `StreamGrows` of `CollExamples`, which no run
checks. Left: what a bigger model would add (section 6).

## 3. The modules

### QueryBus, QueryService, QueryBusInv, QueryBusMC

A member of `Query` is one call of `PublishQuery`. It stands for the channel the
call creates, which is the job's identity, its PUBSUB channel and its key.

| Variable | Code |
|---|---|
| `call` | where the handler is: before LPUSH (`push`), before the last PUBLISH (`notify`), receiving (`wait`), given an error (`failed`), given an answer (`answered`), left or dead (`gone`) |
| `gor` | the goroutine of client.go:273-349: in `select`, about to GET, about to send, about to write to the log, about to close, ended |
| `reply`, `inbox` | its WorkerResult; a message in `sub.Channel()` |
| `sub` | the subscription as Redis knows it: SUBSCRIBE sent, in force, closed |
| `queue`, `store` | the list and the keys |
| `phase`, `job`, `result`, `wakeups` | the worker in `tryNextQuery`, its job, its result, unread messages |
| `serverUp`, `faults` | the server process; failures so far |
| `runs`, `outcome`, `fate`, `lapsed`, `resent` | history, read by the properties only |

Each Redis command is one action. A failing command is an action of its own; if
it writes, it may have been applied or not, since a lost reply looks like a
failure. The failures that happen without anyone's doing share the budget
`MaxFaults`: failing commands, resent commands, lost connections, crashes,
encoding errors, and an expired key or an undecodable value (both in `GetFails`).
The client library sends a command once more if its reply was lost; the commands
for which that makes a difference have an action for the copy that Redis applies
first (`PushAgain`, `NotifyAgain`, `DequeueAgain`, `PublishAgain`). The second
copy of a query is normally dropped as inactive, once the goroutine has closed
its subscription, but two workers may run it before that: `resent` names the
queries concerned, and `outcome` is the set of results the runs of a query had. A
result is a member of `Value`. `ChannelSize` is the capacity of the channel on
which a worker's client keeps unread messages; those that find it full are lost. Subscribing is not
confirmed, so `Subscribe` and `SubscriptionActive` are two actions. Once it has
delivered, the goroutine writes to the log of jobs (`Log`) before its deferred
`sub.Close` runs; only after a failed GET it does not. That write is a send on a
channel of the library that fills the table, and may never end. Two details
of the code are worth knowing when reading the model: `DequeueFails` returns to
the idle phase like an empty queue because DequeueQuery tests the value before
the error (client.go:359-364), and a publication that failed is followed by a
second attempt that cannot be encoded (its error type is not registered with gob),
so the next thing Redis sees is the ErrorResult of `tryNextQuery`.

`QueryService` is the abstract specification: a call is open until it is refused,
answered once, or left; its query is executed at most once unless it has been repeated (`Repeat`); the
answer is what an execution ended with, or an error. `QueryBus` instantiates it with
`callStatus`, `outcome` and `callAnswer` (`ImplementsService`,
`ServiceProgress`).

`QueryBusInv` holds the inductive invariants, `QueryBusMC` the symmetry set.

### FanOut, FanOutInv

One request that is served by several jobs. `kind`, chosen in `Init`, says which
of the three parallel handlers serves it; where they differ in code, the actions
differ by guards (`PublishFailsLogged` against `PublishFails`), and by
`Complaints` and `Merges`. `pc` and `next` are the handler and its loop, `wg` the
WaitGroup, `gor` the goroutines. Appending to the slice of errors is two steps,
reading its header and writing it: an append that overlaps with others undoes
them, which is what the data race does to the header. The contents of the slice
are left out, because only its emptiness decides the response; so is which error
a racing pair leaves in its first element. Of the data only the origin is kept:
`merged` is the set of jobs whose frequencies are in the result. A goroutine
reads the result when it takes the lock (`copy`) and writes it back when it
leaves, so that a missing lock would lose data. `size` is the CorpusSize that
`MergeWith` takes over from whatever it merges. The final sort and cut belong to
the response and do not touch what the properties read; `FreqMerge` has them.

The job queue enters by its promise alone: `PublishQuery` fails, or an answer
comes (`ServiceProgress`). `FanOutInv` holds the inductive invariant.

### StreamCalc, StreamCalcInv

One streamed request: the goroutines of `streamCalc`, one per chunk, the
goroutine of `filterByYearRange` if FreqsByYears is the handler, and the handler.

| Variable | Code |
|---|---|
| `filter` | chosen in `Init`: no filter (TextTypesStreamed), a plain one, one that bins, one with an invalid date |
| `gor`, `answer` | each goroutine and what its job was answered with |
| `holder`, `conc`, `items` | `mergedFreqLock`; the chunks whose numbers are in the `ConcSize`, and whose items are in the `Freqs`, of the merged result |
| `snap` | the message a goroutine prepares, `*result` included |
| `chan`, `closed` | `messageChannel` |
| `stage`, `held` | the filter's goroutine and the message it offers on its unbuffered channel |
| `client`, `got`, `shown` | the handler; messages written per chunk; the ConcSize last written |
| `alive` | the server process |

`MergeWith` is two steps (totals, items) under the lock; copying `*result` is two
steps outside it, so that another goroutine may merge in between. A copy has its
own totals, but the items it refers to are those of the result, which go on
growing; `known` is which items it has. The fields of the struct are copied in
their order, the totals first, and reading a slice header is taken as one step. (Go does not promise it; a torn header is memory corruption, which no
property could survive.) Three facts of the code show up as outcomes of an
action: json.Marshal refuses a NaN (`MayNotMarshal`), after which the handler
leaves and nobody drains the channel; the binning panics on a list shorter than
its window, which ends the server (`BinPanics`); an invalid date makes the filter
swallow all messages and send one error that belongs to no chunk. The first two
are permitted at every message of the kind they need, since frequencies are not
modelled. `StreamCalcInv` holds the inductive invariants.

### SplitCorpus, SplitCorpusInv, SplitCorpusMC

Requests to split a corpus (`Splitter`), requests to delete the split (`Deleter`),
and the jobs that compute frequencies of the chunks, over one directory that
nobody locks. `Asked` are the arguments a split may have: a chunk size, which is
any integer, and whether there are attributes to compute frequencies of.

| Variable | Code |
|---|---|
| `pc`, `next`, `todo` | each handler: the test for existence, the loop over the chunk files, the loop over the jobs; the listing and the loop of a deletion |
| `file`, `data` | the chunk files by the request that wrote them, and the frequency files next to them by the chunk they were computed from |
| `job`, `read`, `answer` | the jobs, the chunk each has read, and what the goroutines of the handler were told |
| `response` | the answer to the client |
| `disturbed` | history: the requests another one has interfered with |

Looking at the directory and writing to it are separate actions, one for each
file; a write may fail with or without an empty file left behind, a job may end
after its caller has had a timeout, the server may end at any time. The number of
chunks is computed as in the code, with the quotient rounded up for either sign,
since a negative chunk size passes the parser. The properties say what holds
unless requests overlap, and `disturbed` says exactly which overlaps matter.

### WorkerFunctions, Handlers, CollExamples, CollExamplesInv

`WorkerFunctions` has, for each function of a worker and each set of unusual
arguments, the ends it may have: a value, an error blamed on the user, another
error, or a panic. The functions are composed from the calls to Manatee as in
`worker/actions.go` and `mango/mango.go`.

`Handlers` is one request to one of thirteen handlers. What distinguishes the
handlers is data: the checks in their order, what is passed on to the worker, and
the function called. `request` is the set of what is unusual about the request,
`jobs` the jobs published with their ends, `todo` what a chain of jobs still has
to do (the forms of words), `responses` all that was written to the client,
because nothing in the code prevents a second response. Where a job searches
(`Subcorpus`) depends on where the checks stop: without a query,
DetermineQueryProps returns before it has read the name of a subcorpus, so that
TermFrequency, which goes on, searches the whole corpus.

`CollExamples` adds what CollocationsExtended does, which streams: two first jobs
that are published before either is awaited, then one goroutine per collocate
(`gor`), all sending on one unbuffered channel. A goroutine whose job fails writes
to the response itself, beside the handler that is writing (`intruders`,
`garbled`).

### FreqMerge, Results, ResultsInv, ResultsMC

Computations rather than processes. `FreqMerge` compiles the list of each chunk as
the worker does, merges the lists in any order and cuts the result; `known` are
the text types whose sizes the worker has in its cache, which is never refreshed.
`Results` adds the binning of time series and the composition of the context of a
token, each with inputs chosen by `Init` and compared with a reference in the
properties. Binning is a loop: `BeginBins` decides how many items a bin has, each
`TakeItem` is one turn, which may complete a bin, and `EndBins` deals with the bin
that is not full; `taken` is the loop's index, `bin` its `currBin`. The properties
add frequencies up by counting: a word that occurs f times in a chunk stands for f
occurrences (`Occurrences`), an item of frequency f for f tokens (`Tokens`), so that
no sum is defined by recursion in the model and once more in the property. The z-scores are compared without floating point: squares and common
denominators decide the same comparisons. A z-score of 0/0 compares as NaN does,
so that a series with a constant window is not grouped.

### CorpusInfo, CorpusInfoInv, CorpusInfoMC

Requests for information and for lists of corpora.

| Variable | Code |
|---|---|
| `zeroConf`, `registry` | whether corpora need no configuration file; the registry files, which an administrator may change (`changes` counts) |
| `made`, `autoConf` | `autoConfCache`, a map that is made when first needed |
| `cache`, `object`, `props` | the cache of `infoload`, and the objects it points to, which requests share and complete in place |
| `pc`, `asked`, `local` | the handler, its arguments and its local variables |
| `query`, `monitor` | the goroutine of PublishQuery, which delivers and then logs; the log writer, which may stick for ever |
| `reply` | what the client got |

Each access to a map is an action. Where two requests access one map at a time
and one of them writes, Go promises nothing: `Abort` is the detection by the
runtime, which ends the server, and otherwise the accesses happen one after the
other.

## 4. The runs

| Run | Instance | What it shows |
|---|---|---|
| `bus_safety` | 2 calls, 2 workers, 1 fault, symmetric; 2.1 million states | `TypeOK`; `SingleExecution` (of a query that was not resent); `PublishedReachesCaller`: what a worker has published without error is in the channel of a goroutine that still waits; `NotifiedFindsResult`; `HonestAnswer`; `ForgottenNotRun`: no execution begins of a query whose goroutine has ended; the refinement `ImplementsService` |
| `bus_liveness` | 1 call, 2 workers, 2 faults, fairness; 362 000 states | `QueueDrains`; `ListenerReleased`; `ServiceProgress` |
| `bus_error_doc` | 1 call, 1 worker, 1 fault | violated: an error of PublishQuery does not mean that the query has not been published |
| `bus_listener_doc` | 1 call, 1 worker, no fault | violated: a worker drops as inactive a query whose caller waits |
| `fanout` | 3 jobs, three handlers, fairness; 430 000 states | `TypeOK`; `OkIsComplete`; `BadRequestIffUserError`; `NothingAfterResponse`; `EveryRequestAnswered` |
| `fanout_size_doc` | 2 jobs | violated: a successful response has CorpusSize 0 |
| `stream` | 3 chunks, a channel of one place, four filters, fairness; 132 000 states | `TypeOK`; `NoSendAfterClose`; `OneMessagePerChunk`; `CopyIsCoherent`: a message has its own chunk, and totals at most one merge ahead of its items; `StreamCloses` |
| `stream_doc` | 2 chunks, a channel of two places | violated: the last message of a stream without failures lacks a chunk |
| `split` | 2 splits, 1 deletion, a corpus of 3 positions, chunk sizes -9, 0, 1, 2 and 3, with and without frequencies, at most 2 chunks, symmetric; 2.1 million states | `TypeOK`; `SplitCoversCorpus`: the chunks that can be opened cover each position once; `NoMixedSplits`; `OkMeansComputed`; `DeleteIsComplete` |
| `requests` | 13 handlers, 2 groups of lemmas, 3 collocates, fairness; 19 000 states | `TypeOK`; `RefusedOnce`; `OkIsTrue`; `BlameIsRight`: whom a status blames; `EveryCollocateAccounted`; `NobodyLeftWaiting`; `EveryRequestEnds` |
| `results` | 2 chunks, 3 words with frequencies up to 2; series of 4, 9, 10, 11 and 13 items, window 10; a corpus of 5 positions; symmetric; 404 500 states | `TypeOK`; `MergeIsExact`; `FinalIsTop`; `BinsKeepTotals`; `ContextIsWindow` |
| `corpinfo` | 2 requests, 2 corpora (1 configured), 2 locales, 2 text properties, 1 change of a registry file, fairness; 481 000 states | `TypeOK`; `InfoIsRight`; `EveryRequestEnds` |

**Bounds.** Two calls and two workers are what interference needs: calls meet
only in the list and in the workers, and a property names at most two workers.
One fault at two calls covers each failure in each interleaving; two faults at
one call cover a failure of the recovery from a failure (publishing the error of
a failed publication, a crash followed by a lost query). Liveness is checked at
one call because it is about one call; a second one only delays it, as the list
is first in, first out. Three jobs in `fanout` give two goroutines and the
handler racing for the slice, or three goroutines. The theorems below remove the
bounds for the safety properties. In `stream`, three chunks on
a channel of one place (ten in the code) make the channel full with a sender
waiting and another merging, as eleven chunks do in the code. In `bus_*` a
`ChannelSize` of one (100 in the client library) lets a message get lost when two
calls follow each other.

In `split`, two splits and a deletion give every overlap of two writers, and of a
late job with a deletion followed by another split. Three positions with at most
two chunks make each size one of a kind: too many chunks (1), an incomplete last
chunk (2), a single chunk (3), a division by zero (0), a negative size that
exceeds the corpus (-9). In `requests` there is one request, because requests
share nothing but the queue; three collocates let a second error meet the first
while an item is offered. In `results`, two chunks are enough because merging is
a fold: a third chunk meets a merged list as the second does; the lengths lie on
either side of the thresholds of the code (5, the window of 10, and the 10 up to
which a series is not grouped), and 11 and 13 leave an incomplete last bin. In
`corpinfo` two requests are what a race needs, and the second corpus, the second
locale and the second property are what a wrong key or an incomplete list needs.

The `bus_*` runs check for deadlock; the others do not, because a request ends.

**Fairness.** `QueryBus`: a handler inside `PublishQuery` proceeds, goroutines
proceed (their timer fires) except where they write to the log, Redis confirms subscriptions, workers proceed and
are restarted (the systemd unit says `Restart=always`), the ticker fires. Not
assumed: that anybody calls, gives up, fails, that a stopped server is
started, or that a write to the log ends. It is assumed that a job ends, which the code itself does not enforce.
`FanOut`: the handler and each goroutine are weakly fair, which is the Go
scheduler; answers come. Nothing stronger is needed for the mutex, because every
goroutine takes it once. `StreamCalc`: the same for each goroutine, the filter
and the handler. `CollExamples` and `CorpusInfo`: the handler and each goroutine,
and jobs are answered, if by the timeout of PublishQuery; it is not assumed that
the log writer ever takes an entry. `SplitCorpus` and `Results` state no liveness:
the handler of a split joins its goroutines with the loop that `FanOut` has, and
the results are loops over finite lists.

**What the violations say.** The four findings are disagreements between a
comment and the code, each with a short counterexample. Some neighbouring facts
are in the passing properties as explicit exceptions rather than as runs:
`EveryRequestAnswered` excepts a FreqDistribParallel with an unpublished job
(`wg.Wait` never returns). More of them:

* `ListenerReleased`: a goroutine stays for ever, with its subscription, where it
  offers an answer to a call that was given an error or whose handler has left,
  and where it waits for the writer of the log. It stays in no other place.
* `StreamCloses`: a handler that leaves because a message cannot be serialised
  drains nothing. The channel is closed all the same, unless the messages still to
  come exceed its capacity (`Blocked`). A panic in the binning ends the server.
* `RefusedOnce`: TermFrequency does not return after it has refused a query or a
  subcorpus (conc.go:355-358); it publishes a job and responds again.
* `OkIsTrue`: SyntaxConcordance checks the name of a saved subcorpus and then
  searches the whole corpus. (So does CollocationsExtended, which responds with a
  stream.) TextTypes searches whatever path is in its argument `subc`, the whole
  corpus if that is empty, even if the request names a saved subcorpus
  (ttypes.go:91-93). The second response of TermFrequency, after a refusal, may be
  a 200 that is not true: of an empty query, in the whole corpus.
* `BlameIsRight`: a negative offset or width makes the worker panic, a name of a
  subcorpus that is too short makes the handler panic, an unknown measure is no
  InputError; all three are answered 500 although the client is at fault. The
  handlers for forms of words answer 500 to every error of the user.
* `NobodyLeftWaiting`: the second corpus of a comparison is not awaited if the
  first job failed, and a failed publication may leave a goroutine; both wait for
  ever to deliver.
* `SplitCoversCorpus`: a negative chunk size whose amount exceeds the corpus is
  accepted as a split into no chunks.
* `MergeIsExact`: `MergeWith` keeps the base of whichever chunk came first, so that
  the IPM of FreqDistribParallel is relative to that chunk. A text type of size
  zero has the frequency zero, and an IPM of 0/0 once it is merged, which JSON
  refuses. If the cached sizes lack a value, CompileFreqResult returns what it has
  so far, neither complete nor sorted nor cut, and its error is ignored.
* `BinsKeepTotals`: a series of 5 to 9 items panics (`Panics`), and zeros that do
  not fill the last bin are dropped.
* `ContextIsWindow`: the token after the match is in none of the three regions.
* `InfoIsRight`: overlapping requests for the same information fill the same list
  of text properties, and may show it in any state.
* `EveryRequestEnds` of `CorpusInfo`: two requests that touch a map at once may end
  the server, and are then not answered.

## 5. The proofs

All proofs are checked by tlapm from the named assumptions on the constants, and
from nothing else:

| Assumption | What it says, and why the code justifies it |
|---|---|
| `QueryAssumption`, `NobodyAssumption`, `FileAssumption`, `ValueAssumption` | the values for "no job", "nobody", "no file" are none of the others, and a result is not one of the adapter's errors, which are types of their own in Go |
| `RequestAssumption` | a request is for splitting or for deleting: they are two routes |
| `JobsAssumption`, `FaultsAssumption`, `ChangesAssumption`, `MaxCollsAssumption`, `MaxLemmasAssumption`, `MaxChunksAssumption`, `MaxFreqAssumption`, `SizeAssumption`, `ChannelAssumption` | numbers of things are natural numbers |
| `CapAssumption`, `WindowAssumption` | the channel of a stream has a place (10 in the code); a window has at least two items, otherwise the code panics on purpose (results.go:51) |
| `AskedAssumption` | a chunk size is an integer, of either sign |
| `AsksAssumption`, `ConfiguredAssumption` | what is asked for, or configured, is a corpus |
| `ChunkAssumption`, `FiniteAssumption`, `PropsAssumption` | chunks, words and text properties are finitely many: they are the elements of slices and maps |
| `LengthsAssumption`, `ValuesAssumption` | lengths and frequencies are natural numbers |

The theorems hold for any sets of calls, workers, values, requests, corpora, chunks
and words, any number of failures, jobs, lemmas and collocates, any capacity of the
channels, and any sizes of corpora, chunks, series and windows. For each component
there is a module `...Inv` with its inductive invariant, in named parts, and TLC has
been used to check it on the instance of the component's run before it was proved.

`QueryBus_proofs`:

* `Typing`: `TypeOK` is inductive.
* `ExecutedOnce`: `SingleExecution` says nothing about queries not yet run, so it
  is not inductive. `PlaceInv` is: a query is in one place (before LPUSH, in the
  list at one position, with one worker, or done with), and in each place the
  counters of its execution are what they must be, unless it has been resent.
* `NotifiedFinds`, `Honesty`: `AnswerInv` follows a result from the worker
  through the store and the goroutine to the caller. The set `outcome` only grows, so a second
  execution takes nothing away from what is stored already (`AnswerKept`); what is
  added is what a worker has just computed (`AnswerWritten`).
* `PublishedReaches`: `ListenInv`; while a worker is past the test of
  SomeoneListens, a goroutine waiting for it stays subscribed. `Awaited` includes
  a call that has not started its goroutine yet: after `PushAgain` a worker may
  run the first copy that early.

* `NotRunForNobody`: an action property. `ClosedInv` says that a query
  whose goroutine has ended, or will not come, has no subscription any more: its
  parts about the earlier places of a call are there so that each way of ending
  closes one. A worker begins to execute only what still has one (`BegunIfActive`).

`QueryBus_refinement`: `Implementation`, the refinement of `QueryService`. Each
action is a step of the abstract specification (`Mapped`) or invisible to it
(`Invisible`), given the invariants above.

`FanOut_proofs`: `Typing` (the inductive invariant `FanInv`), `Complete`,
`Blame`, `Quiet`. The WaitGroup's counter is the number of unfinished jobs
(`WaitInv`), so the response comes after the last of them; a finished job has
added its data under the lock (`MergeInv`); a complaint leaves the slice of
errors longer than 0, and no overlapping append makes it 0 again (`ErrsInv`).

`StreamCalc_proofs`: `Typing`, `ClosedInPeace` (the channel is closed only when
no goroutine can send), `Coherence` and `OncePerChunk`. What a message may contain is fixed long
before it is in the channel, so the invariant `StreamInv` follows the data: what
is merged has been received, and stays (`MergedInv`); a copy is begun after its
goroutine has merged (`CopyInv`); what is sent is such a copy (`ChanInv`). The other half is about the lock: whoever's totals are merged and whose items are not holds it (`LockInv`), hence
there is one such chunk when a copy is begun, and later there can only be fewer
(`AheadInv`). For
`OncePerChunk`, `LedgerInv` says where the message about a chunk is: not sent
yet, at one place of the channel, with the filter, or written. At the end of the
stream the first three are ruled out, as the channel is closed and empty
(`StageInv`) and all goroutines are done (`NoSendAfterClose`).

`SplitCorpus_proofs`: `Typing`, `Coverage`, `Purity`, `Computation`, `Deletion`.
That the chunks tile the corpus is arithmetic (`Tiling`): each position is in
the piece whose number is its quotient by the chunk size, and in no other. That
the directory holds just these chunks is the invariant. A split nobody has
disturbed finds its files up to `next`, and no others, while it is writing, and
all of its chunks afterwards (`OwnInv`); to keep this, whoever is there while
another split writes has to be disturbed (`IntrudeInv`), and so have two splits
whose files meet (`MixInv`). `JobInv` follows a job from its publication to the
answer: a value that has been received was sent by a job that had written its
files. `DeleteInv` says that what is still to be opened is on the list of the
deletion (`todo`) unless a split has written since.

`CollExamples_proofs`: `Refusal`, `Success` and `Blame` for the twelve handlers
that do not stream, then `Completion`, `Accounts` and `Growing` for the stream, and
`Typing`. What a handler responds follows from how its last job has ended, and
that from the argument of the job (`JobsInv`): an error of the user has a cause
in the argument (`UserErrors`), so does a panic but for the one of tokenContext
(`Panics`), and a value means that nothing the function looks at was faulty
(`Values`); these three lemmas go through the functions of `WorkerFunctions`.
`SequentialInv` says which jobs have ended in each place of a sequential
handler, `RefusalInv` that a refused request has been told so before anything else (which is
why TermFrequency's second response is not taken for its only one), `StreamingInv` the same as `SequentialInv` of the two jobs of CollocationsExtended;
`NobodyLeftWaiting` is part of it, because a handler that is done does not wait
any more. `ExamplesInv` keeps the account of the stream: `event` is the set of
collocates with an item, except for the one that is being written, and the
number of writes by goroutines is the number of those that are done without an
item.

`Results_proofs`: `Invariance` (the inductive invariant `ResultsInv`),
`Exactness`, `Top`, `Binning`, `Surroundings`, `Typing`.

* Merging. The properties are nearly inductive, but for the bases of items that
  may be counted (`BasesInv`) and what a list of a chunk says (`ListsAreRight`),
  which is where the worker's cut has to be dealt with: if at most n words of a
  list are as frequent as a word of it, that word itself included, it is not cut
  off (`FrequentStays`: otherwise it and the n words kept would be n + 1 as
  frequent ones). A total is a number of occurrences, so merging one more chunk
  is the cardinality of a disjoint union.
* Binning. `Tiled(end)`: bins are disjoint, in order and cover the items up to
  `end`, with the frequencies of these. While the loop runs, `end` is where
  `bin` begins, and each complete bin has `perBin` items, hence `Len(bins) *
  perBin = taken - bin.base` (`BinningInv`). That the rounding leaves at most
  one bin more than wanted is `FewBins`: the number of items per bin is at least
  the quotient less a half, and the number of bins wanted is itself rounded up
  from a tenth, a fifth or a third of the length. Nothing is assumed of the
  z-scores: the argument holds for whichever branch of the heuristic is taken.
* Contexts are the region asked for, clipped to the corpus, case by case.

`CorpusInfo_proofs`: `Typing` and `InformationIsRight`. An object is written
once, before anything points to it, and with what it is found under (`CacheInv`,
`ObjectInv`), so that overlapping requests may overwrite a pointer in the cache
with another one to the same contents. The list of text properties is different,
since it is completed in place: whoever fills in the same object as somebody
else is disturbed, and whoever is not has filled the slots 1 to n with n
different properties (`FillInv`), which at the end are all of them. `CallInv`
says where a request is in the nested calls of GetCorp.

Only model-checked: the liveness properties (`QueueDrains`, `ListenerReleased`,
`ServiceProgress`, `EveryRequestAnswered`, `StreamCloses` and both
`EveryRequestEnds`), since tlapm has no rules for fairness and ENABLED. The four
violations are TLC's, too: a counterexample is its own proof. The window's
z-scores are defined with a fold over the window; nothing is proved about their
values, which are compared with the code by reading alone.

## 6. Not modelled

* A resent LPUSH of a job that fills a split: `SplitCorpus` takes a published job
  to run at most once. A second run would write the same files again.
* The name of the query channel. The adapter's default is shadowed (`chQuery :=`
  in rdb/client.go), so that without a configured name both sides use the empty
  one, and still meet.
* Expiry of result keys by time; it is one of the causes of `GetFails`.
* The end of a worker by a C++ exception (`new Corpus` stands outside the try
  block of `conc_examples`, mango.cc:338) as an end of a function in
  `WorkerFunctions`. To everybody else it is the crash of a worker, which
  `QueryBus` has.
* Middleware (authentication, CORS, the header with a timeout) and the loading of
  the configuration: sequential, before any handler. In the streaming handlers,
  also the checks of arguments, which only respond.
* In `CorpusInfo`: variants of corpora, and the racy assignment of
  `fullConcTextPropsAttrs`, whose writers all write the same.
* What stops the writer of the log: `QueryBus` lets any write last for ever, and
  `CorpusInfo` has the writer that sticks. Entries of the log and averages of load
  are data.
* Result types that only carry data, and their MarshalJSON, which rename fields;
  the contents of concordances, queries and collocations, among them which of
  several lemmas with a common sublemma OtherForms reports (only one).
* Manatee itself, the Markdown output, the MCP server, audio and the proxy: no
  state that another part reads.
