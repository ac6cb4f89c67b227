------------------------------ MODULE StreamCalc ------------------------------
(***************************************************************************)
(* Streamed frequencies (corpus/handlers/ttchunked.go): streamCalc starts  *)
(* one goroutine per chunk of a split corpus; each merges its answer into  *)
(* a shared result under a lock, copies the result once the lock is        *)
(* released, and sends the copy on a bounded channel.  The handler         *)
(* (TextTypesStreamed, FreqsByYears) serialises what it receives into an   *)
(* event stream; FreqsByYears puts filterByYearRange, a goroutine with an  *)
(* unbuffered channel, in between.                                         *)
(*                                                                         *)
(* The job queue is taken by its promise (QueryService).  Of the data only *)
(* the origin is kept: conc is the set of chunks whose numbers are in      *)
(* ConcSize, items the set of those whose items are in Freqs.  A copy has  *)
(* a ConcSize of its own but shares the items that were in the list, so    *)
(* that known, the chunks merged when the list was copied, says which      *)
(* items it has, and the items of the result say which values they show.   *)
(* A slice header is taken to be read in one piece, and the fields of the  *)
(* struct in their order, ConcSize before Freqs.                           *)
(***************************************************************************)
EXTENDS Naturals, Sequences, FiniteSets

CONSTANTS
  Chunk,   \* the chunks of the split corpus
  Cap,     \* capacity of messageChannel (10)
  Nobody   \* the lock is free

ASSUME ChunkAssumption == IsFiniteSet(Chunk) /\ Nobody \notin Chunk
ASSUME CapAssumption == Cap \in Nat \ {0}

VARIABLES
  filter,    \* the stage in between: "off", "plain", "autobin", "badDate"
  gor,       \* where the goroutine of each chunk is
  answer,    \* what its job was answered with
  holder,    \* who holds mergedFreqLock
  conc,      \* the merged result: ConcSize
  items,     \* the merged result: Freqs
  snap,      \* the message each goroutine prepares
  chan,      \* messageChannel
  closed,    \* messageChannel is closed
  stage,     \* where the goroutine of filterByYearRange is
  held,      \* the message it has
  client,    \* where the handler is
  got,       \* messages about each chunk that were written to the client
  shown,     \* the ConcSize of the last data message written
  alive      \* FALSE once a panic has ended the server

producer == <<answer, holder, conc, items>>
channel  == <<chan, closed>>
reader   == <<stage, held, client, got, shown>>
vars     == <<filter, gor, producer, snap, channel, reader, alive>>

-------------------------------------------------------------------------------
Filter == {"off", "plain", "autobin", "badDate"}

Message == [chunk : Chunk \cup {Nobody}, kind : {"data", "error"},
            conc : SUBSET Chunk, known : SUBSET Chunk]

ErrorMessage(c) == [chunk |-> c, kind |-> "error", conc |-> {}, known |-> {}]

Init ==
  /\ filter \in Filter
  /\ gor    = [c \in Chunk |-> "start"]
  /\ answer = [c \in Chunk |-> "none"]
  /\ holder = Nobody /\ conc = {} /\ items = {}
  /\ snap   = [c \in Chunk |-> ErrorMessage(c)]
  /\ chan = <<>> /\ closed = FALSE
  /\ stage = IF filter = "off" THEN "off" ELSE "receive"
  /\ held = ErrorMessage(Nobody)
  /\ client = "receive"
  /\ got = [c \in Chunk |-> 0] /\ shown = {}
  /\ alive = TRUE

-------------------------------------------------------------------------------
(* The goroutine of a chunk.                                               *)

Step(c, from, to) ==
  /\ alive /\ gor[c] = from
  /\ gor' = [gor EXCEPT ![c] = to]

Publish(c) ==
  /\ Step(c, "start", "wait")
  /\ UNCHANGED <<filter, producer, snap, channel, reader, alive>>

(* PublishQuery fails, or the answer is an error or has a wrong type: the  *)
(* error becomes the message of the chunk.                                 *)
Fail(c) ==
  /\ Step(c, "start", "send") \/ Step(c, "wait", "send")
  /\ answer' = [answer EXCEPT ![c] = "error"]
  /\ UNCHANGED <<filter, holder, conc, items, snap, channel, reader, alive>>

Receive(c) ==
  /\ Step(c, "wait", "lock")
  /\ answer' = [answer EXCEPT ![c] = "value"]
  /\ UNCHANGED <<filter, holder, conc, items, snap, channel, reader, alive>>

(* Variant: the merge is not locked.                                       *)
EnterUnlocked(c) ==
  /\ Step(c, "lock", "totals")
  /\ holder' = c
  /\ UNCHANGED <<filter, answer, conc, items, snap, channel, reader, alive>>

Lock(c) ==
  /\ Step(c, "lock", "totals")
  /\ holder = Nobody /\ holder' = c
  /\ UNCHANGED <<filter, answer, conc, items, snap, channel, reader, alive>>

(* MergeWith: first the totals ...                                         *)
MergeTotals(c) ==
  /\ Step(c, "totals", "items")
  /\ conc' = conc \cup {c}
  /\ UNCHANGED <<filter, answer, holder, items, snap, channel, reader, alive>>

(* ... then the items, and Unlock.                                         *)
MergeItems(c) ==
  /\ Step(c, "items", "copy")
  /\ items' = items \cup {c}
  /\ holder' = Nobody
  /\ UNCHANGED <<filter, answer, conc, snap, channel, reader, alive>>

(* `Entries: *result`, field by field, while others may be merging.        *)
CopyTotals(c) ==
  /\ Step(c, "copy", "copyList")
  /\ snap' = [snap EXCEPT ![c].kind = "data", ![c].conc = conc]
  /\ UNCHANGED <<filter, producer, channel, reader, alive>>

CopyList(c) ==
  /\ Step(c, "copyList", "send")
  /\ snap' = [snap EXCEPT ![c].known = items]
  /\ UNCHANGED <<filter, producer, channel, reader, alive>>

(* Variant: an error message is sent and the goroutine does not return.    *)
SendErrorAndGoOn(c) ==
  /\ IF answer[c] = "error" /\ snap[c].kind = "error"
       THEN Step(c, "send", "copy") ELSE Step(c, "send", "done")
  /\ Len(chan) < Cap
  /\ chan' = Append(chan, snap[c])
  /\ UNCHANGED <<filter, producer, snap, closed, reader, alive>>

(* Variant: an unbounded queue in place of the channel.                    *)
SendUnbounded(c) ==
  /\ Step(c, "send", "done")
  /\ chan' = Append(chan, snap[c])
  /\ UNCHANGED <<filter, producer, snap, closed, reader, alive>>

(* The message is sent, and the deferred wg.Done runs.                     *)
Send(c) ==
  /\ Step(c, "send", "done")
  /\ Len(chan) < Cap
  /\ chan' = Append(chan, snap[c])
  /\ UNCHANGED <<filter, producer, snap, closed, reader, alive>>

(* Variant: nobody waits for the goroutines.                               *)
CloseAtOnce ==
  /\ alive /\ ~closed
  /\ \A c \in Chunk : gor[c] # "start"
  /\ closed' = TRUE
  /\ UNCHANGED <<filter, gor, producer, snap, chan, reader, alive>>

(* wg.Wait, then close.                                                    *)
Close ==
  /\ alive /\ ~closed
  /\ \A c \in Chunk : gor[c] = "done"
  /\ closed' = TRUE
  /\ UNCHANGED <<filter, gor, producer, snap, chan, reader, alive>>

-------------------------------------------------------------------------------
(* filterByYearRange.  With a date that cannot be parsed it consumes all   *)
(* messages and sends one error of its own.                                *)

FilterTakes ==
  /\ alive /\ stage = "receive" /\ chan # <<>>
  /\ chan' = Tail(chan)
  /\ IF filter = "badDate"
       THEN UNCHANGED <<stage, held>>
       ELSE stage' = "offer" /\ held' = Head(chan)
  /\ UNCHANGED <<filter, gor, producer, snap, closed, client, got, shown, alive>>

(* BinAsDataSeries panics on a list shorter than its window.               *)
BinPanics ==
  /\ alive /\ stage = "receive" /\ chan # <<>>
  /\ filter = "autobin" /\ Head(chan).kind = "data"
  /\ alive' = FALSE
  /\ UNCHANGED <<filter, gor, producer, snap, channel, reader>>

(* The input is closed and empty.                                          *)
FilterEnds ==
  /\ alive /\ stage = "receive" /\ chan = <<>> /\ closed
  /\ IF filter = "badDate"
       THEN stage' = "offerLast" /\ held' = ErrorMessage(Nobody)
       ELSE stage' = "closed" /\ UNCHANGED held
  /\ UNCHANGED <<filter, gor, producer, snap, channel, client, got, shown, alive>>

-------------------------------------------------------------------------------
(* The handler.                                                            *)

(* A value with a zero Base makes the IPM of a merged item, or of a bin,   *)
(* NaN, which json.Marshal refuses.                                        *)
MayNotMarshal(m) ==
  m.kind = "data" /\ (filter = "autobin" \/ Cardinality(items) > 1)

(* The message is written, or it cannot be serialised and the handler      *)
(* writes an error and returns.                                            *)
Show(m) ==
  \/ /\ client' = client
     /\ got' = IF m.chunk = Nobody THEN got ELSE [got EXCEPT ![m.chunk] = @ + 1]
     /\ shown' = IF m.kind = "data" THEN m.conc ELSE shown
  \/ /\ MayNotMarshal(m)
     /\ client' = "left"
     /\ UNCHANGED <<got, shown>>

TakeDirectly ==
  /\ alive /\ client = "receive" /\ stage = "off" /\ chan # <<>>
  /\ chan' = Tail(chan)
  /\ Show(Head(chan))
  /\ UNCHANGED <<filter, gor, producer, snap, closed, stage, held, alive>>

TakeFiltered ==
  /\ alive /\ client = "receive" /\ stage \in {"offer", "offerLast"}
  /\ stage' = IF stage = "offer" THEN "receive" ELSE "closed"
  /\ Show(held)
  /\ UNCHANGED <<filter, gor, producer, snap, channel, held, alive>>

(* Variant: the handler leaves the loop as soon as the channel is empty.   *)
FinishEarly ==
  /\ alive /\ client = "receive"
  /\ \/ stage = "off" /\ chan = <<>>
     \/ stage = "closed"
  /\ client' = "ended"
  /\ UNCHANGED <<filter, gor, producer, snap, channel, stage, held, got, shown, alive>>

(* range over a closed channel ends.                                       *)
Finish ==
  /\ alive /\ client = "receive"
  /\ \/ stage = "off" /\ chan = <<>> /\ closed
     \/ stage = "closed"
  /\ client' = "ended"
  /\ UNCHANGED <<filter, gor, producer, snap, channel, stage, held, got, shown, alive>>

-------------------------------------------------------------------------------
Producer(c) == Publish(c) \/ Fail(c) \/ Receive(c) \/ Lock(c) \/ MergeTotals(c)
               \/ MergeItems(c) \/ CopyTotals(c) \/ CopyList(c) \/ Send(c)

FilterStage == FilterTakes \/ BinPanics \/ FilterEnds

Consumer == TakeDirectly \/ TakeFiltered \/ Finish

Next == (\E c \in Chunk : Producer(c)) \/ Close \/ FilterStage \/ Consumer

Spec == Init /\ [][Next]_vars

(* Goroutines and the handler run on, and answers come (ServiceProgress of *)
(* QueryBus).                                                              *)
Fairness ==
  /\ \A c \in Chunk : WF_vars(Producer(c))
  /\ WF_vars(Close) /\ WF_vars(FilterStage) /\ WF_vars(Consumer)

FairSpec == Spec /\ Fairness

-------------------------------------------------------------------------------
(* Properties.                                                             *)

TypeOK ==
  /\ filter \in Filter
  /\ gor \in [Chunk -> {"start", "wait", "lock", "totals", "items", "copy", "copyList",
                        "send", "done"}]
  /\ answer \in [Chunk -> {"none", "value", "error"}]
  /\ holder \in Chunk \cup {Nobody}
  /\ conc \in SUBSET Chunk /\ items \in SUBSET Chunk
  /\ snap \in [Chunk -> Message]
  /\ chan \in Seq(Message) /\ Len(chan) <= Cap /\ closed \in BOOLEAN
  /\ stage \in {"off", "receive", "offer", "offerLast", "closed"}
  /\ held \in Message
  /\ client \in {"receive", "left", "ended"}
  /\ got \in [Chunk -> Nat] /\ shown \in SUBSET Chunk
  /\ alive \in BOOLEAN

(* Nobody sends on the closed channel, which would end the server: close   *)
(* waits for all goroutines, and each has sent by the time it is done.     *)
(* (ttchunked.go:238,293-294)                                              *)
NoSendAfterClose == closed => \A c \in Chunk : gor[c] = "done"

(* A handler that has reached the end of its stream has written exactly    *)
(* one message about each chunk, or, with an invalid date, none.           *)
(* (ttchunked.go:236-294, 142-216, 384-399, 448-463)                       *)
OneMessagePerChunk ==
  client = "ended" => \A c \in Chunk : got[c] = IF filter = "badDate" THEN 0 ELSE 1

(* A data message about a chunk shows that chunk's own numbers and items,  *)
(* whoever else is merging while the result is copied, and nothing that no *)
(* worker has sent.                                                        *)
OwnDataIncluded(m) ==
  m.chunk \in m.conc \cap m.known /\ \A c \in m.conc \cup m.known : answer[c] = "value"

(* The totals never count two chunks whose items are missing from the      *)
(* list: at most the one that was merging while they were read.            *)
OneMergeAhead(m) == \A c, d \in m.conc \ m.known : c = d

(* The result is copied without the lock, so that the totals and the items *)
(* of a message may disagree, but no more than this.                       *)
(* (ttchunked.go:281-289; results.go:240-255)                              *)
CopyIsCoherent ==
  \A i \in DOMAIN chan :
    chan[i].kind = "data" => OwnDataIncluded(chan[i]) /\ OneMergeAhead(chan[i])

(* The handler has returned without draining the channel, and more chunks  *)
(* are still to tell than the channel has places.                          *)
Blocked == client = "left" /\ Len(chan) = Cap /\ \E c \in Chunk : gor[c] = "send"

(* The handler ends and the channel gets closed: no goroutine of           *)
(* streamCalc stays blocked, not even after a handler that returned        *)
(* because a message could not be serialised, unless the messages still to *)
(* come exceed the capacity.  A panic in the binning ends the server.      *)
(* (ttchunked.go:220, 232-295, 395-397, 459-460)                           *)
StreamCloses ==
  client = "receive" ~> (closed /\ client # "receive") \/ []Blocked \/ ~alive

(* "returned SSE stream produces gradually growing data [...] (i.e. it is  *)
(* not necessary to accumulate the result)" (ttchunked.go:360-361): when   *)
(* the stream ends and no chunk has failed, the last data message shows    *)
(* the data of all chunks.                                                 *)
LastIsComplete ==
  client = "ended" /\ filter = "off" /\ (\A c \in Chunk : answer[c] = "value")
    => shown = Chunk
===============================================================================
