------------------------------ MODULE CorpusInfo ------------------------------
(***************************************************************************)
(* Information about corpora: /info and /corplist (corpus/handlers/info.go)*)
(* over the two caches they share without a lock, the configurations       *)
(* generated from registry files (corpus/conf.go GetCorp, autoconf.go) and *)
(* the information workers have found (corpus/infoload/manatee.go), with   *)
(* the goroutine of PublishQuery, which delivers an answer and then logs   *)
(* it (rdb/client.go, monitoring/tswriter.go).                             *)
(*                                                                         *)
(* Both caches are Go maps.  Two requests that access one of them at a     *)
(* time, one of them to write, are a data race: the Go runtime may end the *)
(* server there (Abort), or they take place one after the other.           *)
(***************************************************************************)
EXTENDS Integers, FiniteSets, Functions

CONSTANTS
  Request,     \* requests; each is made once
  Corpus,      \* the corpora that are asked for
  Configured,  \* those with a configuration file (Resources)
  Lang,        \* the supported locales
  Asks,        \* the pairs of these that requests for information ask for
  TextProps,   \* the text properties of each corpus
  MaxChanges,  \* bound: how often registry files change
  Nobody       \* no request

ASSUME ConfiguredAssumption == Configured \subseteq Corpus
ASSUME AsksAssumption       == Asks \subseteq Corpus \X Lang
ASSUME ChangesAssumption    == MaxChanges \in Nat
ASSUME PropsAssumption      == IsFiniteSet(TextProps)
ASSUME NobodyAssumption     == Nobody \notin Request

VARIABLES
  zeroConf,  \* ZeroConfCorpora
  registry,  \* the corpora whose registry file is there and sound
  changes,   \* how often that has changed
  made,      \* whether autoConfCache has been made
  autoConf,  \* autoConfCache: the configuration of each corpus
  cache,     \* by corpus and locale, the request that loaded the information
  object,    \* what each request has loaded: of which corpus, in which language
  props,     \* and the text properties there
  pc,        \* where each request is
  asked,     \* what it asks for, of which corpus and in which language
  local,     \* its local variables
  query,     \* the goroutine of its query
  monitor,   \* the writer of job logs
  reply      \* its HTTP status and the information in its response

files  == <<zeroConf, registry, changes>>
caches == <<made, autoConf, cache>>
info   == <<object, props>>
bus    == <<query, monitor>>
vars   == <<files, caches, info, pc, asked, local, bus, reply>>

-------------------------------------------------------------------------------
Slot    == 1..Cardinality(TextProps)
Blank   == "blank"
NoProps == [i \in Slot |-> Blank]
NoInfo  == [corpus |-> "none", lang |-> "none", data |-> "none"]
Info    == [corpus : Corpus, lang : Lang, data : {"good"}]
NoReply == [status |-> 0, info |-> NoInfo, props |-> {}, disturbed |-> FALSE]

(* call: who wants a configuration, and conf the one it got; todo: the     *)
(* corpora still to be listed; answer: what the worker found; pointer: the *)
(* object it uses, filled: the text properties it has put there, and       *)
(* disturbed: whether another request did so, too.                         *)
NoLocals == [call |-> "none", conf |-> "nil", todo |-> {}, answer |-> "none",
             pointer |-> Nobody, filled |-> {}, disturbed |-> FALSE]

Active == {r \in Request : pc[r] \notin {"idle", "done", "lost"}}

Init ==
  /\ zeroConf \in BOOLEAN
  /\ registry \in SUBSET Corpus /\ changes = 0
  /\ Configured \subseteq registry                 \* or the server would not start
  /\ made = FALSE /\ autoConf = [c \in Corpus |-> "absent"]
  /\ cache = [k \in Corpus \X Lang |-> Nobody]
  /\ object = [r \in Request |-> NoInfo] /\ props = [r \in Request |-> NoProps]
  /\ pc = [r \in Request |-> "idle"]
  /\ asked = [r \in Request |-> [kind |-> "none", corpus |-> "none", lang |-> "none"]]
  /\ local = [r \in Request |-> NoLocals]
  /\ query = [r \in Request |-> "none"] /\ monitor = "running"
  /\ reply = [r \in Request |-> NoReply]

Go(r, to)      == pc' = [pc EXCEPT ![r] = to]
Set(r, values) == local' = [local EXCEPT ![r] = values]

(* A response without information.                                         *)
Respond(r, code) ==
  /\ Go(r, "done") /\ Set(r, NoLocals)
  /\ reply' = [reply EXCEPT ![r].status = code]

-------------------------------------------------------------------------------
(* An administrator writes or removes a registry file.  One that cannot be *)
(* parsed, or has no data, is like none: loadRegistry fails, and if it     *)
(* gets as far as a worker, that answers with an error, as it may anyway.  *)
ChangeRegistry ==
  /\ changes < MaxChanges /\ changes' = changes + 1
  /\ \E c \in Corpus : registry' \in {registry \cup {c}, registry \ {c}} \ {registry}
  /\ UNCHANGED <<zeroConf, caches, info, pc, asked, local, bus, reply>>

(* The handlers, up to the first access to a cache.                        *)
Unsupported(r) ==
  /\ pc[r] = "idle" /\ Respond(r, 422)
  /\ UNCHANGED <<files, caches, info, asked, bus>>

AskInfo(r) ==
  /\ pc[r] = "idle" /\ Go(r, "start")
  /\ \E ask \in Asks :
       asked' = [asked EXCEPT ![r] = [kind |-> "info", corpus |-> ask[1], lang |-> ask[2]]]
  /\ Set(r, [local[r] EXCEPT !.call = "handler"])
  /\ UNCHANGED <<files, caches, info, bus, reply>>

(* GetAllCorpora.  Only without configuration files it asks for each       *)
(* corpus that has a registry file.                                        *)
AskList(r) ==
  /\ pc[r] = "idle"
  /\ asked' = [asked EXCEPT ![r].kind = "list"]
  /\ \/ /\ zeroConf /\ Go(r, "next") /\ UNCHANGED reply
        /\ Set(r, [local[r] EXCEPT !.call = "list", !.todo = registry])
     \/ ~zeroConf /\ Respond(r, 200)
  /\ UNCHANGED <<files, caches, info, bus>>

NextCorpus(r) ==
  /\ pc[r] = "next"
  /\ \/ /\ local[r].todo = {} /\ Respond(r, 200)
        /\ asked' = [asked EXCEPT ![r].corpus = "none"]
     \/ \E c \in local[r].todo :
          /\ asked' = [asked EXCEPT ![r].corpus = c]
          /\ Set(r, [local[r] EXCEPT !.todo = @ \ {c}])
          /\ Go(r, "start") /\ UNCHANGED reply
  /\ UNCHANGED <<files, caches, info, bus>>

-------------------------------------------------------------------------------
(* GetCorp.  Where its result goes depends on who has called it.           *)

Returned(r, value) ==
  LET call == local[r].call
  IN  IF call # "list" /\ value = "nil" THEN Respond(r, 404)
      ELSE /\ Set(r, [local[r] EXCEPT !.conf = value]) /\ UNCHANGED reply
           /\ Go(r, CASE call = "list" -> "next" [] call = "handler" -> "lookup"
                     [] call = "provider" -> "store")

(* A panic ends the request; while listing, safeGetCorp recovers from it.  *)
Panicked(r) == IF local[r].call = "list" THEN Returned(r, "nil") ELSE Respond(r, 500)

(* The map is made when somebody finds there is none.                      *)
FindNoMap(r) ==
  /\ pc[r] = "start" /\ Go(r, IF made THEN "conf" ELSE "make")
  /\ UNCHANGED <<files, caches, info, asked, local, bus, reply>>

MakeMap(r) ==
  /\ pc[r] = "make" /\ Go(r, "conf")
  /\ made' = TRUE /\ autoConf' = [c \in Corpus |-> "absent"]
  /\ UNCHANGED <<files, cache, info, asked, local, bus, reply>>

Wanted(r) == asked[r].corpus

(* A configured corpus is not in the map, so that its registry file is     *)
(* read each time, and nil is dereferenced if it is unsound.               *)
GetConfigured(r) ==
  /\ pc[r] = "conf" /\ Wanted(r) \in Configured
  /\ IF autoConf[Wanted(r)] = "absent" /\ Wanted(r) \notin registry
       THEN Panicked(r) ELSE Returned(r, "conf")
  /\ UNCHANGED <<files, caches, info, asked, bus>>

GetUnknown(r) ==
  /\ pc[r] = "conf" /\ Wanted(r) \notin Configured /\ ~zeroConf
  /\ Returned(r, "nil")
  /\ UNCHANGED <<files, caches, info, asked, bus>>

GetAutoConf(r) ==
  /\ pc[r] = "conf" /\ Wanted(r) \notin Configured /\ zeroConf
  /\ IF autoConf[Wanted(r)] = "absent" THEN Go(r, "generate") /\ UNCHANGED <<local, reply>>
     ELSE Returned(r, autoConf[Wanted(r)])
  /\ UNCHANGED <<files, caches, info, asked, bus>>

AutogenerateConf(r) ==
  /\ pc[r] = "generate" /\ Go(r, "keep")
  /\ Set(r, [local[r] EXCEPT !.conf = IF Wanted(r) \in registry THEN "conf" ELSE "nil"])
  /\ UNCHANGED <<files, caches, info, asked, bus, reply>>

(* What has been generated is kept, nil included.                          *)
KeepConf(r) ==
  /\ pc[r] = "keep"
  /\ autoConf' = [autoConf EXCEPT ![Wanted(r)] = local[r].conf]
  /\ Returned(r, local[r].conf)
  /\ UNCHANGED <<files, made, cache, info, asked, bus>>

-------------------------------------------------------------------------------
(* LoadCorpusInfo.                                                         *)

(* Variant: the language is no part of the key.                            *)
KeyWithoutLang(r) == <<Wanted(r), CHOOSE l \in Lang : TRUE>>

Key(r) == <<Wanted(r), asked[r].lang>>

LookUp(r) ==
  /\ pc[r] = "lookup" /\ Go(r, IF cache[Key(r)] = Nobody THEN "ask" ELSE "clear")
  /\ Set(r, [local[r] EXCEPT !.pointer = cache[Key(r)]])
  /\ UNCHANGED <<files, caches, info, asked, bus, reply>>

NoRegistry(r) ==
  /\ pc[r] = "ask"
  /\ \/ Wanted(r) \notin registry /\ Respond(r, 404)
     \/ Respond(r, 500)                                 \* IsFile fails
  /\ UNCHANGED <<files, caches, info, asked, bus>>

PublishQuery(r) ==
  /\ pc[r] = "ask" /\ Wanted(r) \in registry /\ Go(r, "wait")
  /\ query' = [query EXCEPT ![r] = "waiting"]
  /\ UNCHANGED <<files, caches, info, asked, local, monitor, reply>>

(* With or without a goroutine that waits for an answer.                   *)
PublishFails(r) ==
  /\ pc[r] = "ask" /\ Wanted(r) \in registry /\ Respond(r, 500)
  /\ query' \in {query, [query EXCEPT ![r] = "waiting"]}
  /\ UNCHANGED <<files, caches, info, asked, monitor>>

(* The worker's answer or its error, or that of the adapter: a timeout, a  *)
(* result that is lost or cannot be decoded.                               *)
Answers == {"good", "error", "other"}

Answer(r) ==
  /\ query[r] = "waiting"
  /\ \E a \in Answers :
       (a = "good" => Wanted(r) \in registry) /\ query' = [query EXCEPT ![r] = a]
  /\ UNCHANGED <<files, caches, info, pc, asked, local, monitor, reply>>

Delivered(r) ==
  /\ query[r] \in Answers /\ pc[r] = "wait" /\ Go(r, "received")
  /\ Set(r, [local[r] EXCEPT !.answer = query[r]])
  /\ UNCHANGED <<files, caches, info, asked, monitor, reply>>

(* Variant: the job is logged before its answer is delivered.              *)
DeliverAfterLog(r) ==
  Delivered(r) /\ monitor # "stuck" /\ query' = [query EXCEPT ![r] = "closed"]

(* The channel has no buffer.  A lost result is not logged.                *)
Deliver(r) ==
  /\ Delivered(r)
  /\ \E next \in {"logging"} \cup (IF query[r] = "other" THEN {"closed"} ELSE {}) :
       query' = [query EXCEPT ![r] = next]

(* Variant: an error of the worker goes unnoticed.                         *)
ReceiveUnchecked(r) ==
  /\ pc[r] = "received"
  /\ \/ local[r].answer = "other" /\ Respond(r, 500)
     \/ /\ local[r].answer # "other" /\ Go(r, "conf") /\ UNCHANGED reply
        /\ Set(r, [local[r] EXCEPT !.call = "provider"])
  /\ UNCHANGED <<files, caches, info, asked, bus>>

(* With good information, the configuration is asked for once more.        *)
Receive(r) ==
  /\ pc[r] = "received"
  /\ \/ local[r].answer # "good" /\ Respond(r, 500)
     \/ /\ local[r].answer = "good" /\ Go(r, "conf") /\ UNCHANGED reply
        /\ Set(r, [local[r] EXCEPT !.call = "provider"])
  /\ UNCHANGED <<files, caches, info, asked, bus>>

(* extendCorpusInfo, and the information is kept.                          *)
Store(r) ==
  /\ pc[r] = "store" /\ Go(r, "clear")
  /\ object' = [object EXCEPT ![r] =
       [corpus |-> Wanted(r), lang |-> asked[r].lang, data |-> local[r].answer]]
  /\ cache' = [cache EXCEPT ![Key(r)] = r]
  /\ Set(r, [local[r] EXCEPT !.pointer = r])
  /\ UNCHANGED <<files, made, autoConf, props, asked, bus, reply>>

-------------------------------------------------------------------------------
(* The handler completes the information it got, which is that of other    *)
(* requests, too.                                                          *)

Object(r)  == local[r].pointer
Sharing(r) == {q \in Request \ {r} : pc[q] \in {"fill", "respond"} /\ Object(q) = Object(r)}

(* Where the handler goes once it has put some properties there.           *)
After(filled) == IF filled = TextProps THEN "respond" ELSE "fill"

MakeProperties(r) ==
  /\ pc[r] = "clear" /\ Go(r, After({}))
  /\ props' = [props EXCEPT ![Object(r)] = NoProps]
  /\ local' = [q \in Request |-> [local[q] EXCEPT
       !.disturbed = @ \/ q \in Sharing(r) \/ (q = r /\ Sharing(r) # {})]]
  /\ UNCHANGED <<files, caches, object, asked, bus, reply>>

(* The properties come in any order.                                       *)
FillProperty(r) ==
  /\ pc[r] = "fill"
  /\ \E p \in TextProps \ local[r].filled :
       /\ props' = [props EXCEPT ![Object(r)][Cardinality(local[r].filled) + 1] = p]
       /\ Set(r, [local[r] EXCEPT !.filled = @ \cup {p}])
       /\ Go(r, After(local[r].filled \cup {p}))
  /\ UNCHANGED <<files, caches, object, asked, bus, reply>>

(* Properties that others write meanwhile may be read in any state.        *)
RespondInfo(r) ==
  /\ pc[r] = "respond" /\ Go(r, "done") /\ Set(r, NoLocals)
  /\ \E seen \in {Range(props[Object(r)])} \cup
                  (IF \E q \in Sharing(r) : pc[q] = "fill" THEN {{Blank}} ELSE {}) :
       reply' = [reply EXCEPT ![r] = [status |-> 200, info |-> object[Object(r)],
                                      props |-> seen, disturbed |-> local[r].disturbed]]
  /\ UNCHANGED <<files, caches, info, asked, bus>>

-------------------------------------------------------------------------------
(* Logging, by the goroutine of a query.  It sends on channels that nobody *)
(* may be taking from: the errors of the database are not collected, as    *)
(* the loop that does so is never started.  A server without a database    *)
(* has a writer that never sticks.                                         *)
Write(r) ==
  /\ query[r] = "logging" /\ monitor # "stuck"
  /\ query' = [query EXCEPT ![r] = "closed"]
  /\ UNCHANGED <<files, caches, info, pc, asked, local, monitor, reply>>

MonitorSticks ==
  /\ monitor = "running" /\ monitor' = "stuck"
  /\ UNCHANGED <<files, caches, info, pc, asked, local, query, reply>>

-------------------------------------------------------------------------------
(* Accesses to the maps that may coincide.                                 *)
ReadsAutoConf(r)  == pc[r] = "conf" /\ (Wanted(r) \in Configured \/ zeroConf)
WritesAutoConf(r) == pc[r] = "keep"
ReadsCache(r)     == pc[r] = "lookup"
WritesCache(r)    == pc[r] = "store"

(* The runtime ends the server, which starts again with empty caches.      *)
Abort ==
  /\ \E r \in Request : \E q \in Request \ {r} :
       \/ WritesAutoConf(r) /\ (ReadsAutoConf(q) \/ WritesAutoConf(q))
       \/ WritesCache(r) /\ (ReadsCache(q) \/ WritesCache(q))
  /\ pc' = [r \in Request |-> IF r \in Active THEN "lost" ELSE pc[r]]
  /\ local' = [r \in Request |-> NoLocals]
  /\ made' = FALSE /\ autoConf' = [c \in Corpus |-> "absent"]
  /\ cache' = [k \in Corpus \X Lang |-> Nobody]
  /\ query' = [r \in Request |-> IF query[r] = "none" THEN "none" ELSE "closed"]
  /\ monitor' = "running"
  /\ UNCHANGED <<files, info, asked, reply>>

Step(r) ==
  \/ NextCorpus(r)
  \/ FindNoMap(r) \/ MakeMap(r) \/ GetConfigured(r) \/ GetUnknown(r) \/ GetAutoConf(r)
  \/ AutogenerateConf(r) \/ KeepConf(r)
  \/ LookUp(r) \/ NoRegistry(r) \/ PublishQuery(r) \/ PublishFails(r) \/ Receive(r) \/ Store(r)
  \/ MakeProperties(r) \/ FillProperty(r) \/ RespondInfo(r)

Query(r) == Answer(r) \/ Deliver(r) \/ Write(r)

Next ==
  \/ \E r \in Request :
       Unsupported(r) \/ AskInfo(r) \/ AskList(r) \/ Step(r) \/ Query(r)
  \/ ChangeRegistry \/ MonitorSticks \/ Abort

(* Goroutines are scheduled, and each query has a timer.                   *)
Spec == Init /\ [][Next]_vars /\ \A r \in Request : WF_vars(Step(r)) /\ WF_vars(Query(r))

-------------------------------------------------------------------------------
(* Properties.                                                             *)

TypeOK ==
  /\ registry \subseteq Corpus
  /\ autoConf \in [Corpus -> {"absent", "nil", "conf"}]
  /\ \A c \in Configured : autoConf[c] = "absent"
  /\ cache \in [Corpus \X Lang -> Request \cup {Nobody}]
  /\ monitor \in {"running", "stuck"}
  /\ \A r \in Request :
       /\ pc[r] = "done" <=> reply[r].status # 0
       /\ pc[r] \in {"clear", "fill", "respond"} => object[Object(r)] \in Info
       /\ pc[r] = "wait" => query[r] \in {"waiting"} \cup Answers

(* The cache holds what has been found without an error, for the corpus    *)
(* and the language it was found for, and that is what is shown, although  *)
(* the value is shared.  The text properties are complete, each of them    *)
(* once, unless another request for the same was filling them in too.      *)
(* (corpus/infoload/manatee.go:66-107, corpus/handlers/info.go:94-118)     *)
InfoIsRight ==
  /\ \A k \in Corpus \X Lang : cache[k] # Nobody =>
       object[cache[k]] = [corpus |-> k[1], lang |-> k[2], data |-> "good"]
  /\ \A r \in Request : asked[r].kind = "info" /\ reply[r].status = 200 =>
       /\ reply[r].info = [corpus |-> Wanted(r), lang |-> asked[r].lang, data |-> "good"]
       /\ ~reply[r].disturbed => reply[r].props = TextProps

(* Every request is answered, unless the server ends: neither a worker     *)
(* that does not answer nor a log that takes no more entries holds it up.  *)
(* (rdb/client.go:273-349, monitoring/tswriter.go:89-104)                  *)
EveryRequestEnds ==
  \A r \in Request : r \in Active ~> pc[r] \in {"done", "lost"}
===============================================================================
