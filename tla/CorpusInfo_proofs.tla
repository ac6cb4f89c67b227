--------------------------- MODULE CorpusInfo_proofs ---------------------------
(***************************************************************************)
(* Safety of CorpusInfo for any requests, corpora, locales and text        *)
(* properties.                                                             *)
(***************************************************************************)
EXTENDS CorpusInfoInv, FiniteSetTheorems, TLAPS

(* The slots of the properties.                                            *)
LEMMA Slots ==
  /\ Cardinality({}) = 0
  /\ Cardinality(TextProps) \in Nat
  /\ \A filled \in SUBSET TextProps :
       /\ Cardinality(filled) \in Nat
       /\ \A p \in TextProps \ filled :
            /\ Cardinality(filled \cup {p}) = Cardinality(filled) + 1
            /\ Cardinality(filled) + 1 \in Slot
<1>1. ASSUME NEW filled \in SUBSET TextProps
      PROVE  IsFiniteSet(filled) /\ Cardinality(filled) \in Nat
  BY PropsAssumption, FS_Subset, FS_CardinalityType
<1>2. ASSUME NEW filled \in SUBSET TextProps, NEW p \in TextProps \ filled
      PROVE  /\ Cardinality(filled \cup {p}) = Cardinality(filled) + 1
             /\ Cardinality(filled) + 1 \in Slot
  <2>1. Cardinality(filled \cup {p}) = Cardinality(filled) + 1
    BY <1>1, FS_AddElement
  <2>2. Cardinality(filled \cup {p}) <= Cardinality(TextProps)
    BY PropsAssumption, FS_Subset
  <2>3. Cardinality(TextProps) \in Nat
    BY PropsAssumption, FS_CardinalityType
  <2> QED
    BY <1>1, <2>1, <2>2, <2>3 DEF Slot
<1> QED
  BY <1>1, <1>2, PropsAssumption, FS_CardinalityType, FS_EmptySet

LEMMA NoLocalsValue == NoLocals \in Local
  BY DEF Local, NoLocals

LEMMA LocalValues ==
  ASSUME NEW l \in Local
  PROVE  /\ [l EXCEPT !.call = "handler"] \in Local
         /\ [l EXCEPT !.call = "provider"] \in Local
         /\ \A t \in SUBSET Corpus : [l EXCEPT !.call = "list", !.todo = t] \in Local
         /\ \A c : [l EXCEPT !.todo = @ \ {c}] \in Local
         /\ \A v \in {"nil", "conf"} : [l EXCEPT !.conf = v] \in Local
         /\ \A q \in Request \cup {Nobody} : [l EXCEPT !.pointer = q] \in Local
         /\ \A a \in Answers : [l EXCEPT !.answer = a] \in Local
         /\ \A p \in TextProps : [l EXCEPT !.filled = @ \cup {p}] \in Local
         /\ \A d \in BOOLEAN : [l EXCEPT !.disturbed = @ \/ d] \in Local
  BY DEF Local, NoLocals, Answers

LEMMA AskValues ==
  ASSUME NEW a \in Ask
  PROVE  /\ [a EXCEPT !.kind = "list"] \in Ask
         /\ \A c \in Corpus \cup {"none"} : [a EXCEPT !.corpus = c] \in Ask
         /\ \A c \in Corpus, l \in Lang : [kind |-> "info", corpus |-> c, lang |-> l] \in Ask
  BY DEF Ask

LEMMA PropertiesValues ==
  ASSUME NEW f \in Properties, NEW i, NEW p \in TextProps
  PROVE  [f EXCEPT ![i] = p] \in Properties
  BY DEF Properties

LEMMA QueryValues ==
  /\ "none" \in QueryState /\ "waiting" \in QueryState /\ "logging" \in QueryState
  /\ "closed" \in QueryState /\ \A a \in Answers : a \in QueryState
  BY DEF QueryState

LEMMA PlaceValues ==
  /\ "idle" \in Place /\ "next" \in Place /\ "done" \in Place /\ "lost" \in Place
  /\ "start" \in Place /\ "make" \in Place /\ "conf" \in Place /\ "generate" \in Place
  /\ "keep" \in Place /\ "lookup" \in Place /\ "ask" \in Place /\ "wait" \in Place
  /\ "received" \in Place /\ "store" \in Place /\ "clear" \in Place /\ "fill" \in Place
  /\ "respond" \in Place
  BY DEF Place, Getting, Loading, Completing

-------------------------------------------------------------------------------
LEMMA DomainInit == Init => DomainInv
<1> SUFFICES ASSUME Init PROVE DomainInv
  OBVIOUS
<1>1. NoLocals \in Local
  BY DEF Local, NoLocals
<1>2. NoProps \in Properties
  BY DEF NoProps, Properties
<1>3. NoReply \in Reply
  BY DEF NoReply, Reply
<1>4. [kind |-> "none", corpus |-> "none", lang |-> "none"] \in Ask
  BY DEF Ask
<1> QED
  BY <1>1, <1>2, <1>3, <1>4, PlaceValues, QueryValues DEF Init, DomainInv

(* Responding without information, and what GetCorp returns.               *)
LEMMA RespondDomain ==
  ASSUME DomainInv, NEW r \in Request, NEW code \in {200, 404, 422, 500}, Respond(r, code)
  PROVE  /\ pc' \in [Request -> Place]
         /\ local' \in [Request -> Local]
         /\ reply' \in [Request -> Reply]
<1>1. NoLocals \in Local
  BY DEF Local, NoLocals
<1>2. \A x \in Reply : [x EXCEPT !.status = code] \in Reply
  BY DEF Reply
<1> QED
  BY <1>1, <1>2, PlaceValues DEF DomainInv, Respond, Go, Set

(* Returning from GetCorp, or a panic in it, keeps the domains.            *)
LEMMA ReturnedDomain ==
  ASSUME DomainInv, CallInv, NEW r \in Request, pc[r] \in Getting,
         NEW value \in {"nil", "conf"}, Returned(r, value) \/ Panicked(r)
  PROVE  /\ pc' \in [Request -> Place]
         /\ local' \in [Request -> Local]
         /\ reply' \in [Request -> Reply]
<1>1. ASSUME NEW v \in {"nil", "conf"}, Returned(r, v), ~Respond(r, 404)
      PROVE  UNCHANGED reply /\ Set(r, [local[r] EXCEPT !.conf = v])
             /\ \E to \in {"next", "lookup", "store"} : Go(r, to)
  BY <1>1 DEF Returned, CallInv, Calls
<1>2. Respond(r, 404) \/ Respond(r, 500) \/ \E v \in {"nil", "conf"} : Returned(r, v)
  BY DEF Panicked
<1>3. \A v \in {"nil", "conf"} : [local[r] EXCEPT !.conf = v] \in Local
  BY LocalValues DEF DomainInv
<1>4. ASSUME NEW v \in {"nil", "conf"}, Returned(r, v), ~Respond(r, 404)
      PROVE  /\ pc' \in [Request -> Place]
             /\ local' \in [Request -> Local]
             /\ reply' = reply
  BY <1>1, <1>3, <1>4, PlaceValues DEF DomainInv, Go, Set
<1> QED
  BY <1>2, <1>4, RespondDomain DEF DomainInv

LEMMA DomainStep == DomainInv /\ CallInv /\ ObjectInv /\ [Next]_vars => DomainInv'
<1> SUFFICES ASSUME DomainInv, CallInv, ObjectInv, [Next]_vars PROVE DomainInv'
  OBVIOUS
<1>1. ASSUME NEW r \in Request, NEW code \in {200, 404, 422, 500}, Respond(r, code),
             UNCHANGED <<files, caches, info>>, UNCHANGED monitor,
             asked' \in {asked, [asked EXCEPT ![r].kind = "list"], [asked EXCEPT ![r].corpus = "none"]},
             query' \in {query, [query EXCEPT ![r] = "waiting"]}
      PROVE  DomainInv'
  <2>1. query' \in [Request -> QueryState]
    BY QueryValues, <1>1, QueryValues DEF DomainInv
  <2>2. asked' \in [Request -> Ask]
    <3>1. asked[r] \in Ask
      BY DEF DomainInv
    <3>2. [asked[r] EXCEPT !.kind = "list"] \in Ask /\ [asked[r] EXCEPT !.corpus = "none"] \in Ask
      BY <3>1, AskValues
    <3>3. asked \in [Request -> Ask]
      BY DEF DomainInv
    <3>4. CASE asked' = asked
      BY <3>3, <3>4
    <3>5. CASE asked' = [asked EXCEPT ![r].kind = "list"]
      BY <3>2, <3>3, <3>5
    <3>6. CASE asked' = [asked EXCEPT ![r].corpus = "none"]
      BY <3>2, <3>3, <3>6
    <3> QED
      BY <1>1, <3>4, <3>5, <3>6
  <2> QED
    BY <1>1, <2>1, <2>2, RespondDomain DEF DomainInv, files, caches, info
<1>2. ASSUME NEW r \in Request, Unsupported(r) \/ NoRegistry(r) \/ PublishFails(r) PROVE DomainInv'
  BY <1>1, <1>2 DEF Unsupported, NoRegistry, PublishFails, bus
<1>3. ASSUME NEW r \in Request, AskInfo(r) PROVE DomainInv'
  <2>1. [local[r] EXCEPT !.call = "handler"] \in Local
    BY LocalValues DEF DomainInv
  <2>2. asked' \in [Request -> Ask]
    <3>1. \A k \in Asks : [kind |-> "info", corpus |-> k[1], lang |-> k[2]] \in Ask
      BY AsksAssumption DEF Ask
    <3> QED
      BY <1>3, <3>1 DEF DomainInv, AskInfo
  <2> QED
    BY PlaceValues, <1>3, <2>1, <2>2 DEF DomainInv, AskInfo, Go, Set, files, caches, info, bus
<1>4. ASSUME NEW r \in Request, AskList(r) PROVE DomainInv'
  <2>1. [local[r] EXCEPT !.call = "list", !.todo = registry] \in Local
    BY LocalValues DEF DomainInv
  <2>2. CASE Respond(r, 200)
    <3>1. UNCHANGED <<files, caches, info>> /\ UNCHANGED monitor /\ UNCHANGED query
          /\ asked' \in {asked, [asked EXCEPT ![r].kind = "list"], [asked EXCEPT ![r].corpus = "none"]}
      BY <1>4 DEF AskList, bus, files
    <3> QED
      BY <1>1, <2>2, <3>1
  <2>3. CASE ~Respond(r, 200)
    <3>1. [asked[r] EXCEPT !.kind = "list"] \in Ask
      BY AskValues DEF DomainInv
    <3>2. asked' \in [Request -> Ask]
      BY <1>4, <3>1 DEF DomainInv, AskList
    <3> QED
      BY PlaceValues, <1>4, <2>1, <2>3, <3>2 DEF DomainInv, AskList, Go, Set, files, caches,
         info, bus
  <2> QED
    BY <2>2, <2>3
<1>5. ASSUME NEW r \in Request, NextCorpus(r) PROVE DomainInv'
  <2>1. UNCHANGED <<files, caches, info, bus>>
    BY <1>5 DEF NextCorpus
  <2>2. CASE Respond(r, 200) /\ asked' = [asked EXCEPT ![r].corpus = "none"]
    <3>1. Respond(r, 200)
      BY <2>2
    <3>2. UNCHANGED <<files, caches, info>> /\ UNCHANGED monitor /\ UNCHANGED query
      BY <2>1 DEF bus
    <3>3. asked' \in {asked, [asked EXCEPT ![r].kind = "list"],
                     [asked EXCEPT ![r].corpus = "none"]}
      BY <2>2
    <3> QED
      BY <1>1, <3>1, <3>2, <3>3
  <2>3. ASSUME NEW c \in local[r].todo, asked' = [asked EXCEPT ![r].corpus = c],
               Set(r, [local[r] EXCEPT !.todo = @ \ {c}]), Go(r, "start"), UNCHANGED reply
        PROVE  DomainInv'
    <3>1. c \in Corpus
      BY DEF DomainInv, Local
    <3>2. [asked[r] EXCEPT !.corpus = c] \in Ask /\ [local[r] EXCEPT !.todo = @ \ {c}] \in Local
      BY <3>1, AskValues, LocalValues DEF DomainInv
    <3>3. asked' \in [Request -> Ask] /\ local' \in [Request -> Local]
      BY <2>3, <3>2 DEF DomainInv, Set
    <3> QED
      BY PlaceValues, <2>1, <2>3, <3>3 DEF DomainInv, Go, files, caches, info, bus
  <2> QED
    BY <1>5, <2>2, <2>3 DEF NextCorpus
<1>6. ASSUME NEW r \in Request, FindNoMap(r) \/ MakeMap(r) PROVE DomainInv'
  BY PlaceValues, <1>6, ConfiguredAssumption DEF DomainInv, FindNoMap, MakeMap, Go, files,
     caches, info, bus
<1>7. ASSUME NEW r \in Request, pc[r] \in Getting, NEW value \in {"nil", "conf"},
             Returned(r, value) \/ Panicked(r),
             UNCHANGED <<files, made, cache, info, asked, bus>>,
             \/ UNCHANGED autoConf
             \/ /\ Wanted(r) \in Corpus \ Configured
                /\ autoConf' = [autoConf EXCEPT ![Wanted(r)] = value]
      PROVE  DomainInv'
  BY <1>7, ReturnedDomain, ConfiguredAssumption DEF DomainInv, files, info, bus
<1>8. ASSUME NEW r \in Request, GetConfigured(r) \/ GetUnknown(r) PROVE DomainInv'
  BY PlaceValues, <1>7, <1>8 DEF GetConfigured, GetUnknown, Getting, caches
<1>9. ASSUME NEW r \in Request, GetAutoConf(r) PROVE DomainInv'
  <2>1. CASE autoConf[Wanted(r)] = "absent"
    BY PlaceValues, <1>9, <2>1 DEF DomainInv, GetAutoConf, Go, files, caches, info, bus
  <2>2. CASE autoConf[Wanted(r)] # "absent"
    <3>1. autoConf[Wanted(r)] \in {"nil", "conf"}
      BY PlaceValues, <1>9, <2>2 DEF DomainInv, GetAutoConf, CallInv, Calls, Getting
    <3> QED
      BY PlaceValues, <1>7, <1>9, <2>2, <3>1 DEF GetAutoConf, Getting, caches
  <2> QED
    BY <2>1, <2>2
<1>10. ASSUME NEW r \in Request, AutogenerateConf(r) PROVE DomainInv'
  <2>1. \A v \in {"nil", "conf"} : [local[r] EXCEPT !.conf = v] \in Local
    BY LocalValues DEF DomainInv
  <2> QED
    BY PlaceValues, <1>10, <2>1 DEF DomainInv, AutogenerateConf, Go, Set, files, caches, info, bus
<1>11. ASSUME NEW r \in Request, KeepConf(r) PROVE DomainInv'
  <2>1. local[r].conf \in {"nil", "conf"}
    BY DEF DomainInv, Local
  <2> QED
    BY PlaceValues, <1>7, <1>11, <2>1 DEF KeepConf, CallInv, Calls, Getting
<1>12. ASSUME NEW r \in Request, LookUp(r) PROVE DomainInv'
  <2>1. \A q \in Request \cup {Nobody} : [local[r] EXCEPT !.pointer = q] \in Local
    BY LocalValues DEF DomainInv
  <2>2. Key(r) \in Corpus \X Lang
    BY <1>12 DEF DomainInv, LookUp, CallInv, Calls, Loading, Key
  <2> QED
    BY PlaceValues, <1>12, <2>1, <2>2 DEF DomainInv, LookUp, Go, Set, files, caches, info, bus
<1>13. ASSUME NEW r \in Request, PublishQuery(r) PROVE DomainInv'
  BY QueryValues, PlaceValues, <1>13 DEF DomainInv, PublishQuery, Go, files, caches, info, bus
<1>14. ASSUME NEW r \in Request, Receive(r) PROVE DomainInv'
  <2>1. [local[r] EXCEPT !.call = "provider"] \in Local
    BY LocalValues DEF DomainInv
  <2>2. CASE Respond(r, 500)
    <3>1. UNCHANGED <<files, caches, info>> /\ UNCHANGED monitor /\ UNCHANGED query
          /\ asked' \in {asked, [asked EXCEPT ![r].kind = "list"], [asked EXCEPT ![r].corpus = "none"]}
      BY <1>14 DEF Receive, bus, files
    <3> QED
      BY <1>1, <2>2, <3>1
  <2>3. CASE ~Respond(r, 500)
    BY PlaceValues, <1>14, <2>1, <2>3 DEF DomainInv, Receive, Go, Set, files, caches, info, bus
  <2> QED
    BY <2>2, <2>3
<1>15. ASSUME NEW r \in Request, Store(r) PROVE DomainInv'
  <2>1. [local[r] EXCEPT !.pointer = r] \in Local
    BY LocalValues DEF DomainInv
  <2>2. Key(r) \in Corpus \X Lang
    BY <1>15 DEF DomainInv, Store, CallInv, Calls, Loading, Key
  <2>3. [corpus |-> Wanted(r), lang |-> asked[r].lang, data |-> local[r].answer] \in Info
    BY <1>15 DEF DomainInv, Store, CallInv, Calls, Loading, Info
  <2> QED
    BY PlaceValues, <1>15, <2>1, <2>2, <2>3 DEF DomainInv, Store, Go, Set, files, bus
<1>16. ASSUME NEW r \in Request, MakeProperties(r) PROVE DomainInv'
  <2>1. \A q \in Request : \A d \in BOOLEAN : [local[q] EXCEPT !.disturbed = @ \/ d] \in Local
    BY LocalValues DEF DomainInv
  <2>2. local' \in [Request -> Local]
    BY <1>16, <2>1 DEF DomainInv, MakeProperties
  <2>3. NoProps \in Properties
    BY DEF NoProps, Properties
  <2> QED
    BY PlaceValues, <1>16, <2>2, <2>3 DEF DomainInv, MakeProperties, Go, After, files, caches, bus
<1>17. ASSUME NEW r \in Request, FillProperty(r) PROVE DomainInv'
  <2>1. \A p \in TextProps : [local[r] EXCEPT !.filled = @ \cup {p}] \in Local
    BY LocalValues DEF DomainInv
  <2>2. local' \in [Request -> Local]
    BY <1>17, <2>1 DEF DomainInv, FillProperty, Set
  <2>3. props' \in [Request -> Properties]
    <3>1. \A q \in Request, i \in Nat, p \in TextProps : [props[q] EXCEPT ![i] = p] \in Properties
      BY PropertiesValues DEF DomainInv
    <3>2. PICK p \in TextProps :
            props' = [props EXCEPT ![Object(r)][Cardinality(local[r].filled) + 1] = p]
      BY <1>17 DEF FillProperty
    <3>3. Object(r) \in Request
      BY <1>17 DEF FillProperty, ObjectInv, Points, Completing
    <3>4. Cardinality(local[r].filled) + 1 \in Nat
      BY Slots DEF DomainInv, Local
    <3> QED
      BY <3>1, <3>2, <3>3, <3>4 DEF DomainInv
  <2> QED
    BY PlaceValues, <1>17, <2>1, <2>2, <2>3 DEF DomainInv, FillProperty, Go, Set, After,
       files, caches, bus
<1>18. ASSUME NEW r \in Request, RespondInfo(r) PROVE DomainInv'
  <2>1. NoLocals \in Local
    BY NoLocalsValue
  <2>2. Object(r) \in Request /\ object[Object(r)] \in Info \cup {NoInfo}
    BY <1>18 DEF DomainInv, RespondInfo, ObjectInv, Points, Completing
  <2>3. Range(props[Object(r)]) \subseteq TextProps \cup {Blank}
    <3>1. props[Object(r)] \in Properties
      BY <2>2 DEF DomainInv
    <3> QED
      BY <3>1 DEF Range, Properties
  <2>4. local[r].disturbed \in BOOLEAN
    BY DEF DomainInv, Local
  <2>5. ASSUME NEW seen \in SUBSET (TextProps \cup {Blank})
        PROVE  [status |-> 200, info |-> object[Object(r)], props |-> seen,
                disturbed |-> local[r].disturbed] \in Reply
    BY <2>2, <2>4 DEF DomainInv, Reply
  <2>6. reply' \in [Request -> Reply]
    BY <1>18, <2>3, <2>5 DEF DomainInv, RespondInfo
  <2> QED
    BY PlaceValues, <1>18, <2>1, <2>6 DEF DomainInv, RespondInfo, Go, Set, files, caches, info, bus
<1>19. ASSUME NEW r \in Request, Query(r) PROVE DomainInv'
  <2>1. \A a \in Answers : [local[r] EXCEPT !.answer = a] \in Local
    BY LocalValues DEF DomainInv
  <2>2. CASE Answer(r) \/ Write(r)
    BY QueryValues, <2>2 DEF DomainInv, Answer, Write, files, caches, info
  <2>3. CASE Deliver(r)
    <3>1. query' \in [Request -> QueryState]
      BY <2>3, QueryValues DEF DomainInv, Deliver
    <3>2. local' \in [Request -> Local]
      BY <2>1, <2>3 DEF DomainInv, Deliver, Delivered, Set
    <3> QED
      BY PlaceValues, <2>3, <3>1, <3>2 DEF DomainInv, Deliver, Delivered, Go, files, caches, info
  <2> QED
    BY QueryValues, <1>19, <2>2, <2>3 DEF DomainInv, Query
<1>20. CASE ChangeRegistry \/ MonitorSticks \/ UNCHANGED vars
  BY <1>20 DEF DomainInv, ChangeRegistry, MonitorSticks, vars, files, caches, info, bus
<1>21. CASE Abort
  <2>1. NoLocals \in Local
    BY NoLocalsValue
  <2> QED
    BY QueryValues, PlaceValues, <1>21, <2>1, ConfiguredAssumption DEF DomainInv, Abort, files, info
<1> QED
  BY QueryValues, <1>2, <1>3, <1>4, <1>5, <1>6, <1>8, <1>9, <1>10, <1>11, <1>12, <1>13,
     <1>14, <1>15, <1>16,
     <1>17, <1>18, <1>19, <1>20, <1>21 DEF Next, Step
-------------------------------------------------------------------------------
(* A step of a request leaves the others alone, except that it may disturb *)
(* them.                                                                   *)
Act(r) == Unsupported(r) \/ AskInfo(r) \/ AskList(r) \/ Step(r) \/ Query(r)

Frame(r) ==
  \A q \in Request \ {r} :
    /\ pc'[q] = pc[q] /\ asked'[q] = asked[q] /\ query'[q] = query[q] /\ reply'[q] = reply[q]
    /\ local'[q].call = local[q].call /\ local'[q].answer = local[q].answer
    /\ local'[q].pointer = local[q].pointer /\ local'[q].filled = local[q].filled

(* Every step of a request is such a step.                                 *)
LEMMA Framed ==
  ASSUME DomainInv, CallInv, NEW r \in Request, Act(r)
  PROVE  Frame(r)
<1> USE DEF DomainInv, Frame, Go, Set
<1>1. CASE Unsupported(r) \/ NoRegistry(r) \/ PublishFails(r)
  BY <1>1 DEF Unsupported, NoRegistry, PublishFails, Respond, bus
<1>2. CASE AskInfo(r) \/ AskList(r) \/ NextCorpus(r)
  BY <1>2 DEF AskInfo, AskList, NextCorpus, Respond, bus
<1>3. CASE FindNoMap(r) \/ MakeMap(r) \/ AutogenerateConf(r) \/ LookUp(r) \/ PublishQuery(r)
  BY <1>3 DEF FindNoMap, MakeMap, AutogenerateConf, LookUp, PublishQuery, bus
<1>4. CASE Receive(r) \/ Store(r) \/ FillProperty(r) \/ RespondInfo(r)
  <2>1. CASE Receive(r)
    BY <2>1 DEF Receive, Respond, bus
  <2>2. CASE Store(r)
    BY <2>2 DEF Store, bus
  <2>3. CASE FillProperty(r)
    BY <2>3 DEF FillProperty, bus
  <2>4. CASE RespondInfo(r)
    BY <2>4 DEF RespondInfo, bus
  <2> QED
    BY <1>4, <2>1, <2>2, <2>3, <2>4
<1>5. ASSUME NEW value, Returned(r, value) \/ Panicked(r), UNCHANGED <<asked, bus>> PROVE Frame(r)
  BY <1>5 DEF Returned, Panicked, Respond, bus
<1>6. CASE GetConfigured(r) \/ GetUnknown(r) \/ GetAutoConf(r) \/ KeepConf(r)
  BY <1>5, <1>6 DEF GetConfigured, GetUnknown, GetAutoConf, KeepConf, bus
<1>7. CASE MakeProperties(r)
  <2>1. ASSUME NEW q \in Request
        PROVE  /\ local'[q].call = local[q].call /\ local'[q].answer = local[q].answer
               /\ local'[q].pointer = local[q].pointer /\ local'[q].filled = local[q].filled
    <3>1. \E d : local'[q] = [local[q] EXCEPT !.disturbed = d]
      BY <1>7 DEF MakeProperties
    <3>2. local[q] \in Local
      OBVIOUS
    <3> QED
      BY <3>1, <3>2 DEF Local
  <2>2. UNCHANGED <<asked, query, reply>> /\ \A q \in Request \ {r} : pc'[q] = pc[q]
    BY <1>7 DEF MakeProperties, bus
  <2> QED
    BY <2>1, <2>2
<1>8. CASE Query(r)
  BY <1>8 DEF Query, Answer, Deliver, Delivered, Write
<1> QED
  BY <1>1, <1>2, <1>3, <1>4, <1>6, <1>7, <1>8 DEF Act, Step

(* Who responds, or gets a configuration, goes where that does not matter. *)
LEMMA RespondCalls ==
  ASSUME DomainInv, NEW r \in Request, NEW code, Respond(r, code),
         asked'[r].kind = "info" => asked'[r].lang \in Lang
  PROVE  Calls(r)'
BY DEF DomainInv, Calls, Wanted, Respond, Go, Set, NoLocals, Getting, Loading, Completing

(* Returning from GetCorp leads to where its caller goes on.               *)
LEMMA ReturnedCalls ==
  ASSUME DomainInv, CallInv, NEW r \in Request, pc[r] \in Getting, UNCHANGED asked,
         NEW value, Returned(r, value) \/ Panicked(r)
  PROVE  Calls(r)'
<1>1. asked'[r].kind = "info" => asked'[r].lang \in Lang
  BY DEF CallInv, Calls
<1>2. CASE Respond(r, 404) \/ Respond(r, 500)
  BY <1>1, <1>2, RespondCalls
<1>3. ASSUME NEW v, Returned(r, v), ~Respond(r, 404) PROVE Calls(r)'
  <2>1. /\ local'[r].call = local[r].call /\ local'[r].answer = local[r].answer
        /\ pc'[r] = CASE local[r].call = "list" -> "next" [] local[r].call = "handler" -> "lookup"
                       [] local[r].call = "provider" -> "store"
    <3>1. /\ local' = [local EXCEPT ![r] = [local[r] EXCEPT !.conf = v]]
          /\ pc' = [pc EXCEPT ![r] =
               CASE local[r].call = "list" -> "next" [] local[r].call = "handler" -> "lookup"
                 [] local[r].call = "provider" -> "store"]
      BY <1>3 DEF Returned, Go, Set
    <3>2. local[r] \in Local /\ local \in [Request -> Local] /\ pc \in [Request -> Place]
      BY DEF DomainInv
    <3>3. local'[r] = [local[r] EXCEPT !.conf = v]
      BY <3>1, <3>2
    <3> QED
      BY <3>1, <3>2, <3>3 DEF Local
  <2> QED
    BY <2>1 DEF CallInv, Calls, Wanted, Getting, Loading, Completing
<1> QED
  BY <1>2, <1>3 DEF Panicked

(* Whatever step a request takes, what it asks for fits its place.         *)
LEMMA CallAct ==
  ASSUME DomainInv, CallInv, NEW r \in Request, Act(r)
  PROVE  Calls(r)'
<1>1. asked[r].kind = "info" => asked[r].lang \in Lang
  BY DEF CallInv, Calls
<1>2. CASE Unsupported(r) \/ NoRegistry(r) \/ PublishFails(r)
  BY <1>1, <1>2, RespondCalls DEF Unsupported, NoRegistry, PublishFails
<1>3. CASE AskInfo(r)
  BY <1>3, AsksAssumption DEF AskInfo, Go, Set, DomainInv, Local, Calls, Wanted, Getting,
     Loading, Completing
<1>4. CASE AskList(r)
  <2>1. CASE Respond(r, 200)
    <3>1. asked'[r].kind # "info"
      BY <1>4 DEF AskList, DomainInv, Ask
    <3> QED
      BY <2>1, <3>1, RespondCalls
  <2>2. CASE ~Respond(r, 200)
    <3>1. local'[r].call = "list" /\ pc'[r] = "next"
      <4>1. Go(r, "next") /\ Set(r, [local[r] EXCEPT !.call = "list", !.todo = registry])
        BY <1>4, <2>2 DEF AskList
      <4> QED
        BY <4>1 DEF Go, Set, DomainInv, Local
    <3>2. asked'[r].kind = "list"
      BY <1>4 DEF AskList, DomainInv, Ask
    <3> QED
      BY <3>1, <3>2 DEF Calls, Getting, Loading, Completing
  <2> QED
    BY <2>1, <2>2
<1>5. CASE NextCorpus(r)
  <2>1. asked[r].kind = "list" /\ local[r].call = "list"
    BY <1>5 DEF NextCorpus, CallInv, Calls
  <2>2. asked'[r].kind = "list"
    <3>1. \E c : asked' = [asked EXCEPT ![r].corpus = c]
      BY <1>5 DEF NextCorpus
    <3> QED
      BY <2>1, <3>1 DEF DomainInv, Ask
  <2>3. CASE Respond(r, 200)
    BY <2>2, <2>3, RespondCalls
  <2>4. CASE ~Respond(r, 200)
    <3>1. PICK c \in local[r].todo :
            /\ asked' = [asked EXCEPT ![r].corpus = c] /\ Go(r, "start")
            /\ Set(r, [local[r] EXCEPT !.todo = @ \ {c}])
      BY <1>5, <2>4 DEF NextCorpus
    <3>2. c \in Corpus
      BY DEF DomainInv, Local
    <3>3. asked'[r].corpus = c /\ pc'[r] = "start"
      BY <3>1 DEF Go, DomainInv, Ask
    <3>4. local'[r].call = "list"
      BY <2>1, <3>1 DEF Set, DomainInv, Local
    <3> QED
      BY <2>2, <3>2, <3>3, <3>4 DEF Calls, Wanted, Getting, Loading, Completing
  <2> QED
    BY <2>3, <2>4
<1>6. CASE FindNoMap(r) \/ MakeMap(r)
  BY <1>6 DEF FindNoMap, MakeMap, Go, DomainInv, CallInv, Calls, Wanted, Getting, Loading,
     Completing
<1>7. CASE GetConfigured(r) \/ GetUnknown(r) \/ KeepConf(r)
  BY <1>7, ReturnedCalls DEF GetConfigured, GetUnknown, KeepConf, Getting
<1>8. CASE GetAutoConf(r)
  <2>1. CASE autoConf[Wanted(r)] = "absent"
    BY <1>8, <2>1 DEF GetAutoConf, Go, DomainInv, CallInv, Calls, Wanted, Getting, Loading,
       Completing
  <2>2. CASE autoConf[Wanted(r)] # "absent"
    BY <1>8, <2>2, ReturnedCalls DEF GetAutoConf, Getting
  <2> QED
    BY <2>1, <2>2
<1>9. CASE AutogenerateConf(r)
  BY <1>9 DEF AutogenerateConf, Go, Set, DomainInv, Local, CallInv, Calls, Wanted, Getting,
     Loading, Completing
<1>10. CASE LookUp(r)
  BY <1>10 DEF LookUp, Go, Set, DomainInv, Local, CallInv, Calls, Wanted, Getting, Loading,
     Completing
<1>11. CASE PublishQuery(r)
  BY <1>11 DEF PublishQuery, Go, DomainInv, CallInv, Calls, Wanted, Getting, Loading, Completing
<1>12. CASE Receive(r)
  BY <1>1, <1>12, RespondCalls DEF Receive, Go, Set, DomainInv, Local, CallInv, Calls,
     Wanted, Getting, Loading, Completing
<1>13. CASE Store(r)
  BY <1>13 DEF Store, Go, Set, DomainInv, Local, CallInv, Calls, Wanted, Getting, Loading,
     Completing
<1>14. CASE MakeProperties(r)
  <2>1. local'[r].call = local[r].call /\ local'[r].answer = local[r].answer
    <3>1. \E d : local'[r] = [local[r] EXCEPT !.disturbed = d]
      BY <1>14 DEF MakeProperties
    <3> QED
      BY <3>1 DEF DomainInv, Local
  <2> QED
    BY <1>14, <2>1 DEF MakeProperties, After, Go, DomainInv, CallInv, Calls, Wanted,
       Getting, Loading, Completing
<1>15. CASE FillProperty(r)
  BY <1>15 DEF FillProperty, After, Go, Set, DomainInv, Local, CallInv, Calls, Wanted,
     Getting, Loading, Completing
<1>16. CASE RespondInfo(r)
  BY <1>1, <1>16 DEF RespondInfo, Go, Set, DomainInv, NoLocals, Calls, Wanted, Getting,
     Loading, Completing
<1>17. CASE Answer(r) \/ Write(r)
  BY <1>17 DEF Answer, Write, DomainInv, CallInv, Calls, Wanted, QueryState, Answers
<1>18. CASE Deliver(r)
  BY <1>18 DEF Deliver, Delivered, Go, Set, DomainInv, Local, CallInv, Calls, Wanted,
     Getting, Loading, Completing
<1> QED
  BY <1>2, <1>3, <1>4, <1>5, <1>6, <1>7, <1>8, <1>9, <1>10, <1>11, <1>12, <1>13, <1>14, <1>15,
     <1>16, <1>17, <1>18 DEF Act, Step, Query

LEMMA CallStep == DomainInv /\ CallInv /\ [Next]_vars => CallInv'
<1> SUFFICES ASSUME DomainInv, CallInv, [Next]_vars PROVE CallInv'
  OBVIOUS
<1>1. ASSUME NEW r \in Request, Act(r) PROVE CallInv'
  <2>1. \A q \in Request \ {r} : Calls(q)'
    BY <1>1, Framed DEF Frame, CallInv, Calls, Wanted
  <2> QED
    BY <1>1, <2>1, CallAct DEF CallInv
<1>2. CASE ChangeRegistry \/ MonitorSticks \/ UNCHANGED vars
  BY <1>2 DEF ChangeRegistry, MonitorSticks, vars, bus, CallInv, Calls, Wanted
<1>3. CASE Abort
  BY <1>3 DEF Abort, Active, NoLocals, DomainInv, CallInv, Calls, Wanted, Getting, Loading,
     Completing
<1> QED
  BY <1>1, <1>2, <1>3 DEF Next, Act

-------------------------------------------------------------------------------
(* Only Store writes to an object, or to the cache.                        *)
LEMMA Untouched ==
  ASSUME NEW r \in Request, Act(r), ~Store(r)
  PROVE  UNCHANGED <<cache, object>>
BY DEF Act, Step, Query, Unsupported, AskInfo, AskList, NextCorpus, FindNoMap, MakeMap,
   GetConfigured, GetUnknown, GetAutoConf, AutogenerateConf, KeepConf, LookUp, NoRegistry,
   PublishQuery, PublishFails, Receive, MakeProperties, FillProperty, RespondInfo, Answer,
   Deliver, Delivered, Write, caches, info

(* Where a request is after a step of it that is not LookUp or Store.      *)
LEMMA Moves ==
  ASSUME DomainInv, CallInv, NEW r \in Request, Act(r), ~LookUp(r), ~Store(r)
  PROVE  /\ pc[r] \in Completing => pc'[r] \in Completing \cup {"done"}
         /\ pc'[r] \in Completing =>
              /\ pc[r] \in Completing
              /\ asked'[r] = asked[r] /\ Object(r)' = Object(r)
         /\ pc[r] \in {"done", "lost"} => pc'[r] = pc[r]
<1> USE DEF DomainInv, Go, Completing
<1>1. ASSUME NEW code, Respond(r, code) PROVE pc'[r] = "done"
  BY <1>1 DEF Respond
<1>2. CASE Unsupported(r) \/ NoRegistry(r) \/ PublishFails(r)
  BY <1>1, <1>2 DEF Unsupported, NoRegistry, PublishFails
<1>3. CASE AskInfo(r) \/ AskList(r) \/ NextCorpus(r)
  BY <1>1, <1>3 DEF AskInfo, AskList, NextCorpus
<1>4. CASE FindNoMap(r) \/ MakeMap(r) \/ AutogenerateConf(r) \/ PublishQuery(r) \/ Receive(r)
  BY <1>1, <1>4 DEF FindNoMap, MakeMap, AutogenerateConf, PublishQuery, Receive
<1>5. ASSUME NEW value, Returned(r, value) \/ Panicked(r), pc[r] \in Getting
      PROVE  pc'[r] \notin Completing
  BY <1>1, <1>5 DEF Returned, Panicked, CallInv, Calls
<1>6. CASE GetConfigured(r) \/ GetUnknown(r) \/ GetAutoConf(r) \/ KeepConf(r)
  BY <1>5, <1>6 DEF GetConfigured, GetUnknown, GetAutoConf, KeepConf, Getting
<1>7. CASE MakeProperties(r)
  <2>1. \E d : local'[r] = [local[r] EXCEPT !.disturbed = d]
    BY <1>7 DEF MakeProperties
  <2> QED
    BY <1>7, <2>1 DEF MakeProperties, After, Object, Local
<1>8. CASE FillProperty(r)
  BY <1>8 DEF FillProperty, After, Set, Object, Local
<1>9. CASE RespondInfo(r)
  BY <1>9 DEF RespondInfo
<1>10. CASE Query(r)
  <2>1. CASE Answer(r) \/ Write(r)
    BY <2>1 DEF Answer, Write, Object
  <2>2. CASE Deliver(r)
    BY <2>2 DEF Deliver, Delivered
  <2> QED
    BY <1>10, <2>1, <2>2 DEF Query
<1> QED
  BY <1>2, <1>3, <1>4, <1>6, <1>7, <1>8, <1>9, <1>10 DEF Act, Step

LEMMA ObjectStep == DomainInv /\ CallInv /\ ObjectInv /\ [Next]_vars => ObjectInv'
<1> SUFFICES ASSUME DomainInv, CallInv, ObjectInv, [Next]_vars PROVE ObjectInv'
  OBVIOUS
<1>1. ASSUME NEW r \in Request, Act(r), ~Store(r) PROVE ObjectInv'
  <2>1. UNCHANGED <<cache, object>>
    BY <1>1, Untouched
  <2>2. CacheInv'
    BY <2>1 DEF ObjectInv, CacheInv
  <2>3. ASSUME NEW q \in Request \ {r} PROVE Points(q)'
    BY <1>1, <2>1, Framed DEF Frame, ObjectInv, Points, Object, Right, Wanted
  <2>4. ASSUME LookUp(r) PROVE Points(r)'
    <3>1. Key(r) \in Corpus \X Lang /\ Key(r) = <<Wanted(r), asked[r].lang>>
      BY <2>4 DEF LookUp, CallInv, Calls, Key, Loading
    <3>2. /\ pc[r] = "lookup" /\ asked' = asked
          /\ pc' = [pc EXCEPT ![r] = IF cache[Key(r)] = Nobody THEN "ask" ELSE "clear"]
          /\ local' = [local EXCEPT ![r] = [local[r] EXCEPT !.pointer = cache[Key(r)]]]
      BY <2>4 DEF LookUp, Go, Set
    <3>3. Object(r)' = cache[Key(r)] /\ cache[Key(r)] \in Request \cup {Nobody}
      BY <3>1, <3>2 DEF DomainInv, Object, Local
    <3>4. object[r] = NoInfo
      BY <3>2 DEF ObjectInv, Points, Completing
    <3>5. CASE cache[Key(r)] = Nobody
      <4>1. pc'[r] = "ask"
        BY <3>2, <3>5 DEF DomainInv
      <4> QED
        BY <2>1, <3>4, <4>1 DEF Points, Completing
    <3>6. CASE cache[Key(r)] # Nobody
      <4>1. object[cache[Key(r)]] = Right(r)
        BY <3>1, <3>6 DEF ObjectInv, CacheInv, Right
      <4>2. pc'[r] = "clear"
        BY <3>2, <3>6 DEF DomainInv
      <4> QED
        BY <2>1, <3>2, <3>3, <3>6, <4>1, <4>2 DEF Points, Completing, Right, Wanted
    <3> QED
      BY <3>5, <3>6
  <2>5. ASSUME ~LookUp(r) PROVE Points(r)'
    BY <1>1, <2>1, <2>5, Moves DEF ObjectInv, Points, Right, Wanted
  <2> QED
    BY <2>2, <2>3, <2>4, <2>5 DEF ObjectInv
<1>2. ASSUME NEW r \in Request, Store(r) PROVE ObjectInv'
  <2>1. /\ pc[r] = "store" /\ pc' = [pc EXCEPT ![r] = "clear"] /\ asked' = asked
        /\ object' = [object EXCEPT ![r] = Right(r)]
        /\ cache' = [cache EXCEPT ![Key(r)] = r]
        /\ local' = [local EXCEPT ![r] = [local[r] EXCEPT !.pointer = r]]
    BY <1>2 DEF Store, Go, Set, CallInv, Calls, Right
  <2>2. object[r] = NoInfo
    BY <2>1 DEF ObjectInv, Points, Completing
  <2>3. Key(r) \in Corpus \X Lang /\ Key(r) = <<Wanted(r), asked[r].lang>>
    BY <2>1 DEF CallInv, Calls, Key, Loading
  <2>4. \A q \in Request : Right(q) # NoInfo
    BY DEF Right, NoInfo
  <2>5. CacheInv'
    <3> SUFFICES ASSUME NEW k \in Corpus \X Lang, cache'[k] # Nobody
                 PROVE  object'[cache'[k]] = [corpus |-> k[1], lang |-> k[2], data |-> "good"]
      BY DEF CacheInv
    <3>1. CASE k = Key(r)
      BY <2>1, <2>3, <3>1 DEF DomainInv, Right
    <3>2. CASE k # Key(r)
      <4>1. cache'[k] = cache[k] /\ cache[k] \in Request
        BY <2>1, <3>2 DEF DomainInv
      <4>2. object[cache[k]] = [corpus |-> k[1], lang |-> k[2], data |-> "good"]
        BY <4>1 DEF ObjectInv, CacheInv
      <4>3. cache[k] # r
        BY <2>2, <4>2 DEF NoInfo
      <4> QED
        BY <2>1, <4>1, <4>2, <4>3 DEF DomainInv
    <3> QED
      BY <3>1, <3>2
  <2>6. ASSUME NEW q \in Request \ {r} PROVE Points(q)'
    <3>1. pc'[q] = pc[q] /\ asked'[q] = asked[q] /\ Object(q)' = Object(q)
      BY <2>1 DEF DomainInv, Object
    <3>2. object'[q] = object[q]
      BY <2>1 DEF DomainInv
    <3>3. pc[q] \in Completing => Object(q) # r
      BY <2>2, <2>4 DEF ObjectInv, Points
    <3> QED
      BY <2>1, <3>1, <3>2, <3>3 DEF DomainInv, ObjectInv, Points, Right, Wanted
  <2>7. Points(r)'
    <3>1. pc'[r] = "clear" /\ Object(r)' = r /\ object'[r] = Right(r)
      BY <2>1 DEF DomainInv, Object, Local
    <3> QED
      BY <2>1, <3>1 DEF Points, Completing, Right, Wanted
  <2> QED
    BY <2>5, <2>6, <2>7 DEF ObjectInv
<1>3. CASE ChangeRegistry \/ MonitorSticks \/ UNCHANGED vars
  BY <1>3 DEF ChangeRegistry, MonitorSticks, vars, caches, info, bus, ObjectInv, CacheInv, Points,
     Object, Right, Wanted
<1>4. CASE Abort
  <2>1. CacheInv'
    BY <1>4 DEF Abort, CacheInv
  <2>2. ASSUME NEW r \in Request PROVE Points(r)'
    BY <1>4 DEF Abort, Active, info, ObjectInv, Points, Completing
  <2> QED
    BY <2>1, <2>2 DEF ObjectInv
<1> QED
  BY <1>1, <1>2, <1>3, <1>4 DEF Next, Act

-------------------------------------------------------------------------------
(* Any other step of a request than those that write properties leaves the *)
(* request where it was, or not filling.                                   *)
LEMMA Elsewhere ==
  ASSUME DomainInv, CallInv, FillInv, NEW r \in Request, Act(r),
         ~MakeProperties(r), ~FillProperty(r)
  PROVE  /\ props' = props
         /\ \/ pc' = pc /\ local' = local
            \/ /\ pc'[r] \notin Filling /\ local'[r].filled = {}
               /\ \A q \in Request \ {r} : pc'[q] = pc[q] /\ local'[q] = local[q]
<1> USE DEF Go, Set, Filling
<1> DEFINE Leaves(to) ==
      /\ pc' = [pc EXCEPT ![r] = to] /\ to \notin Filling
      /\ \E l : local' = [local EXCEPT ![r] = l] /\ l.filled = {}
<1>1. pc[r] \notin Filling => local[r].filled = {}
  BY DEF FillInv, Fills
<1>2. ASSUME NEW to, Leaves(to)
      PROVE  /\ pc'[r] \notin Filling /\ local'[r].filled = {}
             /\ \A q \in Request \ {r} : pc'[q] = pc[q] /\ local'[q] = local[q]
  BY <1>2 DEF DomainInv
<1>3. ASSUME NEW code, Respond(r, code) PROVE Leaves("done")
  <2>1. NoLocals.filled = {}
    BY DEF NoLocals
  <2> QED
    BY <1>3, <2>1 DEF Respond
<1>4. local[r] \in Local
  BY DEF DomainInv
<1>5. ASSUME NEW to, pc[r] \notin Filling, to \notin Filling, Go(r, to), local' = local
      PROVE  Leaves(to)
  <2>1. local' = [local EXCEPT ![r] = local[r]]
    BY <1>5 DEF DomainInv
  <2> QED
    BY <1>1, <1>5, <2>1
<1>6. CASE Unsupported(r) \/ NoRegistry(r) \/ PublishFails(r)
  <2>1. Leaves("done") /\ props' = props
    BY <1>3, <1>6 DEF Unsupported, NoRegistry, PublishFails, info
  <2> QED
    BY <1>2, <2>1
<1>7. CASE AskInfo(r)
  <2>1. [local[r] EXCEPT !.call = "handler"].filled = local[r].filled
    BY <1>4 DEF Local
  <2>2. Leaves("start") /\ props' = props
    BY <1>1, <1>7, <2>1 DEF AskInfo, info
  <2> QED
    BY <1>2, <2>2
<1>8. CASE AskList(r)
  <2>1. [local[r] EXCEPT !.call = "list", !.todo = registry].filled = local[r].filled
    BY <1>4 DEF Local
  <2>2. (Leaves("next") \/ Leaves("done")) /\ props' = props
    BY <1>1, <1>3, <1>8, <2>1 DEF AskList, info
  <2> QED
    BY <1>2, <2>2
<1>9. CASE NextCorpus(r)
  <2>1. \A c : [local[r] EXCEPT !.todo = @ \ {c}].filled = local[r].filled
    BY <1>4 DEF Local
  <2>2. props' = props
    BY <1>9 DEF NextCorpus, info
  <2>3. CASE Respond(r, 200)
    BY <1>2, <1>3, <2>2, <2>3
  <2>4. CASE ~Respond(r, 200)
    <3>1. local[r].filled = {}
      BY <1>1, <1>9 DEF NextCorpus
    <3>2. PICK c : Set(r, [local[r] EXCEPT !.todo = @ \ {c}]) /\ Go(r, "start")
      BY <1>9, <2>4 DEF NextCorpus
    <3>3. Leaves("start")
      BY <2>1, <3>1, <3>2
    <3> QED
      BY <1>2, <2>2, <3>3
  <2> QED
    BY <2>3, <2>4
<1>10. CASE FindNoMap(r) \/ MakeMap(r) \/ PublishQuery(r)
  <2>1. (Leaves("make") \/ Leaves("conf") \/ Leaves("wait")) /\ props' = props
    BY <1>5, <1>10 DEF FindNoMap, MakeMap, PublishQuery, info
  <2> QED
    BY <1>2, <2>1
<1>11. ASSUME NEW value, Returned(r, value) \/ Panicked(r), pc[r] \in Getting
       PROVE  \E to : Leaves(to)
  <2>1. \A v : [local[r] EXCEPT !.conf = v].filled = local[r].filled
    BY <1>4 DEF Local
  <2>2. pc[r] \notin Filling /\ local[r].call \in {"list", "handler", "provider"}
    BY <1>11 DEF CallInv, Calls, Getting
  <2>3. ASSUME NEW v, Returned(r, v) PROVE \E to : Leaves(to)
    <3>1. CASE Respond(r, 404)
      BY <1>3, <3>1
    <3>2. CASE ~Respond(r, 404)
      <4>1. PICK to \in {"next", "lookup", "store"} :
              Go(r, to) /\ Set(r, [local[r] EXCEPT !.conf = v])
        BY <2>2, <2>3, <3>2 DEF Returned
      <4> QED
        BY <1>1, <2>1, <2>2, <4>1
    <3> QED
      BY <3>1, <3>2
  <2> QED
    BY <1>3, <1>11, <2>3 DEF Panicked
<1>12. CASE GetConfigured(r) \/ GetUnknown(r) \/ KeepConf(r)
  <2>1. (\E to : Leaves(to)) /\ props' = props
    BY <1>11, <1>12 DEF GetConfigured, GetUnknown, KeepConf, Getting, info
  <2> QED
    BY <1>2, <2>1
<1>13. CASE GetAutoConf(r)
  <2>1. (\E to : Leaves(to)) /\ props' = props
    <3>1. CASE autoConf[Wanted(r)] = "absent"
      <4>1. Leaves("generate")
        BY <1>5, <1>13, <3>1 DEF GetAutoConf
      <4> QED
        BY <1>13, <4>1 DEF GetAutoConf, info
    <3>2. CASE autoConf[Wanted(r)] # "absent"
      BY <1>11, <1>13, <3>2 DEF GetAutoConf, Getting, info
    <3> QED
      BY <3>1, <3>2
  <2> QED
    BY <1>2, <2>1
<1>14. CASE AutogenerateConf(r) \/ LookUp(r) \/ Store(r)
  <2>1. \A v : /\ [local[r] EXCEPT !.conf = v].filled = local[r].filled
               /\ [local[r] EXCEPT !.pointer = v].filled = local[r].filled
    BY <1>4 DEF Local
  <2>2. Leaves("keep") \/ Leaves("ask") \/ Leaves("clear")
    <3>1. CASE AutogenerateConf(r)
      BY <1>1, <2>1, <3>1 DEF AutogenerateConf
    <3>2. CASE LookUp(r)
      BY <1>1, <2>1, <3>2 DEF LookUp
    <3>3. CASE Store(r)
      BY <1>1, <2>1, <3>3 DEF Store
    <3> QED
      BY <1>14, <3>1, <3>2, <3>3
  <2>3. props' = props
    BY <1>14 DEF AutogenerateConf, LookUp, Store, info
  <2> QED
    BY <1>2, <2>2, <2>3
<1>15. CASE Receive(r)
  <2>1. [local[r] EXCEPT !.call = "provider"].filled = local[r].filled
    BY <1>4 DEF Local
  <2>2. props' = props
    BY <1>15 DEF Receive, info
  <2>3. CASE Respond(r, 500)
    BY <1>2, <1>3, <2>2, <2>3
  <2>4. CASE ~Respond(r, 500)
    <3>1. local[r].filled = {}
      BY <1>1, <1>15 DEF Receive
    <3>2. Set(r, [local[r] EXCEPT !.call = "provider"]) /\ Go(r, "conf")
      BY <1>15, <2>4 DEF Receive
    <3>3. Leaves("conf")
      BY <2>1, <3>1, <3>2
    <3> QED
      BY <1>2, <2>2, <3>3
  <2> QED
    BY <2>3, <2>4
<1>16. CASE RespondInfo(r)
  <2>1. NoLocals.filled = {}
    BY DEF NoLocals
  <2>2. Leaves("done") /\ props' = props
    BY <1>16, <2>1 DEF RespondInfo, info
  <2> QED
    BY <1>2, <2>2
<1>17. CASE Answer(r) \/ Write(r)
  BY <1>17 DEF Answer, Write, info
<1>18. CASE Deliver(r)
  <2>1. \A a : [local[r] EXCEPT !.answer = a].filled = local[r].filled
    BY <1>4 DEF Local
  <2>2. Leaves("received") /\ props' = props
    BY <1>1, <1>18, <2>1 DEF Deliver, Delivered, info
  <2> QED
    BY <1>2, <2>2
<1> QED
  BY <1>6, <1>7, <1>8, <1>9, <1>10, <1>12, <1>13, <1>14, <1>15, <1>16, <1>17, <1>18
     DEF Act, Step, Query

(* Whoever fills goes on undisturbed, or is not alone.                     *)
LEMMA FillFrame ==
  ASSUME DomainInv, FillInv, NEW q \in Request,
         pc'[q] = pc[q], Object(q)' = Object(q), local'[q].filled = local[q].filled,
         local[q].disturbed => local'[q].disturbed,
         Sharing(q)' \subseteq Sharing(q) \/ pc[q] \notin Filling \/ local'[q].disturbed,
         props'[Object(q)] = props[Object(q)] \/ pc[q] \notin Filling \/ local'[q].disturbed
  PROVE  Fills(q)'
<1>1. Fills(q)
  BY DEF FillInv
<1> QED
  BY <1>1 DEF Fills, After

LEMMA FillStep == DomainInv /\ CallInv /\ ObjectInv /\ FillInv /\ [Next]_vars => FillInv'
<1> SUFFICES ASSUME DomainInv, CallInv, ObjectInv, FillInv, [Next]_vars PROVE FillInv'
  OBVIOUS
<1>1. ASSUME NEW r \in Request, Act(r), ~MakeProperties(r), ~FillProperty(r) PROVE FillInv'
  <2> SUFFICES ASSUME NEW q \in Request PROVE Fills(q)'
    BY DEF FillInv
  <2>1. CASE pc' = pc /\ local' = local /\ props' = props
    BY <2>1 DEF FillInv, Fills, After, Object, Sharing
  <2>2. CASE /\ props' = props
             /\ pc'[r] \notin Filling /\ local'[r].filled = {}
             /\ \A p \in Request \ {r} : pc'[p] = pc[p] /\ local'[p] = local[p]
    <3>1. CASE q = r
      BY <2>2, <3>1 DEF Fills
    <3>2. CASE q # r
      <4>1. Sharing(q)' \subseteq Sharing(q)
        BY <2>2, <3>2 DEF Sharing, Object, Filling
      <4> QED
        BY <2>2, <3>2, <4>1, FillFrame DEF Object
    <3> QED
      BY <3>1, <3>2
  <2> QED
    BY <1>1, <2>1, <2>2, Elsewhere
<1>2. ASSUME NEW r \in Request, MakeProperties(r) PROVE FillInv'
  <2> SUFFICES ASSUME NEW q \in Request PROVE Fills(q)'
    BY DEF FillInv
  <2>1. /\ pc[r] = "clear" /\ pc' = [pc EXCEPT ![r] = After({})]
        /\ props' = [props EXCEPT ![Object(r)] = NoProps]
    BY <1>2 DEF MakeProperties, Go
  <2>2. ASSUME NEW p \in Request
        PROVE  /\ local'[p].filled = local[p].filled /\ Object(p)' = Object(p)
               /\ local'[p].disturbed =
                    (local[p].disturbed \/ p \in Sharing(r) \/ (p = r /\ Sharing(r) # {}))
    <3>1. local'[p] = [local[p] EXCEPT
            !.disturbed = @ \/ p \in Sharing(r) \/ (p = r /\ Sharing(r) # {})]
      BY <1>2 DEF MakeProperties
    <3>2. local[p] \in Local
      BY DEF DomainInv
    <3> QED
      BY <3>1, <3>2 DEF Local, Object
  <2>3. pc'[r] = After({}) /\ \A p \in Request \ {r} : pc'[p] = pc[p]
    BY <2>1 DEF DomainInv
  <2>4. CASE q = r
    <3>1. local'[r].filled = {} /\ pc'[r] \in Filling
      BY <2>1, <2>2, <2>3 DEF FillInv, Fills, Filling, After
    <3>2. Sharing(r)' \subseteq Sharing(r)
      BY <2>2, <2>3 DEF Sharing
    <3>3. Sharing(r) # {} => local'[r].disturbed
      BY <2>2
    <3>4. {props'[Object(r)'][i] : i \in 1..Cardinality({})} = {}
      BY FS_EmptySet
    <3> QED
      BY <2>3, <2>4, <3>1, <3>2, <3>3, <3>4 DEF Fills, After
  <2>5. CASE q # r
    <3>1. CASE q \in Sharing(r)
      BY <2>2, <2>3, <2>5, <3>1, FillFrame
    <3>2. CASE pc[q] \notin Filling
      BY <2>2, <2>3, <2>5, <3>2, FillFrame
    <3>3. CASE pc[q] \in Filling /\ q \notin Sharing(r)
      <4>1. Object(q) # Object(r)
        BY <2>5, <3>3 DEF Sharing, Filling
      <4>2. Sharing(q)' \subseteq Sharing(q)
        BY <2>2, <2>3, <4>1 DEF Sharing
      <4>3. props'[Object(q)] = props[Object(q)]
        BY <2>1, <4>1 DEF DomainInv
      <4> QED
        BY <2>2, <2>3, <2>5, <4>2, <4>3, FillFrame
    <3> QED
      BY <3>1, <3>2, <3>3
  <2> QED
    BY <2>4, <2>5
<1>3. ASSUME NEW r \in Request, FillProperty(r) PROVE FillInv'
  <2> SUFFICES ASSUME NEW q \in Request PROVE Fills(q)'
    BY DEF FillInv
  <2> DEFINE n == Cardinality(local[r].filled)
  <2>1. PICK p \in TextProps \ local[r].filled :
          /\ props' = [props EXCEPT ![Object(r)][n + 1] = p]
          /\ local' = [local EXCEPT ![r] = [local[r] EXCEPT !.filled = @ \cup {p}]]
          /\ pc' = [pc EXCEPT ![r] = After(local[r].filled \cup {p})]
    BY <1>3 DEF FillProperty, Go, Set
  <2>2. pc[r] = "fill"
    BY <1>3 DEF FillProperty
  <2>3. local[r] \in Local /\ local[r].filled \subseteq TextProps
    BY DEF DomainInv, Local
  <2>4. /\ local'[r].filled = local[r].filled \cup {p} /\ local'[r].disturbed = local[r].disturbed
        /\ Object(r)' = Object(r)
        /\ pc'[r] = After(local[r].filled \cup {p}) /\ pc'[r] \in Filling
    BY <2>1, <2>3 DEF DomainInv, Local, Object, After, Filling
  <2>5. \A o \in Request \ {r} : pc'[o] = pc[o] /\ local'[o] = local[o] /\ Object(o)' = Object(o)
    BY <2>1 DEF DomainInv, Object
  <2>6. CASE q # r
    <3>1. Sharing(q)' \subseteq Sharing(q)
      BY <2>2, <2>4, <2>5, <2>6 DEF Sharing, Filling
    <3>2. CASE Object(q) = Object(r)
      <4>1. pc[q] \in Filling => r \in Sharing(q)
        BY <2>2, <2>6, <3>2 DEF Sharing
      <4>2. pc[q] \in Filling => local[q].disturbed
        BY <4>1 DEF FillInv, Fills
      <4> QED
        BY <2>5, <2>6, <3>1, <4>2, FillFrame
    <3>3. CASE Object(q) # Object(r)
      <4>1. props'[Object(q)] = props[Object(q)]
        BY <2>1, <3>3 DEF DomainInv
      <4> QED
        BY <2>5, <2>6, <3>1, <4>1, FillFrame
    <3> QED
      BY <3>2, <3>3
  <2>7. CASE q = r
    <3>1. Sharing(r)' \subseteq Sharing(r)
      BY <2>4, <2>5 DEF Sharing
    <3>2. Sharing(r) # {} => local[r].disturbed
      BY <2>2 DEF FillInv, Fills, Filling
    <3>3. ASSUME ~local[r].disturbed
          PROVE  {props'[Object(r)][i] : i \in 1..Cardinality(local[r].filled \cup {p})} =
                   local[r].filled \cup {p}
      <4>1. n \in Nat /\ Cardinality(local[r].filled \cup {p}) = n + 1 /\ n + 1 \in Slot
        BY <2>3, Slots
      <4>2. Object(r) \in Request
        BY <2>2 DEF ObjectInv, Points, Completing
      <4>3. props[Object(r)] \in Properties
        BY <4>2 DEF DomainInv
      <4>4. props'[Object(r)] = [props[Object(r)] EXCEPT ![n + 1] = p]
        BY <2>1, <4>2 DEF DomainInv
      <4>5. props'[Object(r)][n + 1] = p /\ \A i \in 1..n : props'[Object(r)][i] = props[Object(r)][i]
        BY <4>1, <4>3, <4>4 DEF Properties
      <4>6. {props[Object(r)][i] : i \in 1..n} = local[r].filled
        BY <2>2, <3>3 DEF FillInv, Fills, Filling
      <4>7. 1..(n + 1) = (1..n) \cup {n + 1}
        BY <4>1
      <4> HIDE DEF n
      <4> QED
        BY <4>1, <4>5, <4>6, <4>7
    <3> QED
      BY <2>4, <2>7, <3>1, <3>2, <3>3 DEF Fills
  <2> QED
    BY <2>6, <2>7
<1>4. CASE ChangeRegistry \/ MonitorSticks \/ UNCHANGED vars
  BY <1>4 DEF ChangeRegistry, MonitorSticks, vars, info, FillInv, Fills, After, Object, Sharing
<1>5. CASE Abort
  BY <1>5 DEF Abort, Active, NoLocals, FillInv, Fills, Filling
<1> QED
  BY <1>1, <1>2, <1>3, <1>4, <1>5 DEF Next, Act

-------------------------------------------------------------------------------
(* A step answers without information, or goes on.                         *)
LEMMA Outcome ==
  ASSUME DomainInv, CallInv, NEW r \in Request, Act(r), ~RespondInfo(r)
  PROVE  \/ \E code \in {404, 422, 500} : Respond(r, code)
         \/ Respond(r, 200) /\ asked'[r].kind = "list"
         \/ reply' = reply /\ pc'[r] # "done" /\ pc[r] # "done"
         \/ reply' = reply /\ pc' = pc /\ asked' = asked
<1> USE DEF Go
<1> DEFINE Goes == reply' = reply /\ pc'[r] # "done" /\ pc[r] # "done"
<1>1. CASE Unsupported(r) \/ NoRegistry(r) \/ PublishFails(r)
  BY <1>1 DEF Unsupported, NoRegistry, PublishFails
<1>2. CASE AskInfo(r) \/ FindNoMap(r) \/ MakeMap(r) \/ AutogenerateConf(r)
  BY <1>2 DEF AskInfo, FindNoMap, MakeMap, AutogenerateConf, DomainInv
<1>3. CASE AskList(r)
  <2>1. asked'[r].kind = "list"
    BY <1>3 DEF AskList, DomainInv, Ask
  <2>2. CASE Respond(r, 200)
    BY <2>1, <2>2
  <2>3. CASE ~Respond(r, 200)
    BY <1>3, <2>3 DEF AskList, DomainInv
  <2> QED
    BY <2>2, <2>3
<1>4. CASE NextCorpus(r)
  <2>1. asked'[r].kind = "list"
    <3>1. \E c : asked' = [asked EXCEPT ![r].corpus = c]
      BY <1>4 DEF NextCorpus
    <3>2. asked[r].kind = "list"
      BY <1>4 DEF NextCorpus, CallInv, Calls
    <3> QED
      BY <3>1, <3>2 DEF DomainInv, Ask
  <2>2. CASE Respond(r, 200)
    BY <2>1, <2>2
  <2>3. CASE ~Respond(r, 200)
    BY <1>4, <2>3 DEF NextCorpus, DomainInv
  <2> QED
    BY <2>2, <2>3
<1>5. ASSUME NEW value, Returned(r, value) \/ Panicked(r), pc[r] \in Getting
      PROVE  Goes \/ \E code \in {404, 422, 500} : Respond(r, code)
  <2>1. local[r].call \in {"list", "handler", "provider"} /\ pc[r] # "done"
    BY <1>5 DEF CallInv, Calls, Getting
  <2>2. ASSUME NEW v, Returned(r, v), ~Respond(r, 404) PROVE Goes
    BY <2>1, <2>2 DEF Returned, DomainInv
  <2> QED
    BY <1>5, <2>2 DEF Panicked
<1>6. CASE GetConfigured(r) \/ GetUnknown(r) \/ KeepConf(r)
  BY <1>5, <1>6 DEF GetConfigured, GetUnknown, KeepConf, Getting
<1>7. CASE GetAutoConf(r)
  <2>1. CASE autoConf[Wanted(r)] = "absent"
    BY <1>7, <2>1 DEF GetAutoConf, DomainInv
  <2>2. CASE autoConf[Wanted(r)] # "absent"
    BY <1>5, <1>7, <2>2 DEF GetAutoConf, Getting
  <2> QED
    BY <2>1, <2>2
<1>8. CASE LookUp(r) \/ PublishQuery(r) \/ Store(r) \/ MakeProperties(r) \/ FillProperty(r)
  <2>1. CASE LookUp(r)
    BY <2>1 DEF LookUp, DomainInv
  <2>2. CASE PublishQuery(r)
    BY <2>2 DEF PublishQuery, DomainInv
  <2>3. CASE Store(r)
    BY <2>3 DEF Store, DomainInv
  <2>4. CASE MakeProperties(r)
    BY <2>4 DEF MakeProperties, After, DomainInv
  <2>5. CASE FillProperty(r)
    <3>1. PICK p : Go(r, After(local[r].filled \cup {p}))
      BY <2>5 DEF FillProperty
    <3> QED
      BY <2>5, <3>1 DEF FillProperty, After, DomainInv
  <2> QED
    BY <1>8, <2>1, <2>2, <2>3, <2>4, <2>5
<1>9. CASE Receive(r)
  <2>1. CASE Respond(r, 500)
    BY <2>1
  <2>2. CASE ~Respond(r, 500)
    BY <1>9, <2>2 DEF Receive, DomainInv
  <2> QED
    BY <2>1, <2>2
<1>10. CASE Answer(r) \/ Write(r)
  BY <1>10 DEF Answer, Write
<1>11. CASE Deliver(r)
  BY <1>11 DEF Deliver, Delivered, DomainInv
<1> QED
  BY <1>1, <1>2, <1>3, <1>4, <1>6, <1>7, <1>8, <1>9, <1>10, <1>11 DEF Act, Step, Query

(* Who has filled in all properties undisturbed reads them all, and no     *)
(* others.                                                                 *)
LEMMA AllFilled ==
  ASSUME DomainInv, ObjectInv, FillInv, NEW r \in Request, pc[r] = "respond", ~local[r].disturbed
  PROVE  Range(props[Object(r)]) = TextProps /\ Sharing(r) = {}
<1>1. /\ Sharing(r) # {} => local[r].disturbed
      /\ pc[r] = After(local[r].filled)
      /\ {props[Object(r)][i] : i \in 1..Cardinality(local[r].filled)} = local[r].filled
  BY DEF FillInv, Fills, Filling
<1>2. local[r].filled = TextProps
  BY <1>1 DEF After
<1>3. DOMAIN props[Object(r)] = Slot
  BY DEF DomainInv, Properties, ObjectInv, Points, Completing
<1> QED
  BY <1>1, <1>2, <1>3 DEF Range, Slot

LEMMA ReplyStep == DomainInv /\ CallInv /\ ObjectInv /\ FillInv /\ ReplyInv /\ [Next]_vars => ReplyInv'
<1> SUFFICES ASSUME DomainInv, CallInv, ObjectInv, FillInv, ReplyInv, [Next]_vars PROVE ReplyInv'
  OBVIOUS
<1>1. ASSUME NEW r \in Request, Act(r) PROVE ReplyInv'
  <2>1. ASSUME NEW q \in Request \ {r} PROVE Replies(q)'
    BY <1>1, Framed DEF Frame, ReplyInv, Replies, Right, Wanted
  <2>2. ASSUME NEW code, code # 0, Respond(r, code), code = 200 => asked'[r].kind = "list"
        PROVE  Replies(r)'
    <3>1. pc'[r] = "done" /\ reply'[r].status = code
      BY <2>2 DEF Respond, Go, DomainInv, Reply
    <3> QED
      BY <2>2, <3>1 DEF Replies
  <2>3. ASSUME RespondInfo(r) PROVE Replies(r)'
    <3>1. pc[r] = "respond" /\ pc'[r] = "done" /\ asked' = asked
      BY <2>3 DEF RespondInfo, Go, DomainInv
    <3>2. PICK seen : /\ reply' = [reply EXCEPT ![r] =
                            [status |-> 200, info |-> object[Object(r)], props |-> seen,
                             disturbed |-> local[r].disturbed]]
                      /\ Sharing(r) = {} => seen = Range(props[Object(r)])
      BY <2>3 DEF RespondInfo
    <3>3. /\ reply'[r].status = 200 /\ reply'[r].info = object[Object(r)]
          /\ reply'[r].props = seen /\ reply'[r].disturbed = local[r].disturbed
      BY <3>2 DEF DomainInv
    <3>4. object[Object(r)] = Right(r)
      BY <3>1 DEF ObjectInv, Points, Completing
    <3>5. ~local[r].disturbed => seen = TextProps
      BY <3>1, <3>2, AllFilled
    <3> QED
      BY <3>1, <3>3, <3>4, <3>5 DEF Replies, Right, Wanted
  <2>4. ASSUME reply' = reply, pc'[r] # "done", pc[r] # "done" PROVE Replies(r)'
    BY <2>4 DEF ReplyInv, Replies
  <2>5. ASSUME reply' = reply, pc' = pc, asked' = asked PROVE Replies(r)'
    BY <2>5 DEF ReplyInv, Replies, Right, Wanted
  <2>6. Replies(r)'
    BY <1>1, <2>2, <2>3, <2>4, <2>5, Outcome
  <2> QED
    BY <2>1, <2>6 DEF ReplyInv
<1>2. CASE ChangeRegistry \/ MonitorSticks \/ UNCHANGED vars
  BY <1>2 DEF ChangeRegistry, MonitorSticks, vars, ReplyInv, Replies, Right, Wanted
<1>3. CASE Abort
  <2>1. UNCHANGED <<asked, reply>> /\ \A r \in Request : pc'[r] = "done" <=> pc[r] = "done"
    BY <1>3 DEF Abort, Active
  <2> QED
    BY <2>1 DEF ReplyInv, Replies, Right, Wanted
<1> QED
  BY <1>1, <1>2, <1>3 DEF Next, Act

-------------------------------------------------------------------------------
LEMMA CorpInit == Init => CorpInv
<1> SUFFICES ASSUME Init PROVE CorpInv
  OBVIOUS
<1>1. CallInv
  BY DEF Init, CallInv, Calls, NoLocals, Getting, Loading, Completing
<1>2. ObjectInv
  BY DEF Init, ObjectInv, CacheInv, Points, Completing
<1>3. FillInv
  BY DEF Init, FillInv, Fills, NoLocals, Filling
<1>4. ReplyInv
  BY DEF Init, ReplyInv, Replies, NoReply
<1> QED
  BY <1>1, <1>2, <1>3, <1>4, DomainInit DEF CorpInv

LEMMA CorpInvariant == Spec => []CorpInv
<1>1. CorpInv /\ [Next]_vars => CorpInv'
  BY DomainStep, CallStep, ObjectStep, FillStep, ReplyStep DEF CorpInv
<1> QED
  BY <1>1, CorpInit, PTL DEF Spec

(* The domains of the state; who completes information has some, and who   *)
(* waits for an answer gets one.                                           *)
THEOREM Typing == Spec => []TypeOK
<1>1. CorpInv => TypeOK
  <2> SUFFICES ASSUME CorpInv PROVE TypeOK
    OBVIOUS
  <2>1. ASSUME NEW r \in Request, pc[r] \in Completing PROVE object[Object(r)] \in Info
    <3>1. Wanted(r) \in Corpus /\ asked[r].lang \in Lang
      BY <2>1 DEF CorpInv, CallInv, Calls
    <3>2. object[Object(r)] = Right(r)
      BY <2>1 DEF CorpInv, ObjectInv, Points
    <3> QED
      BY <3>1, <3>2 DEF Right, Info
  <2> QED
    BY <2>1 DEF CorpInv, TypeOK, DomainInv, CallInv, Calls, ReplyInv, Replies, Completing
<1> QED
  BY <1>1, CorpInvariant, PTL

(* The cached information is that of the corpus and the language it is     *)
(* kept under, found without an error, and so is what is shown; the text   *)
(* properties are all there, unless another request was filling them in.   *)
(* (corpus/infoload/manatee.go:66-107, corpus/handlers/info.go:94-118)     *)
THEOREM InformationIsRight == Spec => []InfoIsRight
<1>1. CorpInv => InfoIsRight
  BY DEF CorpInv, InfoIsRight, ObjectInv, CacheInv, ReplyInv, Replies, Right
<1> QED
  BY <1>1, CorpInvariant, PTL

================================================================================
