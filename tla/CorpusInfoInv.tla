----------------------------- MODULE CorpusInfoInv -----------------------------
(***************************************************************************)
(* The inductive invariant behind InfoIsRight of CorpusInfo.  TLC          *)
(* evaluates it on the instance of CorpusInfo.cfg, CorpusInfo_proofs       *)
(* proves it.                                                              *)
(***************************************************************************)
EXTENDS CorpusInfo

Getting    == {"start", "make", "conf", "generate", "keep"}     \* in GetCorp
Loading    == {"lookup", "ask", "wait", "received", "store"}    \* in LoadCorpusInfo
Completing == {"clear", "fill", "respond"}
Filling    == {"fill", "respond"}

Local ==
  [call : {"none", "list", "handler", "provider"}, conf : {"nil", "conf"}, todo : SUBSET Corpus,
   answer : Answers \cup {"none"}, pointer : Request \cup {Nobody}, filled : SUBSET TextProps,
   disturbed : BOOLEAN]

Place == {"idle", "next", "done", "lost"} \cup Getting \cup Loading \cup Completing

Ask == [kind : {"none", "info", "list"}, corpus : Corpus \cup {"none"}, lang : Lang \cup {"none"}]

Properties == [Slot -> TextProps \cup {Blank}]

QueryState == {"none", "waiting", "logging", "closed"} \cup Answers

Reply ==
  [status : {0, 200, 404, 422, 500}, info : Info \cup {NoInfo},
   props : SUBSET (TextProps \cup {Blank}), disturbed : BOOLEAN]

(* The domains.                                                            *)
DomainInv ==
  /\ registry \in SUBSET Corpus
  /\ autoConf \in [Corpus -> {"absent", "nil", "conf"}]
  /\ \A c \in Configured : autoConf[c] = "absent"
  /\ cache \in [Corpus \X Lang -> Request \cup {Nobody}]
  /\ object \in [Request -> Info \cup {NoInfo}]
  /\ props \in [Request -> Properties]
  /\ pc \in [Request -> Place]
  /\ asked \in [Request -> Ask]
  /\ local \in [Request -> Local]
  /\ query \in [Request -> QueryState]
  /\ monitor \in {"running", "stuck"}
  /\ reply \in [Request -> Reply]

(* What a request asks for, and who has called GetCorp, fits its place.    *)
Calls(r) ==
  /\ pc[r] = "next" => asked[r].kind = "list" /\ local[r].call = "list"
  /\ pc[r] \in Getting =>
       /\ Wanted(r) \in Corpus
       /\ \/ asked[r].kind = "list" /\ local[r].call = "list"
          \/ asked[r].kind = "info" /\ local[r].call \in {"handler", "provider"}
  /\ pc[r] \in {"generate", "keep"} => Wanted(r) \notin Configured
  /\ pc[r] \in Loading \cup Completing => asked[r].kind = "info" /\ Wanted(r) \in Corpus
  /\ pc[r] \in {"lookup", "ask", "wait", "received"} => local[r].call = "handler"
  /\ pc[r] = "store" => local[r].call = "provider"
  /\ asked[r].kind = "info" => asked[r].lang \in Lang
  /\ local[r].call = "provider" => local[r].answer = "good"
  /\ pc[r] = "wait" => query[r] \in {"waiting"} \cup Answers

CallInv == \A r \in Request : Calls(r)

(* The information a request is for.                                       *)
Right(r) == [corpus |-> Wanted(r), lang |-> asked[r].lang, data |-> "good"]

(* An object is written once, before anybody points to it, and with what   *)
(* it is found under.                                                      *)
CacheInv ==
  \A k \in Corpus \X Lang : cache[k] # Nobody =>
    object[cache[k]] = [corpus |-> k[1], lang |-> k[2], data |-> "good"]

Points(r) ==
  /\ pc[r] \notin Completing \cup {"done", "lost"} => object[r] = NoInfo
  /\ pc[r] \in Completing => Object(r) \in Request /\ object[Object(r)] = Right(r)

ObjectInv == CacheInv /\ \A r \in Request : Points(r)

(* Who shares an object while filling it in knows.  Who does not has       *)
(* filled the slots one after the other, and nothing else is in them.      *)
Fills(r) ==
  /\ pc[r] \notin Filling => local[r].filled = {}
  /\ pc[r] \in Filling =>
       /\ Sharing(r) # {} => local[r].disturbed
       /\ pc[r] = After(local[r].filled)
       /\ ~local[r].disturbed =>
            {props[Object(r)][i] : i \in 1..Cardinality(local[r].filled)} = local[r].filled

FillInv == \A r \in Request : Fills(r)

(* What has been replied.                                                  *)
Replies(r) ==
  /\ pc[r] = "done" <=> reply[r].status # 0
  /\ asked[r].kind = "info" /\ reply[r].status = 200 =>
       /\ reply[r].info = Right(r)
       /\ ~reply[r].disturbed => reply[r].props = TextProps

ReplyInv == \A r \in Request : Replies(r)

CorpInv == DomainInv /\ CallInv /\ ObjectInv /\ FillInv /\ ReplyInv
===============================================================================
