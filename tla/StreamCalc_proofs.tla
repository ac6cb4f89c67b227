--------------------------- MODULE StreamCalc_proofs ---------------------------
(***************************************************************************)
(* Safety of StreamCalc for any set of chunks and any capacity.            *)
(***************************************************************************)
EXTENDS StreamCalcInv, SequenceTheorems, TLAPS

LEMMA HeadTail ==
  ASSUME NEW T, NEW s \in Seq(T), s # <<>>
  PROVE  Head(s) \in T /\ Tail(s) \in Seq(T) /\ Len(Tail(s)) = Len(s) - 1
  BY HeadTailProperties

LEMMA TypeInit == Init => TypeOK
<1> SUFFICES ASSUME Init PROVE TypeOK
  OBVIOUS
<1>1. \A c \in Chunk \cup {Nobody} : ErrorMessage(c) \in Message
  BY DEF ErrorMessage, Message
<1>2. chan \in Seq(Message) /\ Len(chan) <= Cap
  BY CapAssumption DEF Init
<1> QED
  BY <1>1, <1>2 DEF Init, TypeOK

LEMMA TypeStep == TypeOK /\ [Next]_vars => TypeOK'
<1> SUFFICES ASSUME TypeOK, [Next]_vars PROVE TypeOK'
  OBVIOUS
<1> USE CapAssumption DEF TypeOK
<1>1. ASSUME NEW c \in Chunk, Publish(c) \/ Fail(c) \/ Receive(c) \/ Lock(c)
             \/ MergeTotals(c) \/ MergeItems(c)
      PROVE  TypeOK'
  BY <1>1 DEF Publish, Fail, Receive, Lock, MergeTotals, MergeItems, Step, producer,
     channel, reader
<1>2. ASSUME NEW c \in Chunk, CopyTotals(c) \/ CopyList(c) PROVE TypeOK'
  <2>1. snap' \in [Chunk -> Message]
    <3>1. [snap[c] EXCEPT !.kind = "data", !.conc = conc] \in Message
      BY DEF Message
    <3>2. [snap[c] EXCEPT !.known = items] \in Message
      BY DEF Message
    <3>3. CASE CopyTotals(c)
      BY <3>1, <3>3 DEF CopyTotals
    <3>4. CASE CopyList(c)
      BY <3>2, <3>4 DEF CopyList
    <3> QED
      BY <1>2, <3>3, <3>4
  <2> QED
    BY <1>2, <2>1 DEF CopyTotals, CopyList, Step, producer, channel, reader
<1>3. ASSUME NEW c \in Chunk, Send(c) PROVE TypeOK'
  <2>1. chan' \in Seq(Message) /\ Len(chan') <= Cap
    BY <1>3 DEF Send
  <2> QED
    BY <1>3, <2>1 DEF Send, Step, producer, reader
<1>4. CASE Close \/ Finish \/ BinPanics
  BY <1>4 DEF Close, Finish, BinPanics, producer, channel, reader
<1>5. CASE FilterTakes
  <2>1. Head(chan) \in Message /\ Tail(chan) \in Seq(Message) /\ Len(Tail(chan)) <= Cap
    BY <1>5, HeadTail DEF FilterTakes
  <2> QED
    BY <1>5, <2>1 DEF FilterTakes, producer
<1>6. CASE FilterEnds
  <2>1. ErrorMessage(Nobody) \in Message
    BY DEF ErrorMessage, Message
  <2> QED
    BY <1>6, <2>1 DEF FilterEnds, producer, channel
<1>7. ASSUME NEW m \in Message, Show(m)
      PROVE  got' \in [Chunk -> Nat] /\ shown' \in SUBSET Chunk
             /\ client' \in {"receive", "left", "ended"}
  BY <1>7 DEF Show, Message
<1>8. CASE TakeDirectly
  <2>1. Head(chan) \in Message /\ Tail(chan) \in Seq(Message) /\ Len(Tail(chan)) <= Cap
    BY <1>8, HeadTail DEF TakeDirectly
  <2> QED
    BY <1>7, <1>8, <2>1 DEF TakeDirectly, producer
<1>9. CASE TakeFiltered
  BY <1>7, <1>9 DEF TakeFiltered, producer, channel
<1>10. CASE UNCHANGED vars
  BY <1>10 DEF vars, producer, channel, reader
<1> QED
  BY <1>1, <1>2, <1>3, <1>4, <1>5, <1>6, <1>8, <1>9, <1>10
     DEF Next, Producer, FilterStage, Consumer

(* The domains of the state.                                               *)
THEOREM Typing == Spec => []TypeOK
  BY TypeInit, TypeStep, PTL DEF Spec

-------------------------------------------------------------------------------
(* The channel is closed only when all goroutines are done, and a done     *)
(* goroutine does nothing more.  (ttchunked.go:238,293-294)                *)
THEOREM ClosedInPeace == Spec => []NoSendAfterClose
<1>1. Init => NoSendAfterClose
  BY DEF Init, NoSendAfterClose
<1>2. NoSendAfterClose /\ TypeOK /\ [Next]_vars => NoSendAfterClose'
  <2> SUFFICES ASSUME NoSendAfterClose, TypeOK, [Next]_vars PROVE NoSendAfterClose'
    OBVIOUS
  <2> USE DEF NoSendAfterClose, TypeOK
  <2>1. ASSUME NEW c \in Chunk, Producer(c) PROVE NoSendAfterClose'
    BY <2>1 DEF Producer, Publish, Fail, Receive, Lock, MergeTotals, MergeItems, CopyTotals,
       CopyList, Send, Step, channel
  <2>2. CASE Close
    BY <2>2 DEF Close
  <2>3. CASE FilterStage \/ Consumer \/ UNCHANGED vars
    BY <2>3 DEF FilterStage, FilterTakes, BinPanics, FilterEnds, Consumer, TakeDirectly,
       TakeFiltered, Finish, vars, channel
  <2> QED
    BY <2>1, <2>2, <2>3 DEF Next
<1> QED
  BY <1>1, <1>2, Typing, PTL DEF Spec

-------------------------------------------------------------------------------
LEMMA InvInit == Init => StreamInv
  BY DEF Init, StreamInv, MergedInv, CopyInv, ChanInv, Good, Honest, ErrorMessage

(* Answers, once given, stay.                                              *)
LEMMA AnswerStays ==
  ASSUME TypeOK, MergedInv, [Next]_vars, NEW c \in Chunk, answer[c] = "value"
  PROVE  answer'[c] = "value"
<1> USE DEF TypeOK
<1>1. ASSUME NEW d \in Chunk, Fail(d) \/ Receive(d) PROVE answer'[c] = "value"
  <2>1. answer[d] = "none"
    BY <1>1 DEF Fail, Receive, Step, MergedInv
  <2> QED
    BY <1>1, <2>1 DEF Fail, Receive
<1>2. ASSUME NEW d \in Chunk, Producer(d), ~(Fail(d) \/ Receive(d)) PROVE UNCHANGED answer
  BY <1>2 DEF Producer, Publish, Lock, MergeTotals, MergeItems, CopyTotals, CopyList, Send,
     producer
<1>3. ASSUME Close \/ FilterStage \/ Consumer \/ UNCHANGED vars PROVE UNCHANGED answer
  BY <1>3 DEF Close, FilterStage, FilterTakes, BinPanics, FilterEnds, Consumer, TakeDirectly,
     TakeFiltered, Finish, vars, producer
<1> QED
  BY <1>1, <1>2, <1>3 DEF Next

LEMMA MergedStep == TypeOK /\ MergedInv /\ [Next]_vars => MergedInv'
<1> SUFFICES ASSUME TypeOK, MergedInv, [Next]_vars PROVE MergedInv'
  OBVIOUS
<1> USE DEF TypeOK, MergedInv
<1>1. Honest(conc)' /\ Honest(items)'
  <2>1. \A c \in conc \cup items : answer'[c] = "value"
    BY AnswerStays DEF Honest
  <2>2. ASSUME NEW c \in Chunk, MergeTotals(c) \/ MergeItems(c) PROVE Honest(conc)' /\ Honest(items)'
    BY <2>1, <2>2 DEF MergeTotals, MergeItems, Step, Honest
  <2>3. ASSUME NEW c \in Chunk, Producer(c), ~(MergeTotals(c) \/ MergeItems(c))
        PROVE  UNCHANGED <<conc, items>>
    BY <2>3 DEF Producer, Publish, Fail, Receive, Lock, CopyTotals, CopyList, Send, producer
  <2>4. ASSUME Close \/ FilterStage \/ Consumer \/ UNCHANGED vars PROVE UNCHANGED <<conc, items>>
    BY <2>4 DEF Close, FilterStage, FilterTakes, BinPanics, FilterEnds, Consumer, TakeDirectly,
       TakeFiltered, Finish, vars, producer
  <2> QED
    BY <2>1, <2>2, <2>3, <2>4 DEF Next, Honest
<1>2. ASSUME NEW c \in Chunk, Publish(c) \/ Fail(c) \/ Receive(c) \/ Lock(c) PROVE MergedInv'
  BY <1>1, <1>2 DEF Publish, Fail, Receive, Lock, Step, producer
<1>3. ASSUME NEW c \in Chunk, MergeTotals(c) \/ MergeItems(c) PROVE MergedInv'
  BY <1>1, <1>3 DEF MergeTotals, MergeItems, Step
<1>4. ASSUME NEW c \in Chunk, CopyTotals(c) \/ CopyList(c) \/ Send(c) PROVE MergedInv'
  BY <1>1, <1>4 DEF CopyTotals, CopyList, Send, Step, producer
<1>5. CASE Close \/ FilterStage \/ Consumer \/ UNCHANGED vars
  BY <1>1, <1>5 DEF Close, FilterStage, FilterTakes, BinPanics, FilterEnds, Consumer,
     TakeDirectly, TakeFiltered, Finish, vars, producer
<1> QED
  BY <1>2, <1>3, <1>4, <1>5 DEF Next, Producer

(* What a goroutine does to its own copy, and that it leaves the others.   *)
LEMMA CopyStep == TypeOK /\ MergedInv /\ CopyInv /\ [Next]_vars => CopyInv'
<1> SUFFICES ASSUME TypeOK, MergedInv, CopyInv, [Next]_vars PROVE CopyInv'
  OBVIOUS
<1> USE DEF TypeOK, CopyInv, Good, OwnDataIncluded, Honest
<1>1. \A c \in Chunk : answer[c] = "value" => answer'[c] = "value"
  BY AnswerStays
<1>2. \A d \in Chunk : snap[d].conc \in SUBSET Chunk /\ snap[d].known \in SUBSET Chunk
  BY DEF Message
<1>3. ASSUME NEW c \in Chunk, Publish(c) \/ Fail(c) \/ Receive(c) \/ Lock(c)
             \/ MergeTotals(c) \/ MergeItems(c) \/ Send(c)
      PROVE  CopyInv'
  BY <1>1, <1>2, <1>3 DEF Publish, Fail, Receive, Lock, MergeTotals, MergeItems, Send, Step
<1>4. ASSUME NEW c \in Chunk, CopyTotals(c) PROVE CopyInv'
  <2>1. \A d \in Chunk : d # c => snap'[d] = snap[d] /\ gor'[d] = gor[d]
    BY <1>4 DEF CopyTotals, Step
  <2>2. snap'[c].chunk = c /\ snap'[c].conc = conc /\ gor'[c] = "copyList" /\ c \in conc
    BY <1>4 DEF CopyTotals, Step, MergedInv, Message
  <2>3. \A d \in conc : answer'[d] = "value"
    BY <1>1 DEF MergedInv
  <2> QED
    BY <1>1, <1>2, <2>1, <2>2, <2>3
<1>5. ASSUME NEW c \in Chunk, CopyList(c) PROVE CopyInv'
  <2>1. \A d \in Chunk : d # c => snap'[d] = snap[d] /\ gor'[d] = gor[d]
    BY <1>5 DEF CopyList, Step
  <2>2. /\ snap'[c].chunk = c /\ snap'[c].conc = snap[c].conc /\ snap'[c].known = items
        /\ gor'[c] = "send" /\ c \in items /\ c \in snap[c].conc
    BY <1>5 DEF CopyList, Step, MergedInv, Message
  <2>3. \A d \in snap[c].conc \cup items : answer'[d] = "value"
    BY <1>1, <1>2, <1>5 DEF MergedInv, CopyList, Step
  <2> QED
    BY <1>1, <1>2, <2>1, <2>2, <2>3
<1>6. CASE Close \/ FilterStage \/ Consumer \/ UNCHANGED vars
  BY <1>1, <1>2, <1>6 DEF Close, FilterStage, FilterTakes, BinPanics, FilterEnds, Consumer,
     TakeDirectly, TakeFiltered, Finish, vars
<1> QED
  BY <1>3, <1>4, <1>5, <1>6 DEF Next, Producer

LEMMA ChanStep == TypeOK /\ MergedInv /\ CopyInv /\ ChanInv /\ [Next]_vars => ChanInv'
<1> SUFFICES ASSUME TypeOK, MergedInv, CopyInv, ChanInv, [Next]_vars PROVE ChanInv'
  OBVIOUS
<1> USE DEF TypeOK, ChanInv, Good, OwnDataIncluded, Honest
<1>1. \A c \in Chunk : answer[c] = "value" => answer'[c] = "value"
  BY AnswerStays
<1>2. \A i \in DOMAIN chan : chan[i].conc \in SUBSET Chunk /\ chan[i].known \in SUBSET Chunk
  <2> TAKE i \in DOMAIN chan
  <2>1. chan[i] \in Message
    OBVIOUS
  <2> QED
    BY <2>1 DEF Message
<1>3. CASE UNCHANGED chan
  BY <1>1, <1>2, <1>3
<1>4. ASSUME NEW c \in Chunk, Send(c) PROVE ChanInv'
  <2>1. UNCHANGED answer /\ Good(snap[c])
    BY <1>4 DEF Send, Step, producer, CopyInv
  <2>2. \A i \in DOMAIN chan' : chan'[i] = snap[c] \/ (i \in DOMAIN chan /\ chan'[i] = chan[i])
    BY <1>4 DEF Send
  <2> QED
    BY <2>1, <2>2
<1>5. ASSUME chan # <<>>, chan' = Tail(chan) PROVE ChanInv'
  <2>1. \A i \in DOMAIN chan' : i + 1 \in DOMAIN chan /\ chan'[i] = chan[i + 1]
    BY <1>5
  <2> QED
    BY <1>1, <1>2, <2>1
<1>6. ASSUME NEW c \in Chunk, Producer(c), ~Send(c) PROVE UNCHANGED chan
  BY <1>6 DEF Producer, Publish, Fail, Receive, Lock, MergeTotals, MergeItems, CopyTotals,
     CopyList, channel
<1>7. CASE Close \/ FilterStage \/ Consumer \/ UNCHANGED vars
  BY <1>3, <1>5, <1>7 DEF Close, FilterStage, FilterTakes, BinPanics, FilterEnds, Consumer,
     TakeDirectly, TakeFiltered, Finish, vars, channel
<1> QED
  BY <1>3, <1>4, <1>6, <1>7 DEF Next

-------------------------------------------------------------------------------
LEMMA AheadInit == Init => LockInv /\ AheadInv
  BY DEF Init, LockInv, AheadInv, Near, ErrorMessage

LEMMA LockStep == TypeOK /\ MergedInv /\ LockInv /\ [Next]_vars => LockInv'
<1> SUFFICES ASSUME TypeOK, MergedInv, LockInv, [Next]_vars PROVE LockInv'
  OBVIOUS
<1> USE DEF TypeOK, LockInv
<1>1. ASSUME NEW c \in Chunk, Publish(c) \/ Fail(c) \/ Receive(c) \/ CopyTotals(c)
             \/ CopyList(c) \/ Send(c)
      PROVE  LockInv'
  BY <1>1 DEF Publish, Fail, Receive, CopyTotals, CopyList, Send, Step, producer
<1>2. ASSUME NEW c \in Chunk, Lock(c) PROVE LockInv'
  <2>1. \A d \in Chunk : gor[d] \notin {"totals", "items"}
    BY <1>2, ChunkAssumption DEF Lock
  <2> QED
    BY <1>2, <2>1 DEF Lock, Step
<1>3. ASSUME NEW c \in Chunk, MergeTotals(c) PROVE LockInv'
  BY <1>3 DEF MergeTotals, Step
<1>4. ASSUME NEW c \in Chunk, MergeItems(c) PROVE LockInv'
  <2>1. c \in conc /\ holder = c
    BY <1>4 DEF MergeItems, Step, MergedInv
  <2>2. \A d \in Chunk : d # c => gor[d] \notin {"totals", "items"}
    BY <2>1
  <2> QED
    BY <1>4, <2>1, <2>2 DEF MergeItems, Step
<1>5. CASE Close \/ FilterStage \/ Consumer \/ UNCHANGED vars
  BY <1>5 DEF Close, FilterStage, FilterTakes, BinPanics, FilterEnds, Consumer,
     TakeDirectly, TakeFiltered, Finish, vars, producer
<1> QED
  BY <1>1, <1>2, <1>3, <1>4, <1>5 DEF Next, Producer

(* Whoever's totals are merged but not the items holds the lock.           *)
LEMMA OneMerging == TypeOK /\ LockInv => AtMostOne(conc \ items)
  BY DEF TypeOK, LockInv, AtMostOne

LEMMA AheadStep ==
  TypeOK /\ CopyInv /\ LockInv /\ AheadInv /\ [Next]_vars => AheadInv'
<1> SUFFICES ASSUME TypeOK, CopyInv, LockInv, AheadInv, [Next]_vars PROVE AheadInv'
  OBVIOUS
<1> USE DEF TypeOK, AheadInv, Near, OneMergeAhead, AtMostOne
<1>1. ASSUME NEW c \in Chunk, Publish(c) \/ Receive(c) \/ Lock(c) \/ MergeTotals(c)
             \/ MergeItems(c)
      PROVE  AheadInv'
  <2>1. /\ UNCHANGED <<snap, chan>> /\ items \subseteq items'
        /\ \A d \in Chunk : gor'[d] \in {"copyList", "send", "done"} => gor'[d] = gor[d]
    BY <1>1 DEF Publish, Receive, Lock, MergeTotals, MergeItems, Step, producer, channel
  <2> QED
    BY <2>1
<1>2. ASSUME NEW c \in Chunk, Fail(c) PROVE AheadInv'
  <2>1. snap[c].kind = "error"
    BY <1>2 DEF Fail, Step, CopyInv
  <2>2. /\ UNCHANGED <<snap, chan, items>>
        /\ \A d \in Chunk : d # c => gor'[d] = gor[d]
        /\ gor'[c] = "send"
    BY <1>2 DEF Fail, Step, channel
  <2> QED
    BY <2>1, <2>2
<1>3. ASSUME NEW c \in Chunk, CopyTotals(c) PROVE AheadInv'
  <2>1. \A d \in Chunk : d # c => snap'[d] = snap[d] /\ gor'[d] = gor[d]
    BY <1>3 DEF CopyTotals, Step
  <2>2. snap'[c].conc = conc /\ gor'[c] = "copyList" /\ UNCHANGED <<items, chan>>
    BY <1>3 DEF CopyTotals, Step, Message, producer, channel
  <2>3. AtMostOne(conc \ items)
    BY OneMerging
  <2> QED
    BY <2>1, <2>2, <2>3
<1>4. ASSUME NEW c \in Chunk, CopyList(c) PROVE AheadInv'
  <2>1. \A d \in Chunk : d # c => snap'[d] = snap[d] /\ gor'[d] = gor[d]
    BY <1>4 DEF CopyList, Step
  <2>2. /\ snap'[c].conc = snap[c].conc /\ snap'[c].known = items /\ gor'[c] = "send"
        /\ UNCHANGED <<items, chan>> /\ AtMostOne(snap[c].conc \ items)
    BY <1>4 DEF CopyList, Step, Message, producer, channel
  <2> QED
    BY <2>1, <2>2
<1>5. ASSUME NEW c \in Chunk, Send(c) PROVE AheadInv'
  <2>1. UNCHANGED <<items, snap>> /\ Near(snap[c]) /\ gor' = [gor EXCEPT ![c] = "done"]
    BY <1>5 DEF Send, Step, producer
  <2>2. \A i \in DOMAIN chan' : chan'[i] = snap[c] \/ (i \in DOMAIN chan /\ chan'[i] = chan[i])
    BY <1>5 DEF Send
  <2> QED
    BY <1>5, <2>1, <2>2 DEF Send, Step
<1>6. ASSUME Close \/ FilterStage \/ Consumer \/ UNCHANGED vars PROVE AheadInv'
  <2>1. UNCHANGED <<gor, items, snap>> /\ (chan' = chan \/ (chan # <<>> /\ chan' = Tail(chan)))
    BY <1>6 DEF Close, FilterStage, FilterTakes, BinPanics, FilterEnds, Consumer,
       TakeDirectly, TakeFiltered, Finish, vars, channel, producer
  <2>2. \A i \in DOMAIN chan' : \E j \in DOMAIN chan : chan'[i] = chan[j]
    <3>1. CASE chan # <<>> /\ chan' = Tail(chan)
      <4>1. \A i \in DOMAIN chan' : i + 1 \in DOMAIN chan /\ chan'[i] = chan[i + 1]
        BY <3>1
      <4> QED
        BY <4>1
    <3> QED
      BY <2>1, <3>1
  <2> QED
    BY <2>1, <2>2
<1> QED
  BY <1>1, <1>2, <1>3, <1>4, <1>5, <1>6 DEF Next, Producer

(* Every data message in the channel shows the data of its own chunk, and  *)
(* only data that workers have sent, and its totals count at most one      *)
(* chunk that its list lacks.  (ttchunked.go:281-289; results.go:240-255)  *)
THEOREM Coherence == Spec => []CopyIsCoherent
<1>1. TypeOK /\ StreamInv /\ [Next]_vars => StreamInv'
  BY MergedStep, CopyStep, ChanStep DEF StreamInv
<1>2. TypeOK /\ StreamInv /\ LockInv /\ AheadInv /\ [Next]_vars => (LockInv /\ AheadInv)'
  BY LockStep, AheadStep DEF StreamInv
<1>3. StreamInv /\ AheadInv => CopyIsCoherent
  BY DEF StreamInv, ChanInv, Good, AheadInv, Near, CopyIsCoherent
<1> QED
  BY <1>1, <1>2, <1>3, InvInit, AheadInit, Typing, PTL DEF Spec

-------------------------------------------------------------------------------
LEMMA LedgerInit == Init => LedgerInv
  BY ChunkAssumption DEF Init, LedgerInv, QueueInv, StageInv, GotInv, InChan, Held, ErrorMessage

(* Nothing of the ledger changes but where a goroutine is that has not     *)
(* sent yet.                                                               *)
LEMMA LedgerQuiet ==
  ASSUME TypeOK, LedgerInv, UNCHANGED <<filter, chan, stage, held, client, got>>,
         closed => closed', \A c \in Chunk : gor'[c] = "done" <=> gor[c] = "done",
         \A c \in Chunk : snap'[c].chunk = c
  PROVE  LedgerInv'
<1> USE DEF LedgerInv
<1>1. QueueInv'
  BY DEF QueueInv, TypeOK
<1>2. \A c \in Chunk : (InChan(c)' <=> InChan(c)) /\ (Held(c)' <=> Held(c))
  BY DEF InChan, Held
<1>3. StageInv'
  BY <1>2 DEF StageInv
<1>4. GotInv'
  BY <1>2 DEF GotInv
<1> QED
  BY <1>1, <1>3, <1>4

(* A message joins the channel: the first one about its chunk.             *)
LEMMA LedgerSend ==
  ASSUME TypeOK, LedgerInv, NoSendAfterClose, NEW c \in Chunk, Send(c)
  PROVE  LedgerInv'
<1> USE DEF LedgerInv
<1>1. /\ gor[c] = "send" /\ gor' = [gor EXCEPT ![c] = "done"] /\ ~closed
      /\ UNCHANGED <<filter, snap, closed, stage, held, client, got>>
  BY DEF Send, Step, reader, NoSendAfterClose
<1>2. /\ chan' = Append(chan, snap[c]) /\ chan \in Seq(Message) /\ snap[c].chunk = c
      /\ Len(chan') = Len(chan) + 1 /\ chan'[Len(chan) + 1] = snap[c]
      /\ \A i \in 1..Len(chan) : chan'[i] = chan[i]
  BY DEF Send, TypeOK, QueueInv
<1>3. \A i \in DOMAIN chan : chan[i].chunk # c
  BY <1>1 DEF QueueInv
<1>4. QueueInv'
  BY <1>1, <1>2, <1>3 DEF QueueInv, TypeOK
<1>5. \A d \in Chunk : (InChan(d)' <=> InChan(d) \/ d = c) /\ (Held(d)' <=> Held(d))
  BY <1>1, <1>2 DEF InChan, Held
<1>6. StageInv'
  <2>1. stage = "offer" => held.chunk # c
    BY <1>1 DEF StageInv
  <2> QED
    BY <1>1, <1>5, <2>1 DEF StageInv, TypeOK
<1>7. GotInv'
  BY <1>1, <1>5 DEF GotInv, TypeOK
<1> QED
  BY <1>4, <1>6, <1>7

(* The first message leaves the channel, and with it all about its chunk.  *)
LEMMA QueueTaken ==
  ASSUME TypeOK, QueueInv, chan # <<>>, chan' = Tail(chan), UNCHANGED <<gor, snap>>
  PROVE  /\ QueueInv' /\ Head(chan).chunk \in Chunk /\ gor[Head(chan).chunk] = "done"
         /\ InChan(Head(chan).chunk)
         /\ \A d \in Chunk : InChan(d)' <=> InChan(d) /\ d # Head(chan).chunk
<1>1. /\ chan \in Seq(Message) /\ 1 \in DOMAIN chan /\ Head(chan) = chan[1]
      /\ Len(chan') = Len(chan) - 1 /\ Len(chan) \in Nat
      /\ \A i \in 1..Len(chan') : i + 1 \in DOMAIN chan /\ chan'[i] = chan[i + 1]
  BY DEF TypeOK
<1>2. QueueInv'
  BY <1>1 DEF QueueInv
<1>3. ASSUME NEW d \in Chunk PROVE InChan(d)' <=> InChan(d) /\ d # Head(chan).chunk
  <2>1. InChan(d)' => InChan(d) /\ d # Head(chan).chunk
    BY <1>1 DEF InChan, QueueInv
  <2>2. ASSUME NEW i \in DOMAIN chan, chan[i].chunk = d, d # Head(chan).chunk PROVE InChan(d)'
    <3>1. i - 1 \in 1..Len(chan') /\ chan'[i - 1] = chan[i]
      BY <1>1, <2>2
    <3> QED
      BY <1>1, <2>2, <3>1 DEF InChan
  <2> QED
    BY <2>1, <2>2 DEF InChan
<1> QED
  BY <1>1, <1>2, <1>3 DEF QueueInv, InChan

LEMMA LedgerFilter ==
  ASSUME TypeOK, LedgerInv, FilterTakes \/ FilterEnds
  PROVE  LedgerInv'
<1> USE DEF LedgerInv
<1>1. CASE FilterTakes
  <2>1. /\ stage = "receive" /\ chan # <<>> /\ chan' = Tail(chan)
        /\ UNCHANGED <<filter, gor, snap, closed, client, got>>
    BY <1>1 DEF FilterTakes
  <2>2. /\ QueueInv' /\ Head(chan).chunk \in Chunk /\ gor[Head(chan).chunk] = "done"
        /\ InChan(Head(chan).chunk)
        /\ \A d \in Chunk : InChan(d)' <=> InChan(d) /\ d # Head(chan).chunk
    BY <2>1, QueueTaken
  <2>3. CASE filter = "badDate"
    <3>1. UNCHANGED <<stage, held>>
      BY <1>1, <2>3 DEF FilterTakes
    <3>2. StageInv'
      BY <2>1, <2>2, <3>1 DEF StageInv
    <3>3. GotInv'
      BY <2>1, <2>2, <2>3, <3>1 DEF GotInv, Held
    <3> QED
      BY <2>2, <3>2, <3>3
  <2>4. CASE filter # "badDate"
    <3>1. stage' = "offer" /\ held' = Head(chan)
      BY <1>1, <2>4 DEF FilterTakes
    <3>2. StageInv'
      BY <2>1, <2>2, <2>4, <3>1 DEF StageInv
    <3>3. GotInv'
      BY <2>1, <2>2, <2>4, <3>1 DEF GotInv, Held
    <3> QED
      BY <2>2, <3>2, <3>3
  <2> QED
    BY <2>3, <2>4
<1>2. CASE FilterEnds
  <2>1. /\ stage = "receive" /\ chan = <<>> /\ closed
        /\ UNCHANGED <<filter, gor, snap, chan, closed, client, got>>
        /\ stage' = (IF filter = "badDate" THEN "offerLast" ELSE "closed")
        /\ filter = "badDate" => held'.chunk = Nobody
    BY <1>2 DEF FilterEnds, channel, ErrorMessage
  <2>2. \A d \in Chunk : (InChan(d)' <=> InChan(d)) /\ (Held(d)' <=> Held(d))
    BY <2>1 DEF InChan, Held
  <2>3. QueueInv'
    BY <2>1 DEF QueueInv
  <2>4. StageInv'
    BY <2>1 DEF StageInv
  <2>5. GotInv'
    BY <2>1, <2>2 DEF GotInv
  <2> QED
    BY <2>3, <2>4, <2>5
<1> QED
  BY <1>1, <1>2

(* The handler writes a message, or leaves; or it comes to the end.        *)
LEMMA LedgerConsumer ==
  ASSUME TypeOK, LedgerInv, Consumer
  PROVE  LedgerInv'
<1> USE DEF LedgerInv
<1>1. CASE TakeDirectly
  <2> DEFINE h == Head(chan).chunk
  <2>1. /\ stage = "off" /\ chan # <<>> /\ chan' = Tail(chan) /\ client = "receive"
        /\ UNCHANGED <<filter, gor, snap, closed, stage, held>>
    BY <1>1 DEF TakeDirectly
  <2>2. /\ QueueInv' /\ h \in Chunk /\ gor[h] = "done" /\ InChan(h)
        /\ \A d \in Chunk : InChan(d)' <=> InChan(d) /\ d # h
    BY <2>1, QueueTaken
  <2>3. \/ client' = "receive" /\ got' = [got EXCEPT ![h] = @ + 1]
        \/ client' = "left" /\ got' = got
    BY <1>1, <2>1, <2>2, ChunkAssumption DEF TakeDirectly, Show
  <2>4. \A d \in Chunk : ~Held(d) /\ ~Held(d)'
    BY <2>1 DEF Held
  <2>5. StageInv'
    BY <2>1, <2>3 DEF StageInv
  <2>6. filter # "badDate"
    BY <2>1 DEF StageInv
  <2> HIDE DEF h
  <2>7. GotInv'
    BY <2>1, <2>2, <2>3, <2>4, <2>6 DEF GotInv, TypeOK
  <2> QED
    BY <2>2, <2>5, <2>7
<1>2. CASE TakeFiltered /\ stage = "offer"
  <2> DEFINE h == held.chunk
  <2>1. /\ stage' = "receive" /\ client = "receive"
        /\ UNCHANGED <<filter, gor, snap, chan, closed, held>>
    BY <1>2 DEF TakeFiltered, channel
  <2>2. h \in Chunk /\ gor[h] = "done" /\ ~InChan(h) /\ filter # "badDate"
    BY <1>2 DEF StageInv
  <2>3. \/ client' = "receive" /\ got' = [got EXCEPT ![h] = @ + 1]
        \/ client' = "left" /\ got' = got
    BY <1>2, <2>1, <2>2, ChunkAssumption DEF TakeFiltered, Show
  <2>4. \A d \in Chunk : (InChan(d)' <=> InChan(d)) /\ (Held(d) <=> d = h) /\ ~Held(d)'
    BY <1>2, <2>1 DEF InChan, Held
  <2>5. QueueInv'
    BY <2>1 DEF QueueInv
  <2>6. StageInv'
    BY <1>2, <2>1, <2>3 DEF StageInv
  <2> HIDE DEF h
  <2>7. GotInv'
    BY <2>1, <2>2, <2>3, <2>4 DEF GotInv, TypeOK
  <2> QED
    BY <2>5, <2>6, <2>7
<1>3. CASE TakeFiltered /\ stage = "offerLast"
  <2>1. /\ stage' = "closed" /\ client = "receive" /\ filter = "badDate"
        /\ chan = <<>> /\ closed
        /\ UNCHANGED <<filter, gor, snap, chan, closed, held>>
    BY <1>3 DEF TakeFiltered, channel, StageInv
  <2>2. got' = got /\ client' \in {"receive", "left"}
    BY <1>3, <2>1 DEF TakeFiltered, Show, StageInv
  <2>3. \A d \in Chunk : (InChan(d)' <=> InChan(d)) /\ ~Held(d) /\ ~Held(d)'
    BY <1>3, <2>1 DEF InChan, Held
  <2>4. QueueInv'
    BY <2>1 DEF QueueInv
  <2>5. StageInv'
    BY <2>1, <2>2 DEF StageInv
  <2>6. GotInv'
    BY <2>1, <2>2, <2>3 DEF GotInv
  <2> QED
    BY <2>4, <2>5, <2>6
<1>4. CASE Finish
  <2>1. /\ client = "receive" /\ client' = "ended"
        /\ (stage = "off" /\ chan = <<>> /\ closed) \/ stage = "closed"
        /\ UNCHANGED <<filter, gor, snap, chan, closed, stage, held, got>>
    BY <1>4 DEF Finish, channel
  <2>2. \A d \in Chunk : (InChan(d)' <=> InChan(d)) /\ (Held(d)' <=> Held(d))
    BY <2>1 DEF InChan, Held
  <2>3. QueueInv'
    BY <2>1 DEF QueueInv
  <2>4. StageInv'
    BY <2>1, <2>2 DEF StageInv
  <2>5. GotInv'
    BY <2>1, <2>2 DEF GotInv
  <2> QED
    BY <2>3, <2>4, <2>5
<1> QED
  BY <1>1, <1>2, <1>3, <1>4 DEF Consumer, TakeFiltered

LEMMA LedgerStep == TypeOK /\ NoSendAfterClose /\ LedgerInv /\ [Next]_vars => LedgerInv'
<1> SUFFICES ASSUME TypeOK, NoSendAfterClose, LedgerInv, [Next]_vars PROVE LedgerInv'
  OBVIOUS
<1>1. \A c \in Chunk : snap[c].chunk = c
  BY DEF LedgerInv, QueueInv
<1>2. ASSUME NEW c \in Chunk, Producer(c), ~Send(c) PROVE LedgerInv'
  <2>1. UNCHANGED <<filter, chan, closed, stage, held, client, got>>
    BY <1>2 DEF Producer, Publish, Fail, Receive, Lock, MergeTotals, MergeItems, CopyTotals,
       CopyList, channel, reader
  <2>2. \A d \in Chunk : gor'[d] = "done" <=> gor[d] = "done"
    BY <1>2 DEF Producer, Publish, Fail, Receive, Lock, MergeTotals, MergeItems, CopyTotals,
       CopyList, Step, TypeOK
  <2>3. \A d \in Chunk : snap'[d].chunk = d
    <3>1. CASE CopyTotals(c) \/ CopyList(c)
      <4>1. /\ snap \in [Chunk -> Message] /\ snap[c] \in Message
            /\ \/ snap' = [snap EXCEPT ![c] = [snap[c] EXCEPT !.kind = "data", !.conc = conc]]
               \/ snap' = [snap EXCEPT ![c] = [snap[c] EXCEPT !.known = items]]
        BY <3>1 DEF CopyTotals, CopyList, TypeOK
      <4>2. /\ [snap[c] EXCEPT !.kind = "data", !.conc = conc].chunk = snap[c].chunk
            /\ [snap[c] EXCEPT !.known = items].chunk = snap[c].chunk
        BY <4>1 DEF Message
      <4> QED
        BY <1>1, <4>1, <4>2
    <3>2. CASE UNCHANGED snap
      BY <1>1, <3>2
    <3> QED
      BY <1>2, <3>1, <3>2 DEF Producer, Publish, Fail, Receive, Lock, MergeTotals, MergeItems
  <2> QED
    BY <2>1, <2>2, <2>3, LedgerQuiet
<1>3. CASE Close \/ BinPanics \/ UNCHANGED vars
  <2>1. /\ UNCHANGED <<filter, gor, snap, chan, stage, held, client, got>>
        /\ closed => closed'
    BY <1>3 DEF Close, BinPanics, vars, channel, reader
  <2> QED
    BY <1>1, <2>1, LedgerQuiet
<1> QED
  BY <1>2, <1>3, LedgerSend, LedgerFilter, LedgerConsumer DEF Next, FilterStage

(* A stream that comes to its end has told of each chunk exactly once, or  *)
(* of none if the dates are invalid.  (ttchunked.go:236-294, 142-216)      *)
THEOREM OncePerChunk == Spec => []OneMessagePerChunk
<1>1. LedgerInv /\ NoSendAfterClose => OneMessagePerChunk
  BY DEF LedgerInv, StageInv, GotInv, InChan, Held, NoSendAfterClose, OneMessagePerChunk
<1> QED
  BY <1>1, LedgerInit, LedgerStep, Typing, ClosedInPeace, PTL DEF Spec
===============================================================================
