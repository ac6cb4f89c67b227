----------------------------- MODULE StreamCalcInv -----------------------------
(***************************************************************************)
(* The inductive invariants behind CopyIsCoherent and OneMessagePerChunk   *)
(* of StreamCalc.  TLC evaluates them on the instance of StreamCalc.cfg,   *)
(* StreamCalc_proofs proves them.                                          *)
(***************************************************************************)
EXTENDS StreamCalc

Honest(S) == \A c \in S : answer[c] = "value"

(* What is merged has been received, and stays where it is.                *)
MergedInv ==
  /\ Honest(conc) /\ Honest(items)
  /\ \A c \in Chunk :
       /\ gor[c] \in {"start", "wait"} => answer[c] = "none"
       /\ gor[c] \in {"lock", "totals", "items", "copy", "copyList"} => answer[c] = "value"
       /\ gor[c] \in {"items", "copy", "copyList"} => c \in conc
       /\ gor[c] \in {"copy", "copyList"} => c \in items

Good(m) == m.kind = "data" => OwnDataIncluded(m)

(* A copy is taken after the goroutine has merged.                         *)
CopyInv ==
  \A c \in Chunk :
    /\ snap[c].chunk = c
    /\ gor[c] \notin {"copyList", "send", "done"} => snap[c].kind = "error"
    /\ gor[c] = "copyList" => c \in snap[c].conc /\ Honest(snap[c].conc)
    /\ gor[c] \in {"send", "done"} => Good(snap[c])

ChanInv == \A i \in DOMAIN chan : Good(chan[i])

StreamInv == MergedInv /\ CopyInv /\ ChanInv

-------------------------------------------------------------------------------
AtMostOne(S) == \A c, d \in S : c = d

(* Only the goroutine that holds the lock is between the two merges.       *)
LockInv ==
  /\ items \subseteq conc
  /\ \A c \in Chunk : gor[c] \in {"totals", "items"} => holder = c
  /\ \A c \in conc \ items : gor[c] = "items"

Near(m) == m.kind = "data" => OneMergeAhead(m)

(* The totals of a copy are ahead by one merge when they are read, and the *)
(* list that is read later only has more items.                            *)
AheadInv ==
  /\ \A c \in Chunk :
       /\ gor[c] = "copyList" => AtMostOne(snap[c].conc \ items)
       /\ gor[c] \in {"send", "done"} => Near(snap[c])
  /\ \A i \in DOMAIN chan : Near(chan[i])

-------------------------------------------------------------------------------
(* The message about a chunk is in the channel; the filter offers it.      *)
InChan(c) == \E i \in DOMAIN chan : chan[i].chunk = c
Held(c)   == stage = "offer" /\ held.chunk = c

(* A message in the channel is the only one about its chunk.               *)
QueueInv ==
  /\ \A c \in Chunk : snap[c].chunk = c
  /\ \A i \in DOMAIN chan : chan[i].chunk \in Chunk /\ gor[chan[i].chunk] = "done"
  /\ \A i, j \in DOMAIN chan : chan[i].chunk = chan[j].chunk => i = j

(* The filter holds one message at a time, and nothing is left once it, or *)
(* the handler, has come to the end.                                       *)
StageInv ==
  /\ stage = "off" <=> filter = "off"
  /\ stage = "offer" => /\ filter # "badDate"
                        /\ held.chunk \in Chunk /\ gor[held.chunk] = "done"
                        /\ ~InChan(held.chunk)
  /\ stage = "offerLast" => filter = "badDate" /\ held.chunk = Nobody
  /\ stage \in {"offerLast", "closed"} => chan = <<>> /\ closed
  /\ client = "ended" => chan = <<>> /\ closed /\ stage \in {"off", "closed"}

(* While the handler reads, a message sent is on its way or written.       *)
GotInv ==
  \A c \in Chunk :
    /\ gor[c] # "done" \/ InChan(c) \/ Held(c) \/ filter = "badDate" => got[c] = 0
    /\ gor[c] = "done" /\ filter # "badDate" /\ client # "left"
         => InChan(c) \/ Held(c) \/ got[c] = 1

LedgerInv == QueueInv /\ StageInv /\ GotInv
===============================================================================
