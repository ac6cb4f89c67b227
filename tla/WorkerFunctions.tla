---------------------------- MODULE WorkerFunctions ----------------------------
(***************************************************************************)
(* How the functions of a worker end (worker/actions.go), for the calls of *)
(* Manatee they make (mango/mango.go).  What they compute is not modelled  *)
(* here (see Results); how they end is, because the handlers answer the    *)
(* client by it.                                                           *)
(*                                                                         *)
(* The argument of a function is the set of what is unusual about it:      *)
(*   corpus    no such corpus          syntax   the query is no CQL        *)
(*   attrs     no positional attribute offset   first row, width negative  *)
(*   rows      no such row             maxItems not positive               *)
(*   measure   unknown measure         attr     no structural attribute    *)
(*   coll      collocates are asked for (an alternative, not a fault)      *)
(* An end is "value", or                                                   *)
(*   userError   an InputError, or Manatee's message on a syntax error,    *)
(*               which PublishResult recognises by its text                *)
(*   error       any other error                                           *)
(*   panic       a Go panic, which the worker recovers from                *)
(***************************************************************************)
Unusual == {"corpus", "syntax", "attrs", "offset", "rows", "maxItems", "measure", "attr", "coll"}
End     == {"value", "userError", "error", "panic"}

-------------------------------------------------------------------------------
(* mango.go: the corpus is opened and the query evaluated, in C++; any     *)
(* exception there is returned as its text.                                *)
Opened(arg) == IF "corpus" \in arg THEN {"error"} ELSE {"value", "error"}

Evaluated(arg) ==
  IF "corpus" \in arg THEN {"error"}
  ELSE {"error"} \cup IF "syntax" \in arg THEN {"userError"} ELSE {"value"}

(* Checks of its numbers before Manatee is asked at all.                   *)
GetConcordance(arg) ==
  IF "offset" \in arg THEN {"panic"}
  ELSE (Evaluated(arg) \ IF "rows" \in arg THEN {"value"} ELSE {})
       \cup IF "rows" \in arg /\ "value" \in Evaluated(arg) THEN {"rowsOutOfConc"} ELSE {}

(* The same without the checks.  The row is looked up before the collocate *)
(* is, so that there may be no such row later and no error.                *)
GetConcordanceWithCollPhrase(arg) ==
  Evaluated(arg) \cup IF "rows" \in arg /\ "value" \in Evaluated(arg) THEN {"rowsOutOfConc"} ELSE {}

GetConcSize(arg)   == Evaluated(arg)
CalcFreqDist(arg)  == Evaluated(arg)
GetCollcations(arg) == Evaluated(arg)

(* struct.attr, or it is not even tried.                                   *)
GetTextTypesNorms(arg) == IF "attr" \in arg THEN {"userError"} ELSE Opened(arg)

GetStructAttrValues(arg) == Opened(arg)
GetCorpRegion(arg)       == Opened(arg)

(* Of several calls in a row, the first to fail ends the function.         *)
Then(first, second) == (first \ {"value"}) \cup IF "value" \in first THEN second ELSE {}

-------------------------------------------------------------------------------
(* worker/actions.go.                                                      *)

concordance(arg) ==
  IF "attrs" \in arg THEN {"userError"}
  ELSE LET ends == IF "coll" \in arg THEN GetConcordanceWithCollPhrase(arg)
                                     ELSE GetConcordance(arg)
       IN  (ends \ {"rowsOutOfConc"}) \cup IF "rowsOutOfConc" \in ends THEN {"userError"} ELSE {}

concSize(arg) == GetConcSize(arg)

(* The sizes of text types are in the cache if an earlier job has put them *)
(* there.                                                                  *)
Norms(arg) ==
  GetTextTypesNorms(arg) \cup IF arg \cap {"attr", "corpus"} # {} THEN {} ELSE {"value"}

(* Without the sizes the function has an error, and data.                  *)
freqDistrib(arg, isTextTypes) ==
  IF "maxItems" \in arg THEN {"userError"}
  ELSE Then(CalcFreqDist(arg), IF isTextTypes THEN Norms(arg) ELSE {"value"})

(* ImportCollMeasure refuses an unknown measure, not as an InputError.     *)
collocations(arg) == IF "measure" \in arg THEN {"error"} ELSE GetCollcations(arg)

textTypeNorms(arg) == Norms(arg)

(* Three regions; the middle one is indexed without a test that the parser *)
(* has returned a line.                                                    *)
tokenContext(arg) == Then(GetCorpRegion(arg), {"value", "error", "panic"})

textTypesAvailValues(arg) == GetStructAttrValues(arg)

-------------------------------------------------------------------------------
Functions == {"concordance", "termFrequency", "freqDistrib", "textTypes", "collocations",
              "textTypeNorms", "tokenContext", "textTypesAvailValues"}

(* The switch of runQueryProtected; "textTypes" stands for freqDistrib     *)
(* with IsTextTypes.                                                       *)
Ends(func, arg) ==
  CASE func = "concordance"          -> concordance(arg)
    [] func = "termFrequency"        -> concSize(arg)
    [] func = "freqDistrib"          -> freqDistrib(arg, FALSE)
    [] func = "textTypes"            -> freqDistrib(arg, TRUE)
    [] func = "collocations"         -> collocations(arg)
    [] func = "textTypeNorms"        -> textTypeNorms(arg)
    [] func = "tokenContext"         -> tokenContext(arg)
    [] func = "textTypesAvailValues" -> textTypesAvailValues(arg)
===============================================================================
