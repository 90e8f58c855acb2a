---------------------------- MODULE NumericBridge ----------------------------
(***************************************************************************)
(* Outbound encoding of the daemon client (src/ui/src/daemon-client/      *)
(* index.js, toJson, called by send for every request).  JSON.stringify   *)
(* runs with a replacer that turns every BigInt into the string           *)
(* "<digits>#bigint" and counts it (intCount); a global regex replace of  *)
(* /"(-?\d+)#bigint"/ then rewrites every match to its bare digits and    *)
(* counts it (repCount); repCount > intCount throws.                       *)
(*                                                                         *)
(* The text is modelled character by character over a small alphabet:     *)
(* "1" a decimal digit, "-" the minus sign, "x" any other character, "Q"  *)
(* the double quote, "S" the backslash and "B" the seven characters       *)
(* '#bigint' (no shorter piece of them can take part in a match, so they  *)
(* are one symbol); "{", "}", ":" and "," are JSON punctuation.  Keys are *)
(* the code's own field names ("x").                                       *)
(***************************************************************************)
EXTENDS Naturals, Sequences, SequencesExt

CONSTANTS
  StrChars,   \* characters of a string field: a subset of {"1","-","x","Q","S","B"}
  StrLen,     \* longest string field
  BigInts,    \* decimal renderings of BigInt fields, as digit sequences
  MaxFields,  \* fields of a request
  MaxStrFields \* string fields among them

(* The request send was given, compared with the reference encoding      *)
(* Intended below: "none" before send; "exact": the intended JSON was    *)
(* written; "rejected": toJson threw where writing would have corrupted a *)
(* string field; "corrupt": text other than the intended JSON was         *)
(* written; "spurious": toJson threw though nothing would be corrupted.   *)
VARIABLE sendResult

bridgeVars == <<sendResult>>

Digit == "1"

Strings == UNION {[1..n -> StrChars] : n \in 0..StrLen}

Values == [kind : {"str"}, s : Strings] \cup [kind : {"big"}, d : BigInts]

(* A request object: its fields in order.                                  *)
Requests ==
  {r \in UNION {[1..n -> Values] : n \in 1..MaxFields} :
     Len(SelectSeq(r, LAMBDA v : v.kind = "str")) <= MaxStrFields}


(* JSON.stringify of a string: quoted, '"' and '\' escaped.                *)
Quote(s) ==
  <<"Q">> \o FoldLeft(LAMBDA acc, c : acc \o (IF c \in {"Q", "S"} THEN <<"S", c>> ELSE <<c>>),
                      <<>>, s)
          \o <<"Q">>

(* The replacer: a BigInt becomes the string `${v}#bigint`.                *)
Replacer(v) == IF v.kind = "big" THEN Quote(v.d \o <<"B">>) ELSE Quote(v.s)

(* JSON.stringify of a request object, given its values as JSON text.     *)
Stringify(vals) ==
  <<"{">> \o FoldLeft(LAMBDA acc, i : acc \o (IF i = 1 THEN <<>> ELSE <<",">>)
                                          \o <<"Q", "x", "Q", ":">> \o vals[i],
                      <<>>, [i \in 1..Len(vals) |-> i])
          \o <<"}">>

(* JSON.stringify(data, replacer).                                         *)
Serialized(req) == Stringify([i \in 1..Len(req) |-> Replacer(req[i])])

intCount(req) == Len(SelectSeq(req, LAMBDA v : v.kind = "big"))

(* Digits at the start of t.                                               *)
RECURSIVE DigitRun(_)
DigitRun(t) == IF t # <<>> /\ Head(t) = Digit THEN 1 + DigitRun(Tail(t)) ELSE 0

(* Length of the match of /"(-?\d+)#bigint"/ at the start of t (0: none),  *)
(* and the length of its group.  '-?' is greedy but gives way when no      *)
(* digit follows it; '\d+' is greedy and a digit is never 'B', so no       *)
(* other backtracking can succeed.                                         *)
MatchAt(t) ==
  LET sign == IF Len(t) >= 2 /\ t[2] = "-" /\ DigitRun(SubSeq(t, 3, Len(t))) > 0 THEN 1 ELSE 0
      g    == sign + DigitRun(SubSeq(t, 2 + sign, Len(t)))
  IN  IF /\ Len(t) >= g + 3
         /\ t[1] = "Q"
         /\ g > sign
         /\ t[g + 2] = "B"
         /\ t[g + 3] = "Q"
      THEN <<g + 3, g>> ELSE <<0, 0>>

(* String.replace with the global regex: leftmost matches, not            *)
(* overlapping, each replaced by its group and counted (repCount).        *)
RECURSIVE RegexReplace(_)
RegexReplace(t) ==
  IF t = <<>> THEN [out |-> <<>>, repCount |-> 0]
  ELSE LET m == MatchAt(t) IN
       IF m[1] > 0
       THEN LET r == RegexReplace(SubSeq(t, m[1] + 1, Len(t)))
            IN  [out |-> SubSeq(t, 2, m[2] + 1) \o r.out, repCount |-> r.repCount + 1]
       ELSE LET r == RegexReplace(Tail(t))
            IN  [out |-> <<Head(t)>> \o r.out, repCount |-> r.repCount]

(* toJson without the conflict check.                                     *)
ToJsonUnchecked(req) ==
  [ok |-> TRUE, text |-> RegexReplace(Serialized(req)).out]

(* toJson: the serialized request, or the thrown "BigInt serialization    *)
(* pattern conflict" error.                                                *)
ToJson(req) ==
  LET r == RegexReplace(Serialized(req)) IN
  IF r.repCount > intCount(req) THEN [ok |-> FALSE, text |-> <<>>]
  ELSE [ok |-> TRUE, text |-> r.out]

-----------------------------------------------------------------------------
(* Reference: the JSON the daemon should read, every BigInt a bare        *)
(* numeral and every string field intact.                                  *)
Intended(req) ==
  Stringify([i \in 1..Len(req) |-> IF req[i].kind = "big" THEN req[i].d ELSE Quote(req[i].s)])

(* The outcome of toJson(req), measured against the reference.            *)
Outcome(req) ==
  LET r == ToJson(req)
      wouldCorrupt == RegexReplace(Serialized(req)).out # Intended(req)
  IN  CASE r.ok /\ r.text = Intended(req) -> "exact"
        [] r.ok                             -> "corrupt"
        [] wouldCorrupt                     -> "rejected"
        [] OTHER                            -> "spurious"

BridgeInit == sendResult = "none"

(* send(request, reqNo): toJson, then socket.write of the text and '\n'; a *)
(* throw of toJson leaves the socket untouched.  One request per behaviour *)
(* (the encoding of one request does not depend on earlier ones).         *)
Send(req) ==
  /\ sendResult = "none"
  /\ sendResult' = Outcome(req)

BridgeNext == \E req \in Requests : Send(req)

(* Spec 4.3 and 8: toJson round-trips every BigInt to a bare numeral, and *)
(* it fails loudly, never silently: for the request send was given, it    *)
(* either throws or writes exactly the intended JSON, and it throws only  *)
(* when the regex post-pass would have corrupted a string field (also one *)
(* whose '"' escape lets a match start inside the string).                 *)
BridgeExact == sendResult \in {"none", "exact", "rejected"}

=============================================================================
