---------------------------- MODULE AbstractRpc ----------------------------
(***************************************************************************)
(* What a request/response service promises its callers: every call gets   *)
(* a promise, numbered in call order; a promise settles once, as resolved, *)
(* rejected or timed out, and keeps that outcome; and every promise        *)
(* settles eventually.  The daemon client's waiter registry                *)
(* (WaiterRegistry) is shown to implement it.                              *)
(***************************************************************************)
LOCAL INSTANCE Naturals
LOCAL INSTANCE Sequences

CONSTANT MaxCalls   \* calls the client may make

VARIABLE calls      \* calls[id]: the state of the promise of call id

Outcomes == {"resolved", "rejected", "timedout"}

TypeOK == calls \in Seq({"pending"} \cup Outcomes)

Init == calls = <<>>

(* A new call hands back a pending promise.                                *)
Call ==
  /\ Len(calls) < MaxCalls
  /\ calls' = Append(calls, "pending")

(* One answer or timer settles some pending promises, all with one         *)
(* outcome (a notification releases every caller waiting on its command).  *)
Settle(ids, o) ==
  /\ ids # {}
  /\ \A id \in ids : calls[id] = "pending"
  /\ calls' = [id \in DOMAIN calls |-> IF id \in ids THEN o ELSE calls[id]]

(* Call id settles on its own (as by its timer).                          *)
Settles(id) == id \in DOMAIN calls /\ \E o \in Outcomes : Settle({id}, o)

Next ==
  \/ Call
  \/ \E ids \in SUBSET DOMAIN calls, o \in Outcomes : Settle(ids, o)

(* No pending promise is left hanging for ever.                            *)
Spec ==
  /\ Init
  /\ [][Next]_calls
  /\ \A id \in 1..MaxCalls : WF_calls(Settles(id))

=============================================================================
