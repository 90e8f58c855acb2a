--------------------------- MODULE WaiterRegistry ---------------------------
(***************************************************************************)
(* Request/response correlation of the daemon client                      *)
(* (src/ui/src/daemon-client/index.js): the request counter 'requestNo',   *)
(* the array 'waiters', send / addWaiter / sendRecv, the response-timeout  *)
(* timer of addWaiter and the waiter loop that ends processResponse.       *)
(*                                                                         *)
(* The daemon is the environment.  It reads requests in the order they     *)
(* were written and answers each with its reply command or with ErrorResp, *)
(* carrying the request's Idx; it also pushes notifications (Idx 0).  A    *)
(* reconnect (ConnectToDaemon destroying the socket) loses everything in   *)
(* flight in both directions; the waiters and the counter survive it, as   *)
(* they do in the code.                                                    *)
(*                                                                         *)
(* Every frame carries a ghost field 'for': the id of the waiter whose     *)
(* request it answers (0 for notifications and fire-and-forget requests).  *)
(***************************************************************************)
EXTENDS Naturals, Sequences, SequencesExt

CONSTANTS
  Cmds,          \* response commands other than ErrorResp
  ErrorResp,     \* daemonResponses.ErrorResp
  NoIdx,         \* 'responseNo' of a waiter built without one (undefined)
  None,          \* no frame yet
  Calls,         \* sendRecv call shapes: [reply: Cmds, list: SUBSET Cmds]
  BareLists,     \* command lists of waiters registered by a bare addWaiter
  MaxReq,        \* bound on requestNo
  MaxWaiters,    \* bound on waiters ever registered
  MaxNotify,     \* bound on notifications pushed by the daemon
  MaxReconnect   \* bound on replaced connections

ASSUME ErrorResp \notin Cmds
ASSUME Calls \subseteq [reply: Cmds, list: SUBSET Cmds]
ASSUME BareLists \subseteq SUBSET Cmds
ASSUME {MaxReq, MaxWaiters, MaxNotify, MaxReconnect} \subseteq Nat

VARIABLES
  requestNo,   \* let requestNo (never reset)
  waiters,     \* the array 'waiters': a sequence of [id, responseNo, list]
  promise,     \* promise[id]: the promise addWaiter returned for waiter id
  outbox,      \* requests written to the socket, not yet read by the daemon
  inbox,       \* frames written by the daemon, not yet processed
  notified,    \* notifications pushed so far (bound only)
  reconnects   \* connections replaced so far (bound only)

vars == <<requestNo, waiters, promise, outbox, inbox, notified, reconnects>>

Frame == [Command: Cmds \cup {ErrorResp}, Idx: Nat, for: Nat]
Request == [reply: Cmds, Idx: Nat, for: Nat]
Waiter == [id: Nat, responseNo: Nat \cup {NoIdx}, list: SUBSET Cmds]
Outcome == [st: {"pending", "resolved", "rejected", "timedout"},
            frame: Frame \cup {None}, responseNo: Nat \cup {NoIdx},
            list: SUBSET Cmds]

TypeOK ==
  /\ requestNo \in 0..MaxReq
  /\ waiters \in Seq(Waiter)
  /\ promise \in Seq(Outcome)
  /\ outbox \in Seq(Request)
  /\ inbox \in Seq(Frame)
  /\ notified \in 0..MaxNotify
  /\ reconnects \in 0..MaxReconnect

Init ==
  /\ requestNo = 0
  /\ waiters = <<>>
  /\ promise = <<>>
  /\ outbox = <<>>
  /\ inbox = <<>>
  /\ notified = 0
  /\ reconnects = 0

(* A promise settles once; later resolve/reject calls are no-ops.          *)
Settle(p, st, f) ==
  IF p.st = "pending" THEN [p EXCEPT !.st = st, !.frame = f] ELSE p

AddWaiterToUnregistered(responseNo, list) ==
  LET id == Len(promise) + 1 IN
  /\ id <= MaxWaiters
  /\ UNCHANGED waiters
  /\ promise' = Append(promise, [st |-> "pending", frame |-> None,
                                 responseNo |-> responseNo, list |-> list])

(* addWaiter: register the waiter and hand back a pending promise (its     *)
(* timer is the action ResponseTimeout).                                   *)
AddWaiterTo(responseNo, list) ==
  LET id == Len(promise) + 1 IN
  /\ id <= MaxWaiters
  /\ waiters' = Append(waiters, [id |-> id, responseNo |-> responseNo, list |-> list])
  /\ promise' = Append(promise, [st |-> "pending", frame |-> None,
                                 responseNo |-> responseNo, list |-> list])

(* Bare addWaiter, as ConnectToDaemon registers the server-list waiter.    *)
AddWaiter(list) ==
  /\ AddWaiterTo(NoIdx, list)
  /\ UNCHANGED <<requestNo, outbox, inbox, notified, reconnects>>

(* sendRecv: take the next index, register a waiter on it (and on the      *)
(* command list, if any), then write the request.                          *)
SendRecv(call) ==
  /\ requestNo < MaxReq
  /\ requestNo' = requestNo + 1
  /\ AddWaiterTo(requestNo + 1, call.list)
  /\ outbox' = Append(outbox, [reply |-> call.reply, Idx |-> requestNo + 1,
                               for |-> Len(promise) + 1])
  /\ UNCHANGED <<inbox, notified, reconnects>>

(* send without a waiter (SetLogging, SetObfsproxy, Connect, ...).         *)
Send(reply) ==
  /\ requestNo < MaxReq
  /\ requestNo' = requestNo + 1
  /\ outbox' = Append(outbox, [reply |-> reply, Idx |-> requestNo + 1, for |-> 0])
  /\ UNCHANGED <<waiters, promise, inbox, notified, reconnects>>

(* The timer of addWaiter: if the waiter is still in the array, splice it  *)
(* out and reject its promise with a timeout.                              *)
ResponseTimeout(i) ==
  /\ waiters' = RemoveAt(waiters, i)
  /\ promise' = [promise EXCEPT ![waiters[i].id] = Settle(@, "timedout", None)]
  /\ UNCHANGED <<requestNo, outbox, inbox, notified, reconnects>>

(* The waiter loop of processResponse, one iteration per call, over the    *)
(* array ws from position i.  A waiter whose responseNo is the frame's Idx *)
(* is rejected on ErrorResp (and left in the array: 'continue'), otherwise *)
(* resolved and spliced out (i -= 1); any other waiter whose command list  *)
(* holds the frame's command is resolved and spliced out.  Returns the new *)
(* array and the set of <<id, verdict>> pairs the loop called.             *)
RECURSIVE ScanNoStepBack(_, _, _, _)
ScanNoStepBack(ws, i, f, acts) ==
  IF i > Len(ws) THEN <<ws, acts>>
  ELSE IF ws[i].responseNo = f.Idx
       THEN IF f.Command = ErrorResp
            THEN ScanNoStepBack(ws, i + 1, f, acts \cup {<<ws[i].id, "rejected">>})
            ELSE ScanNoStepBack(RemoveAt(ws, i), i + 1, f, acts \cup {<<ws[i].id, "resolved">>})
       ELSE IF f.Command \in ws[i].list
            THEN ScanNoStepBack(RemoveAt(ws, i), i + 1, f, acts \cup {<<ws[i].id, "resolved">>})
            ELSE ScanNoStepBack(ws, i + 1, f, acts)

RECURSIVE ScanWaiters(_, _, _, _)
ScanWaiters(ws, i, f, acts) ==
  IF i > Len(ws) THEN <<ws, acts>>
  ELSE IF ws[i].responseNo = f.Idx
       THEN IF f.Command = ErrorResp
            THEN ScanWaiters(ws, i + 1, f, acts \cup {<<ws[i].id, "rejected">>})
            ELSE ScanWaiters(RemoveAt(ws, i), i, f, acts \cup {<<ws[i].id, "resolved">>})
       ELSE IF f.Command \in ws[i].list
            THEN ScanWaiters(RemoveAt(ws, i), i, f, acts \cup {<<ws[i].id, "resolved">>})
            ELSE ScanWaiters(ws, i + 1, f, acts)

(* processResponse, for the part that concerns waiters: the head frame is  *)
(* taken from the stream and the loop settles what it matches.             *)
ProcessResponse ==
  /\ inbox # <<>>
  /\ LET f   == Head(inbox)
         res == ScanWaiters(waiters, 1, f, {})
     IN /\ waiters' = res[1]
        /\ promise' = [id \in DOMAIN promise |->
                         IF \E a \in res[2] : a[1] = id
                         THEN Settle(promise[id], (CHOOSE a \in res[2] : a[1] = id)[2], f)
                         ELSE promise[id]]
  /\ inbox' = Tail(inbox)
  /\ UNCHANGED <<requestNo, outbox, notified, reconnects>>

(* ConnectToDaemon replacing the socket, with the counter reset as well.   *)
ReconnectResetIdx ==
  /\ reconnects < MaxReconnect
  /\ reconnects' = reconnects + 1
  /\ outbox' = <<>>
  /\ inbox' = <<>>
  /\ requestNo' = 0
  /\ UNCHANGED <<waiters, promise, notified>>

(* ConnectToDaemon: the old socket is destroyed and a new one opened; what *)
(* was in flight is lost, while waiters and requestNo are kept.            *)
Reconnect ==
  /\ reconnects < MaxReconnect
  /\ reconnects' = reconnects + 1
  /\ outbox' = <<>>
  /\ inbox' = <<>>
  /\ UNCHANGED <<requestNo, waiters, promise, notified>>

(* Environment: the daemon answers the oldest request it has not read.     *)
DaemonReply ==
  /\ outbox # <<>>
  /\ \E c \in {Head(outbox).reply, ErrorResp} :
       inbox' = Append(inbox, [Command |-> c, Idx |-> Head(outbox).Idx,
                               for |-> Head(outbox).for])
  /\ outbox' = Tail(outbox)
  /\ UNCHANGED <<requestNo, waiters, promise, notified, reconnects>>

(* Environment: the daemon pushes a notification.                          *)
DaemonNotify(c) ==
  /\ notified < MaxNotify
  /\ notified' = notified + 1
  /\ inbox' = Append(inbox, [Command |-> c, Idx |-> 0, for |-> 0])
  /\ UNCHANGED <<requestNo, waiters, promise, outbox, reconnects>>

Next ==
  \/ \E call \in Calls : SendRecv(call)
  \/ \E l \in BareLists : AddWaiter(l)
  \/ \E c \in Cmds : Send(c)
  \/ \E i \in 1..Len(waiters) : ResponseTimeout(i)
  \/ ProcessResponse
  \/ Reconnect
  \/ DaemonReply
  \/ \E c \in Cmds : DaemonNotify(c)

(* The timer of a waiter, whichever position it has reached in the array. *)
TimerFires(id) == \E i \in 1..Len(waiters) : waiters[i].id = id /\ ResponseTimeout(i)

(* Node runs every timer that is due: the timer of each registered waiter  *)
(* fires eventually.  Nothing is assumed of the daemon, which may stay    *)
(* silent.                                                                 *)
Fairness == \A id \in 1..MaxWaiters : WF_vars(TimerFires(id))

Spec == Init /\ [][Next]_vars /\ Fairness

-----------------------------------------------------------------------------
(* Properties                                                              *)

(* Every settled promise was settled by an answer meant for it: resolved   *)
(* by the reply to its own request or by a frame whose command it listed,  *)
(* rejected only by an ErrorResp to its own request.  This is what keeping *)
(* requestNo across reconnects (ConnectToDaemon never resets it) and the   *)
(* index test of the processResponse loop guarantee.                       *)
SettledByOwnAnswer ==
  \A id \in DOMAIN promise :
    LET p == promise[id] IN
    /\ p.st = "resolved" =>
         /\ p.frame.Command # ErrorResp
         /\ p.frame.for = id \/ p.frame.Command \in p.list
    /\ p.st = "rejected" => p.frame.Command = ErrorResp /\ p.frame.for = id

(* A frame processed by processResponse leaves no registered waiter whose  *)
(* command list holds its command: the loop resolves every such waiter,    *)
(* however many there are and wherever they sit in the array (spec 4.2,    *)
(* the splice-and-step-back of the loop).                                  *)
ProcessStep == inbox # <<>> /\ inbox' = Tail(inbox) /\ UNCHANGED reconnects

ListWaitersReleased ==
  [][ProcessStep =>
       \A i \in 1..Len(waiters') : Head(inbox).Command \notin waiters'[i].list]_vars

(* The registry implements the abstract request/response service: under  *)
(* the mapping of each promise to its state, every step settles a pending  *)
(* promise at most once or registers a new one in order, and every         *)
(* promise settles eventually, whatever the daemon does (a reply, an        *)
(* ErrorResp, silence, or a reconnect losing the request).                  *)
Rpc == INSTANCE AbstractRpc WITH
         MaxCalls <- MaxWaiters,
         calls <- [id \in DOMAIN promise |-> promise[id].st]

RpcSpec == Rpc!Spec

(* A waiter whose promise has settled is no longer registered: settling    *)
(* and splicing go together (spec 4.2: an ErrorResp rejects the waiter    *)
(* "and removes" it).                                                      *)
SettledWaiterDeregistered ==
  \A i \in 1..Len(waiters) : promise[waiters[i].id].st = "pending"

=============================================================================
