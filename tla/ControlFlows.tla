---------------------------- MODULE ControlFlows ----------------------------
(***************************************************************************)
(* The user-level control flows of the daemon client                      *)
(* (src/ui/src/daemon-client/index.js): Connect, Disconnect,               *)
(* PauseConnection / ApplyPauseConnection, ResumeConnection,               *)
(* EnableFirewall and PingServers, with the projection of the frames they  *)
(* depend on (ConnectedResp, DisconnectedResp, KillSwitchStatusResp,       *)
(* PingServersResp) into the VPN store (store/module-vpn-state.js).        *)
(*                                                                         *)
(* Every call of a flow is a record in 'flows' with the label where it is  *)
(* suspended ('pc'); an await on sendRecv resumes when the daemon's answer *)
(* to that request is processed.  processResponse is not awaited by        *)
(* onDataReceived, so the branches that await (ConnectedResp while paused, *)
(* DisconnectedResp with firewall-off-on-disconnect) are flows as well.    *)
(*                                                                         *)
(* The daemon is the environment: it takes requests in the order they were *)
(* written and keeps its own VPN, pause and firewall state.  A ping sweep  *)
(* is answered later, after any number of other requests.                 *)
(***************************************************************************)
EXTENDS Naturals, Sequences, FiniteSets

CONSTANTS
  MaxCalls,          \* user calls of the flows
  MaxEvents,         \* spontaneous daemon events (tunnel lost, status resent)
  FwOffOnDisconnect  \* settings.firewallDeactivateOnDisconnect

ASSUME FwOffOnDisconnect \in BOOLEAN

VARIABLES
  connState,            \* vpnState.connectionState
  pauseState,           \* vpnState.pauseState
  fwClient,             \* vpnState.firewallState.IsEnabled
  fwBeforePause,        \* isFirewallEnabledBeforePause
  connectionRequestId,  \* connectionRequestId
  pingOwner,            \* pingServersPromise: the flow whose sweep it is, or 0
  noFastest,            \* the fastestServer getter returns null: no active
                        \* server outside serversFastestExcludeList
  flows,                \* one record per call: [op, pc, cid, on]
  outbox,               \* requests written, not yet taken by the daemon
  inbox,                \* frames written by the daemon, not yet processed
  dVpn, dPaused, dFw,   \* the daemon's tunnel, pause and firewall state
  dPinging,             \* sweeps the daemon is running, by requesting flow
  events,               \* spontaneous daemon events so far
  sentLog               \* ghost: ids of the Connect/Disconnect calls whose
                        \* request was written, in writing order

vars == <<connState, pauseState, fwClient, fwBeforePause, connectionRequestId,
          pingOwner, noFastest, flows, outbox, inbox, dVpn, dPaused, dFw,
          dPinging, events, sentLog>>

Ops == {"Connect", "Disconnect", "Pause", "Resume", "Ping", "Apply", "DiscFw"}
Pcs == {"ping_wait", "ping_join", "pause_wait", "pause_fw", "resume_wait",
        "resume_fw", "disc_wait", "discfw_wait", "done"}
Flow == [op: Ops, pc: Pcs, cid: Nat, on: Nat]
Request == [cmd: {"Connect", "Disconnect", "Pause", "Resume", "KS", "Ping"},
            from: Nat, val: BOOLEAN]
Frame == [cmd: {"Ack", "ErrorResp", "ConnectedResp", "DisconnectedResp",
                "KSStatus", "PingResp"}, to: Nat, val: BOOLEAN]

TypeOK ==
  /\ connState \in {"DISCONNECTED", "CONNECTING", "CONNECTED", "DISCONNECTING"}
  /\ pauseState \in {"Resumed", "Pausing", "Paused", "Resuming"}
  /\ fwClient \in BOOLEAN /\ fwBeforePause \in BOOLEAN
  /\ connectionRequestId \in Nat
  /\ pingOwner \in Nat /\ noFastest \in BOOLEAN
  /\ flows \in Seq(Flow)
  /\ outbox \in Seq(Request) /\ inbox \in Seq(Frame)
  /\ dVpn \in {"off", "on"} /\ dPaused \in BOOLEAN /\ dFw \in BOOLEAN
  /\ dPinging \in Seq(Nat)
  /\ events \in 0..MaxEvents
  /\ sentLog \in Seq(Nat)

(* Start: connected to the daemon, tunnel down, the firewall either way;   *)
(* isFirewallEnabledBeforePause starts true; the server list (not         *)
(* changed here) either has a server fastestServer can return or not.    *)
Init ==
  /\ connState = "DISCONNECTED"
  /\ pauseState = "Resumed"
  /\ dFw \in BOOLEAN
  /\ fwClient = dFw
  /\ fwBeforePause = TRUE
  /\ connectionRequestId = 0
  /\ pingOwner = 0
  /\ noFastest \in BOOLEAN
  /\ flows = <<>>
  /\ outbox = <<>> /\ inbox = <<>>
  /\ dVpn = "off" /\ dPaused = FALSE
  /\ dPinging = <<>>
  /\ events = 0
  /\ sentLog = <<>>

Req(cmd, from, val) == [cmd |-> cmd, from |-> from, val |-> val]
Frm(cmd, to, val) == [cmd |-> cmd, to |-> to, val |-> val]
NewFlow(op, pc, cid, on) == [op |-> op, pc |-> pc, cid |-> cid, on |-> on]

(* The connectionState mutation: DISCONNECTED also resets the pause state. *)
SetConnState(cs) ==
  /\ connState' = cs
  /\ pauseState' = IF cs = "DISCONNECTED" THEN "Resumed" ELSE pauseState

(* The connectionInfo mutation, given connection info: CONNECTED.         *)
ConnectionInfo == connState' = "CONNECTED"

(* The 'disconnected' mutation: DISCONNECTED and Resumed.                  *)
Disconnected == connState' = "DISCONNECTED" /\ pauseState' = "Resumed"

UserOps == {"Connect", "Disconnect", "Pause", "Resume", "Ping"}
Calls == Cardinality({i \in DOMAIN flows : flows[i].op \in UserOps})

(* PingServers up to its await, for a new flow of kind 'op': without the   *)
(* single-flight test every caller starts a sweep of its own.              *)
StartPingUnshared(op, cid) ==
  LET f == Len(flows) + 1 IN
  /\ flows' = Append(flows, NewFlow(op, "ping_wait", cid, f))
  /\ pingOwner' = f
  /\ outbox' = Append(outbox, Req("Ping", f, FALSE))

(* PingServers up to its await: a caller that finds pingServersPromise    *)
(* set waits on it; otherwise it sends the request and stores the promise. *)
StartPing(op, cid) ==
  LET f == Len(flows) + 1 IN
  IF pingOwner # 0
  THEN /\ flows' = Append(flows, NewFlow(op, "ping_join", cid, pingOwner))
       /\ UNCHANGED <<pingOwner, outbox>>
  ELSE /\ flows' = Append(flows, NewFlow(op, "ping_wait", cid, f))
       /\ pingOwner' = f
       /\ outbox' = Append(outbox, Req("Ping", f, FALSE))

(* Connect: take a new request id, mark Resumed and CONNECTING; with the   *)
(* fastest-server policy and a null fastestServer (pings are not needed:  *)
(* without them the getter falls back to the nearest or first applicable  *)
(* server), await PingServers; otherwise the id is still current and the  *)
(* request is written at once.                                             *)
CallConnect(policy) ==
  LET cid == connectionRequestId + 1 IN
  /\ Calls < MaxCalls
  /\ connectionRequestId' = cid
  /\ pauseState' = "Resumed"
  /\ connState' = "CONNECTING"
  /\ IF policy = "fastest" /\ noFastest
     THEN StartPing("Connect", cid) /\ UNCHANGED sentLog
     ELSE /\ flows' = Append(flows, NewFlow("Connect", "done", cid, 0))
          /\ outbox' = Append(outbox, Req("Connect", 0, FALSE))
          /\ sentLog' = Append(sentLog, cid)
          /\ UNCHANGED pingOwner
  /\ UNCHANGED <<fwClient, fwBeforePause, noFastest, inbox, dVpn, dPaused,
                 dFw, dPinging, events>>

(* PingServers called by the UI.                                          *)
CallPing ==
  /\ Calls < MaxCalls
  /\ StartPing("Ping", 0)
  /\ UNCHANGED <<connState, pauseState, fwClient, fwBeforePause,
                 connectionRequestId, noFastest, inbox, dVpn, dPaused, dFw,
                 dPinging, events, sentLog>>

(* Disconnect: invalidate pending Connects, mark Resumed, DISCONNECTING if *)
(* connected, and await the Disconnect request by index or DisconnectedResp.*)
CallDisconnect ==
  LET f == Len(flows) + 1 IN
  /\ Calls < MaxCalls
  /\ connectionRequestId' = connectionRequestId + 1
  /\ pauseState' = "Resumed"
  /\ connState' = IF connState = "CONNECTED" THEN "DISCONNECTING" ELSE connState
  /\ flows' = Append(flows, NewFlow("Disconnect", "disc_wait", 0, 0))
  /\ outbox' = Append(outbox, Req("Disconnect", f, FALSE))
  /\ sentLog' = Append(sentLog, connectionRequestId + 1)
  /\ UNCHANGED <<fwClient, fwBeforePause, pingOwner, noFastest, inbox, dVpn,
                 dPaused, dFw, dPinging, events>>

(* PauseConnection when connected and not paused: remember the firewall   *)
(* state, then ApplyPauseConnection: Pausing, await the Pause request.     *)
CallPause ==
  LET f == Len(flows) + 1 IN
  /\ Calls < MaxCalls
  /\ connState = "CONNECTED"
  /\ pauseState # "Paused"
  /\ fwBeforePause' = fwClient
  /\ pauseState' = "Pausing"
  /\ flows' = Append(flows, NewFlow("Pause", "pause_wait", 0, 0))
  /\ outbox' = Append(outbox, Req("Pause", f, FALSE))
  /\ UNCHANGED <<connState, fwClient, connectionRequestId, pingOwner,
                 noFastest, inbox, dVpn, dPaused, dFw, dPinging, events,
                 sentLog>>

(* ResumeConnection when connected and not resumed: Resuming, await the    *)
(* Resume request.                                                         *)
CallResume ==
  LET f == Len(flows) + 1 IN
  /\ Calls < MaxCalls
  /\ connState = "CONNECTED"
  /\ pauseState # "Resumed"
  /\ pauseState' = "Resuming"
  /\ flows' = Append(flows, NewFlow("Resume", "resume_wait", 0, 0))
  /\ outbox' = Append(outbox, Req("Resume", f, FALSE))
  /\ UNCHANGED <<connState, fwClient, fwBeforePause, connectionRequestId,
                 pingOwner, noFastest, inbox, dVpn, dPaused, dFw, dPinging,
                 events, sentLog>>

-----------------------------------------------------------------------------
(* processResponse, one frame at a time (the head of 'inbox'): the          *)
(* projection, then the waiter loop, then the continuations it resumes.    *)

Frame1 == Head(inbox)

(* A Disconnect waiter registered by index only: no DisconnectedResp       *)
(* (a notification, Idx 0) releases it.                                    *)
ReleaseDisconnectsByIdx(fs) == fs

(* A DisconnectedResp releases every Disconnect waiting on that command.   *)
ReleaseDisconnects(fs) ==
  [i \in DOMAIN fs |-> IF fs[i].pc = "disc_wait" THEN [fs[i] EXCEPT !.pc = "done"]
                                                  ELSE fs[i]]

SetPc(i, pc) == flows' = [flows EXCEPT ![i].pc = pc]

(* ConnectedResp: connectionInfo marks CONNECTED; if the pause state is    *)
(* Paused, 'await ApplyPauseConnection()': Pausing, Pause request.         *)
OnConnectedResp ==
  /\ inbox # <<>> /\ Frame1.cmd = "ConnectedResp"
  /\ inbox' = Tail(inbox)
  /\ ConnectionInfo
  /\ IF pauseState = "Paused"
     THEN /\ pauseState' = "Pausing"
          /\ flows' = Append(flows, NewFlow("Apply", "pause_wait", 0, 0))
          /\ outbox' = Append(outbox, Req("Pause", Len(flows) + 1, FALSE))
     ELSE UNCHANGED <<pauseState, flows, outbox>>
  /\ UNCHANGED <<fwClient, fwBeforePause, connectionRequestId, pingOwner,
                 noFastest, dVpn, dPaused, dFw, dPinging, events, sentLog>>

(* DisconnectedResp: the pauseState action (Resumed), the 'disconnected'   *)
(* mutation, and the connectionState mutation with DISCONNECTED, which     *)
(* write the same two values; with firewall-off-on-disconnect              *)
(* 'await EnableFirewall(false)' before the waiter loop, otherwise the loop *)
(* releases the Disconnect calls now.                                      *)
OnDisconnectedResp ==
  /\ inbox # <<>> /\ Frame1.cmd = "DisconnectedResp"
  /\ inbox' = Tail(inbox)
  /\ Disconnected
  /\ IF FwOffOnDisconnect
     THEN /\ flows' = Append(flows, NewFlow("DiscFw", "discfw_wait", 0, 0))
          /\ outbox' = Append(outbox, Req("KS", Len(flows) + 1, FALSE))
     ELSE /\ flows' = ReleaseDisconnects(flows)
          /\ UNCHANGED outbox
  /\ UNCHANGED <<fwClient, fwBeforePause, connectionRequestId, pingOwner,
                 noFastest, dVpn, dPaused, dFw, dPinging, events, sentLog>>

(* KillSwitchStatusResp: the firewall state is copied into the store.      *)
OnKillSwitchStatus ==
  /\ inbox # <<>> /\ Frame1.cmd = "KSStatus"
  /\ inbox' = Tail(inbox)
  /\ fwClient' = Frame1.val
  /\ UNCHANGED <<connState, pauseState, fwBeforePause, connectionRequestId,
                 pingOwner, noFastest, flows, outbox, dVpn, dPaused, dFw,
                 dPinging, events, sentLog>>

(* The answer to a flow's request, with the flow at label 'pc'.            *)
ReplyTo(pc) ==
  /\ inbox # <<>>
  /\ Frame1.cmd \in {"Ack", "ErrorResp"}
  /\ Frame1.to \in DOMAIN flows
  /\ flows[Frame1.to].pc = pc
  /\ inbox' = Tail(inbox)

(* ApplyPauseConnection after the Pause answer: on success                 *)
(* 'await EnableFirewall(false)'; an ErrorResp throws before the try, and  *)
(* the pause state stays Pausing.                                          *)
PauseAnswered ==
  /\ ReplyTo("pause_wait")
  /\ IF Frame1.cmd = "Ack"
     THEN /\ SetPc(Frame1.to, "pause_fw")
          /\ outbox' = Append(outbox, Req("KS", Frame1.to, FALSE))
     ELSE /\ SetPc(Frame1.to, "done")
          /\ UNCHANGED outbox
  /\ UNCHANGED <<connState, pauseState, fwClient, fwBeforePause,
                 connectionRequestId, pingOwner, noFastest, dVpn, dPaused,
                 dFw, dPinging, events, sentLog>>

(* ApplyPauseConnection after EnableFirewall(false): the finally block     *)
(* marks Paused whatever the answer.                                       *)
PauseFirewallAnswered ==
  /\ ReplyTo("pause_fw")
  /\ SetPc(Frame1.to, "done")
  /\ pauseState' = "Paused"
  /\ UNCHANGED <<connState, fwClient, fwBeforePause, connectionRequestId,
                 pingOwner, noFastest, outbox, dVpn, dPaused, dFw, dPinging,
                 events, sentLog>>

(* ResumeConnection after the Resume answer: Resumed, then                 *)
(* 'await EnableFirewall(true)' if the firewall was on before the pause    *)
(* (throwIfForbiddenToEnableFirewall passes: the state was just set        *)
(* Resumed).  An ErrorResp throws and the state stays Resuming.            *)
ResumeAnswered ==
  /\ ReplyTo("resume_wait")
  /\ IF Frame1.cmd = "Ack"
     THEN /\ pauseState' = "Resumed"
          /\ IF fwBeforePause
             THEN /\ SetPc(Frame1.to, "resume_fw")
                  /\ outbox' = Append(outbox, Req("KS", Frame1.to, TRUE))
             ELSE /\ SetPc(Frame1.to, "done")
                  /\ UNCHANGED outbox
     ELSE /\ SetPc(Frame1.to, "done")
          /\ UNCHANGED <<pauseState, outbox>>
  /\ UNCHANGED <<connState, fwClient, fwBeforePause, connectionRequestId,
                 pingOwner, noFastest, dVpn, dPaused, dFw, dPinging, events,
                 sentLog>>

ResumeFirewallAnswered ==
  /\ ReplyTo("resume_fw")
  /\ SetPc(Frame1.to, "done")
  /\ UNCHANGED <<connState, pauseState, fwClient, fwBeforePause,
                 connectionRequestId, pingOwner, noFastest, outbox, dVpn,
                 dPaused, dFw, dPinging, events, sentLog>>

(* The DisconnectedResp branch after EnableFirewall(false): its waiter     *)
(* loop now releases the Disconnect calls waiting at this moment.          *)
DisconnectFirewallAnswered ==
  /\ ReplyTo("discfw_wait")
  /\ flows' = ReleaseDisconnects([flows EXCEPT ![Frame1.to].pc = "done"])
  /\ UNCHANGED <<connState, pauseState, fwClient, fwBeforePause,
                 connectionRequestId, pingOwner, noFastest, outbox, dVpn,
                 dPaused, dFw, dPinging, events, sentLog>>

(* Connect's check before writing its request, without the check.         *)
StillCurrentUnchecked(j) == TRUE

(* Connect's cancellation check: the id it took is still the latest.      *)
StillCurrent(j) == flows[j].cid = connectionRequestId

(* PingServers resolved by PingServersResp (the projection records the     *)
(* pings first) or rejected by ErrorResp.  The finally clears              *)
(* pingServersPromise; every caller waiting on the promise resumes with    *)
(* the same outcome.  A Connect that resumes writes its request only if    *)
(* its id is still current; a failed sweep throws into Connect's catch,    *)
(* which marks DISCONNECTED whether or not the Connect was superseded.     *)
PingAnswered ==
  /\ inbox # <<>>
  /\ Frame1.cmd \in {"PingResp", "ErrorResp"}
  /\ Frame1.to \in DOMAIN flows
  /\ flows[Frame1.to].op \in {"Connect", "Ping"}
  /\ LET ok       == Frame1.cmd = "PingResp"
         hit      == {j \in DOMAIN flows : flows[j].pc = "ping_wait" /\ (j = Frame1.to \/ ok)}
         released == hit \cup {j \in DOMAIN flows : flows[j].pc = "ping_join" /\ flows[j].on \in hit}
         connects == {j \in released : flows[j].op = "Connect"}
         current  == {j \in connects : StillCurrent(j)}
     IN /\ flows' = [j \in DOMAIN flows |->
                       IF j \in released THEN [flows[j] EXCEPT !.pc = "done"] ELSE flows[j]]
        /\ pingOwner' = IF hit # {} THEN 0 ELSE pingOwner
        /\ IF ok /\ current # {}
           THEN /\ outbox' = Append(outbox, Req("Connect", 0, FALSE))
                /\ sentLog' = Append(sentLog, flows[CHOOSE j \in current :
                                         \A k \in current : flows[k].cid <= flows[j].cid].cid)
           ELSE UNCHANGED <<outbox, sentLog>>
        /\ IF ~ok /\ connects # {}
           THEN SetConnState("DISCONNECTED")
           ELSE UNCHANGED <<connState, pauseState>>
  /\ inbox' = Tail(inbox)
  /\ UNCHANGED <<fwClient, fwBeforePause, connectionRequestId, noFastest,
                 dVpn, dPaused, dFw, dPinging, events>>

-----------------------------------------------------------------------------
(* Environment: the daemon.                                                *)

ClientVars == <<connState, pauseState, fwClient, fwBeforePause,
                connectionRequestId, pingOwner, noFastest, flows, sentLog>>

Take(cmd) == outbox # <<>> /\ Head(outbox).cmd = cmd /\ outbox' = Tail(outbox)

DaemonConnect ==
  /\ Take("Connect")
  /\ \E ok \in BOOLEAN :
       /\ dVpn' = IF ok THEN "on" ELSE "off"
       /\ inbox' = Append(inbox, Frm(IF ok THEN "ConnectedResp" ELSE "DisconnectedResp", 0, FALSE))
  /\ dPaused' = FALSE
  /\ UNCHANGED <<ClientVars, dFw, dPinging, events>>

DaemonDisconnect ==
  /\ Take("Disconnect")
  /\ dVpn' = "off" /\ dPaused' = FALSE
  /\ inbox' = Append(inbox, Frm("DisconnectedResp", 0, FALSE))
  /\ UNCHANGED <<ClientVars, dFw, dPinging, events>>

DaemonPause ==
  /\ Take("Pause")
  /\ IF dVpn = "on"
     THEN dPaused' = TRUE /\ inbox' = Append(inbox, Frm("Ack", Head(outbox).from, FALSE))
     ELSE UNCHANGED dPaused /\ inbox' = Append(inbox, Frm("ErrorResp", Head(outbox).from, FALSE))
  /\ UNCHANGED <<ClientVars, dVpn, dFw, dPinging, events>>

DaemonResume ==
  /\ Take("Resume")
  /\ IF dVpn = "on"
     THEN dPaused' = FALSE /\ inbox' = Append(inbox, Frm("Ack", Head(outbox).from, FALSE))
     ELSE UNCHANGED dPaused /\ inbox' = Append(inbox, Frm("ErrorResp", Head(outbox).from, FALSE))
  /\ UNCHANGED <<ClientVars, dVpn, dFw, dPinging, events>>

DaemonSetFirewall ==
  /\ Take("KS")
  /\ dFw' = Head(outbox).val
  /\ inbox' = inbox \o <<Frm("Ack", Head(outbox).from, FALSE),
                         Frm("KSStatus", 0, Head(outbox).val)>>
  /\ UNCHANGED <<ClientVars, dVpn, dPaused, dPinging, events>>

DaemonStartPing ==
  /\ Take("Ping")
  /\ dPinging' = Append(dPinging, Head(outbox).from)
  /\ UNCHANGED <<ClientVars, inbox, dVpn, dPaused, dFw, events>>

DaemonPingDone(ok) ==
  /\ dPinging # <<>>
  /\ dPinging' = Tail(dPinging)
  /\ inbox' = Append(inbox, Frm(IF ok THEN "PingResp" ELSE "ErrorResp", Head(dPinging), FALSE))
  /\ UNCHANGED <<ClientVars, outbox, dVpn, dPaused, dFw, events>>

(* The tunnel drops on the daemon's side.                                  *)
DaemonTunnelLost ==
  /\ events < MaxEvents /\ dVpn = "on"
  /\ events' = events + 1
  /\ dVpn' = "off" /\ dPaused' = FALSE
  /\ inbox' = Append(inbox, Frm("DisconnectedResp", 0, FALSE))
  /\ UNCHANGED <<ClientVars, outbox, dFw, dPinging>>

(* The daemon reports its connected tunnel again (as it does on Hello).    *)
DaemonResendConnected ==
  /\ events < MaxEvents /\ dVpn = "on"
  /\ events' = events + 1
  /\ inbox' = Append(inbox, Frm("ConnectedResp", 0, FALSE))
  /\ UNCHANGED <<ClientVars, outbox, dVpn, dPaused, dFw, dPinging>>

-----------------------------------------------------------------------------
UserCall ==
  \/ \E policy \in {"explicit", "fastest"} : CallConnect(policy)
  \/ CallDisconnect
  \/ CallPause
  \/ CallResume
  \/ CallPing

Dispatch ==
  \/ OnConnectedResp
  \/ OnDisconnectedResp
  \/ OnKillSwitchStatus
  \/ PauseAnswered
  \/ PauseFirewallAnswered
  \/ ResumeAnswered
  \/ ResumeFirewallAnswered
  \/ DisconnectFirewallAnswered
  \/ PingAnswered

DaemonServes ==
  \/ DaemonConnect
  \/ DaemonDisconnect
  \/ DaemonPause
  \/ DaemonResume
  \/ DaemonSetFirewall
  \/ DaemonStartPing

Next ==
  \/ UserCall
  \/ Dispatch
  \/ DaemonServes
  \/ \E ok \in BOOLEAN : DaemonPingDone(ok)
  \/ DaemonTunnelLost
  \/ DaemonResendConnected

(* The event loop processes every frame that arrives; the daemon, a        *)
(* cooperating black box (spec 1), serves every request and finishes every *)
(* sweep.  Nothing forces the user to call anything or the tunnel to drop. *)
Fairness ==
  /\ WF_vars(Dispatch)
  /\ WF_vars(DaemonServes)
  /\ WF_vars(\E ok \in BOOLEAN : DaemonPingDone(ok))

Spec == Init /\ [][Next]_vars /\ Fairness

-----------------------------------------------------------------------------
(* Properties                                                              *)

(* Nothing is in flight and no call is suspended.                          *)
Quiet ==
  /\ outbox = <<>> /\ inbox = <<>> /\ dPinging = <<>>
  /\ \A i \in DOMAIN flows : flows[i].pc = "done"

(* Connect and Disconnect requests reach the daemon in the order of their  *)
(* calls: a Connect whose call was overtaken by a later Connect or         *)
(* Disconnect is never written (the connectionRequestId check after the   *)
(* PingServers await; spec 4.6 and the scenario of spec 8).               *)
ConnectCallsOrdered ==
  \A i, j \in DOMAIN sentLog : i < j => sentLog[i] < sentLog[j]

(* At most one ping sweep is outstanding, however many callers asked for   *)
(* one (PingServers single-flight, spec 4.6 and 8).                        *)
PingSingleFlight ==
  LET req  == {i \in DOMAIN outbox : outbox[i].cmd = "Ping"}
      resp == {i \in DOMAIN inbox : inbox[i].cmd \in {"PingResp", "ErrorResp"}
                                    /\ inbox[i].to \in DOMAIN flows
                                    /\ flows[inbox[i].to].op \in {"Connect", "Ping"}}
  IN Cardinality(req) + Len(dPinging) + Cardinality(resp) <= 1

(* Every call that suspends returns: a Disconnect is released by a         *)
(* DisconnectedResp also when the projection first awaits                  *)
(* EnableFirewall(false); a PingServers caller that joined a sweep in      *)
(* progress resumes with its owner; the firewall step of Pause and Resume, *)
(* and the branches of processResponse that await, finish.  Flows are only *)
(* appended: the user calls, one Apply per ConnectedResp and one DiscFw    *)
(* per DisconnectedResp stay within 2 * MaxCalls + MaxEvents.              *)
CallsReturn ==
  \A i \in 1..(2 * MaxCalls + MaxEvents) :
    (i \in DOMAIN flows /\ flows[i].pc # "done")
      ~> (i \in DOMAIN flows /\ flows[i].pc = "done")

(* When nothing is in flight, the client's pause state is settled and      *)
(* agrees with the daemon's (spec 4.6 Pause/Resume).                       *)
PauseStateAgrees ==
  Quiet => /\ pauseState \in {"Resumed", "Paused"}
           /\ (pauseState = "Paused") = dPaused

(* When nothing is in flight, the client shows the tunnel connected        *)
(* exactly when the daemon's tunnel is up.                                 *)
ConnStateAgrees ==
  Quiet => /\ connState \in {"CONNECTED", "DISCONNECTED"}
           /\ (connState = "CONNECTED") = (dVpn = "on")

=============================================================================
