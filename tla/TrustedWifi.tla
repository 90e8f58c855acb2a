----------------------------- MODULE TrustedWifi -----------------------------
(***************************************************************************)
(* Trusted-network rules (src/ui/src/trusted-wifi.js).  Every commit of    *)
(* the mutation 'vpnState/currentWiFiInfo' (processResponse,               *)
(* WiFiCurrentNetworkResp) schedules processWifiChange on a 0 ms timer.    *)
(* A run reads the Wi-Fi settings, the current network and                 *)
(* 'lastProcessedRule', picks the trust rule of the network (its first     *)
(* configured entry, else the default trust status) or the insecure-       *)
(* network rule, and applies it through the daemon client: Disconnect,     *)
(* EnableFirewall, ResumeConnection, Connect, each awaited in turn; only   *)
(* when all are done does it record the rule in 'lastProcessedRule'.       *)
(* After the handshake a launch timer consults                             *)
(* IsCanAutoConnectForCurrentSSID to decide on auto-connect.               *)
(*                                                                         *)
(* A run is a plan of calls; each step of a run is the completion of the   *)
(* call it awaits followed by the synchronous code up to its next await.   *)
(* The daemon-client calls are abstracted to their effect on the client    *)
(* state 'client': the connection and pause state, the firewall, and the   *)
(* three firewall settings they read.  The Wi-Fi settings are a setting of   *)
(* a store module outside src/; they are drawn from WifiConfigs, and a     *)
(* user edit (mutation 'settings/wifi') also schedules processWifiChange.  *)
(* The account is logged in.                                               *)
(***************************************************************************)
EXTENDS Naturals, Sequences, SequencesExt

CONSTANTS
  SSIDs,               \* network names
  Null,                \* null (no network, no rule)
  WifiConfigs,         \* settings.wifi values
  AutoConnectOnLaunch, \* settings.autoConnectOnLaunch
  Overlap,             \* may a network change arrive while a run is pending?
  MaxChanges           \* bound on WiFiCurrentNetworkResp notifications

ASSUME AutoConnectOnLaunch \in BOOLEAN /\ Overlap \in BOOLEAN

VARIABLES
  wifi,               \* store.state.settings.wifi
  wifiInfo,           \* store.state.vpnState.currentWiFiInfo
  lastProcessedRule,  \* let lastProcessedRule
  timers,             \* processWifiChange timers not yet fired
  runs,               \* processWifiChange runs suspended at an await
  client,             \* connection, pause and firewall state of the client
  launch,             \* the auto-connect timer of the handshake: pending / done
  changes             \* notifications so far (bound only)

vars == <<wifi, wifiInfo, lastProcessedRule, timers, runs, client, launch, changes>>

NoWifi == [SSID |-> Null, insecure |-> FALSE]
WifiInfos == {NoWifi} \cup [SSID: SSIDs, insecure: BOOLEAN]
ConnStates == {"DISCONNECTED", "CONNECTING", "CONNECTED", "DISCONNECTING"}
Client == [conn: ConnStates, pause: {"Resumed", "Resuming", "Paused"},
           fw: BOOLEAN, fwBeforePause: BOOLEAN, persistent: BOOLEAN,
           fwOffOnDisconnect: BOOLEAN]
Stages == {"disconnect", "fw_off", "resume", "fw_on", "uconnect", "iconnect"}

(***************************************************************************)
(* The rule of a network                                                   *)
(***************************************************************************)

(* getTrustRuleForConfiguredNetwork: the isTrusted of the first entry for  *)
(* the network, null if there is none.                                     *)
GetTrustRuleForConfiguredNetwork(ssid, networks) ==
  LET k == SelectInSeq(networks, LAMBDA n : n.ssid = ssid) IN
  IF k = 0 THEN Null ELSE networks[k].isTrusted

TrustRuleForNoDefault(ssid, w) == GetTrustRuleForConfiguredNetwork(ssid, w.networks)

(* processWifiChange: a network that is not configured takes the default   *)
(* trust status.                                                           *)
TrustRuleFor(ssid, w) ==
  LET r == GetTrustRuleForConfiguredNetwork(ssid, w.networks) IN
  IF r = Null THEN w.defaultTrusted ELSE r

(* The two "already applied" tests of processWifiChange.                   *)
SameRule(lpr, ssid, rule) == lpr # Null /\ lpr.SSID = ssid /\ lpr.isTrusted = rule

SameNetwork(lpr, ssid) == lpr # Null /\ lpr.SSID = ssid

(***************************************************************************)
(* applyTrustRule and the insecure-network Connect, as plans of calls      *)
(***************************************************************************)

Plan(rule) ==
  CASE rule = TRUE  -> <<"disconnect", "fw_off">>
    [] rule = FALSE -> <<"resume", "fw_on", "uconnect">>
    [] OTHER        -> <<"iconnect">>

(* The test in front of each call, made when the run reaches it; "fw_on"   *)
(* follows "resume" under the same test.                                   *)
Guard(st, c, a) ==
  CASE st = "disconnect" -> a.trustedDisconnectVpn /\ c.conn # "DISCONNECTED"
    [] st = "fw_off"     -> a.trustedDisableFirewall /\ c.fw
    [] st = "resume"     -> a.unTrustedEnableFirewall /\ ~c.fw
    [] st = "uconnect"   -> a.unTrustedConnectVpn /\ c.conn \notin {"CONNECTED", "CONNECTING"}
    [] OTHER             -> TRUE

(* The synchronous part of a call, up to its first await: the new client   *)
(* state, whether the caller then waits, whether the call throws.          *)
(* Disconnect: Resumed, DISCONNECTING if CONNECTED.  EnableFirewall:       *)
(* returns at once in persistent mode; enabling throws unless Resumed.     *)
(* ResumeConnection: returns at once unless connected and paused.          *)
(* Connect: Resumed, CONNECTING.                                           *)
Sync(st, c) ==
  CASE st = "disconnect" ->
         [c |-> [c EXCEPT !.pause = "Resumed",
                          !.conn = IF @ = "CONNECTED" THEN "DISCONNECTING" ELSE @],
          awaits |-> TRUE, threw |-> FALSE]
    [] st = "fw_off" -> [c |-> c, awaits |-> ~c.persistent, threw |-> FALSE]
    [] st = "fw_on" ->
         [c |-> c, awaits |-> ~c.persistent,
          threw |-> ~c.persistent /\ c.pause # "Resumed"]
    [] st = "resume" ->
         IF c.conn # "CONNECTED" \/ c.pause = "Resumed"
         THEN [c |-> c, awaits |-> FALSE, threw |-> FALSE]
         ELSE [c |-> [c EXCEPT !.pause = "Resuming"], awaits |-> TRUE, threw |-> FALSE]
    [] OTHER ->
         [c |-> [c EXCEPT !.pause = "Resumed", !.conn = "CONNECTING"],
          awaits |-> TRUE, threw |-> FALSE]

(* processResponse, DisconnectedResp: DISCONNECTED and Resumed; with       *)
(* settings.firewallDeactivateOnDisconnect, 'await EnableFirewall(false)'  *)
(* (a no-op in persistent mode) before the waiter loop.                    *)
OnDisconnectedResp(c) ==
  [c EXCEPT !.conn = "DISCONNECTED", !.pause = "Resumed",
            !.fw = @ /\ ~(c.fwOffOnDisconnect /\ ~c.persistent)]

(* The awaited call completes.  Disconnect: DisconnectedResp.  Firewall:   *)
(* the daemon's KillSwitchStatus.  ResumeConnection: Resumed, and the      *)
(* firewall back on if it was on before the pause.  Connect: returns once  *)
(* the request is sent; the tunnel comes up later (TunnelResult).          *)
Complete(st, c) ==
  CASE st = "disconnect" -> OnDisconnectedResp(c)
    [] st = "fw_off"     -> [c EXCEPT !.fw = FALSE]
    [] st = "fw_on"      -> [c EXCEPT !.fw = TRUE]
    [] st = "resume"     -> [c EXCEPT !.pause = "Resumed", !.fw = @ \/ c.fwBeforePause]
    [] OTHER             -> c

(* Run the plan from stage k with client state c up to the next await, the *)
(* end of the plan, or a throw.                                            *)
RECURSIVE Advance(_, _, _, _)
Advance(plan, k, c, a) ==
  IF k > Len(plan) THEN [k |-> k, c |-> c, status |-> "done"]
  ELSE LET st == plan[k] IN
       IF ~Guard(st, c, a)
       THEN Advance(plan, IF st = "resume" THEN k + 2 ELSE k + 1, c, a)
       ELSE LET s == Sync(st, c) IN
            IF s.threw THEN [k |-> k, c |-> s.c, status |-> "threw"]
            ELSE IF s.awaits THEN [k |-> k, c |-> s.c, status |-> "await"]
            ELSE Advance(plan, k + 1, s.c, a)

(* The outcome of running a plan to its next await, for the runs 'base'   *)
(* suspended besides it: the client state, and the run suspended again or, *)
(* when its plan is done, its rule recorded in lastProcessedRule (a run    *)
(* that throws records nothing).                                           *)
ProceedNoRecord(base, run, r) ==
  /\ client' = r.c
  /\ runs' = IF r.status = "await" THEN Append(base, [run EXCEPT !.k = r.k]) ELSE base
  /\ UNCHANGED lastProcessedRule

Proceed(base, run, r) ==
  /\ client' = r.c
  /\ runs' = IF r.status = "await" THEN Append(base, [run EXCEPT !.k = r.k]) ELSE base
  /\ lastProcessedRule' = IF r.status = "done"
                          THEN [SSID |-> run.ssid, isTrusted |-> run.rule]
                          ELSE lastProcessedRule

-----------------------------------------------------------------------------

TypeOK ==
  /\ wifi \in WifiConfigs
  /\ wifiInfo \in WifiInfos
  /\ lastProcessedRule \in {Null} \cup [SSID: SSIDs, isTrusted: {TRUE, FALSE, Null}]
  /\ timers \in 0..MaxChanges
  /\ runs \in Seq([ssid: SSIDs, rule: {TRUE, FALSE, Null}, plan: Seq(Stages), k: Nat])
  /\ client \in Client
  /\ launch \in {"pending", "done"}
  /\ changes \in 0..MaxChanges

(* Any client state the handshake may find: a paused connection has had    *)
(* its firewall turned off unless persistent; a persistent firewall is on. *)
Init ==
  /\ wifi \in WifiConfigs
  /\ wifiInfo = NoWifi
  /\ lastProcessedRule = Null
  /\ timers = 0
  /\ runs = <<>>
  /\ client \in {c \in Client :
                   /\ c.conn \in {"DISCONNECTED", "CONNECTED"}
                   /\ c.pause \in {"Resumed", "Paused"}
                   /\ c.pause = "Paused" => c.conn = "CONNECTED" /\ (c.persistent \/ ~c.fw)
                   /\ c.persistent => c.fw}
  /\ launch = "pending"
  /\ changes = 0

(* WiFiCurrentNetworkResp: the mutation currentWiFiInfo, and the store     *)
(* subscription puts processWifiChange on a timer.                         *)
WiFiCurrentNetworkResp(info) ==
  /\ changes < MaxChanges
  /\ Overlap \/ (timers = 0 /\ runs = <<>>)
  /\ changes' = changes + 1
  /\ wifiInfo' = info
  /\ timers' = timers + 1
  /\ UNCHANGED <<wifi, lastProcessedRule, runs, client, launch>>

(* The user edits the Wi-Fi settings: the mutation 'settings/wifi' is the *)
(* other one the store subscription puts processWifiChange on a timer for. *)
SettingsWifi(w) ==
  /\ changes < MaxChanges
  /\ Overlap \/ (timers = 0 /\ runs = <<>>)
  /\ w # wifi
  /\ changes' = changes + 1
  /\ wifi' = w
  /\ timers' = timers + 1
  /\ UNCHANGED <<wifiInfo, lastProcessedRule, runs, client, launch>>

(* The timer fires: processWifiChange up to its first await.               *)
ProcessWifiChange ==
  LET ssid == wifiInfo.SSID
      rule == TrustRuleFor(ssid, wifi)
      ctl  == wifi.trustedNetworksControl
      ins  == wifiInfo.insecure /\ wifi.connectVPNOnInsecureNetwork
                 /\ client.conn \notin {"CONNECTED", "CONNECTING"}
      Begin(r) == LET run == [ssid |-> ssid, rule |-> r, plan |-> Plan(r), k |-> 1]
                  IN Proceed(runs, run, Advance(run.plan, 1, client, wifi.actions))
  IN
  /\ timers > 0
  /\ timers' = timers - 1
  /\ CASE ssid = Null ->
            /\ lastProcessedRule' = Null
            /\ UNCHANGED <<runs, client>>
       [] ctl /\ rule # Null ->
            IF SameRule(lastProcessedRule, ssid, rule)
            THEN UNCHANGED <<lastProcessedRule, runs, client>>
            ELSE Begin(rule)
       [] ins ->
            IF SameNetwork(lastProcessedRule, ssid)
            THEN UNCHANGED <<lastProcessedRule, runs, client>>
            ELSE Begin(Null)
       [] OTHER ->
            /\ lastProcessedRule' = Null
            /\ UNCHANGED <<runs, client>>
  /\ UNCHANGED <<wifi, wifiInfo, launch, changes>>

(* The call run i awaits completes and the run goes on to its next await.  *)
RunResumes(i) ==
  LET run == runs[i]
      c   == Complete(run.plan[run.k], client)
  IN
  /\ Proceed(RemoveAt(runs, i), run, Advance(run.plan, run.k + 1, c, wifi.actions))
  /\ UNCHANGED <<wifi, wifiInfo, timers, launch, changes>>

(* IsCanAutoConnectForCurrentSSID: refuse only for a network configured as *)
(* trusted with "disconnect VPN" set.                                      *)
IsCanAutoConnectForCurrentSSID ==
  \/ ~wifi.trustedNetworksControl
  \/ wifiInfo.SSID = Null
  \/ ~(GetTrustRuleForConfiguredNetwork(wifiInfo.SSID, wifi.networks) = TRUE
       /\ wifi.actions.trustedDisconnectVpn)

(* The launch timer of the handshake: auto-connect if allowed, configured, *)
(* and disconnected (Connect is not awaited).                              *)
LaunchTimer ==
  /\ launch = "pending"
  /\ launch' = "done"
  /\ client' = IF AutoConnectOnLaunch /\ IsCanAutoConnectForCurrentSSID
                  /\ client.conn = "DISCONNECTED"
               THEN [client EXCEPT !.pause = "Resumed", !.conn = "CONNECTING"]
               ELSE client
  /\ UNCHANGED <<wifi, wifiInfo, lastProcessedRule, timers, runs, changes>>

(* Environment: the daemon reports the tunnel up (ConnectedResp), or the   *)
(* attempt failed (DisconnectedResp).                                      *)
TunnelResult(ok) ==
  /\ client.conn = "CONNECTING"
  /\ client' = IF ok THEN [client EXCEPT !.conn = "CONNECTED"] ELSE OnDisconnectedResp(client)
  /\ UNCHANGED <<wifi, wifiInfo, lastProcessedRule, timers, runs, launch, changes>>

(* Environment: the daemon drops the tunnel on its own (DisconnectedResp).  *)
TunnelDropped ==
  /\ client.conn = "CONNECTED"
  /\ client' = OnDisconnectedResp(client)
  /\ UNCHANGED <<wifi, wifiInfo, lastProcessedRule, timers, runs, launch, changes>>

Next ==
  \/ \E info \in WifiInfos : WiFiCurrentNetworkResp(info)
  \/ \E w \in WifiConfigs : SettingsWifi(w)
  \/ ProcessWifiChange
  \/ \E i \in 1..Len(runs) : RunResumes(i)
  \/ LaunchTimer
  \/ \E ok \in BOOLEAN : TunnelResult(ok)
  \/ TunnelDropped

Spec == Init /\ [][Next]_vars

-----------------------------------------------------------------------------
(* The rule a network is under, by the settings: its first configured      *)
(* entry, else the default trust status; null without trust control.       *)
RuleOf(ssid) ==
  IF ~wifi.trustedNetworksControl THEN Null
  ELSE LET k == SelectInSeq(wifi.networks, LAMBDA n : n.ssid = ssid) IN
       IF k # 0 THEN wifi.networks[k].isTrusted ELSE wifi.defaultTrusted

(* Nothing is pending: no timer, no suspended run, no tunnel in between.   *)
Quiet ==
  /\ timers = 0
  /\ runs = <<>>
  /\ client.conn \in {"DISCONNECTED", "CONNECTED"}

(* Once every network change has been processed, the client is in the     *)
(* state the current network's rule asks for: on a trusted network the     *)
(* VPN is down if "disconnect VPN" is set and the firewall off if "disable *)
(* firewall" is set (and it is not persistent); on an untrusted network    *)
(* the firewall is on if "enable firewall" is set, unless the client turns *)
(* the firewall off on every disconnect (firewallDeactivateOnDisconnect:   *)
(* then a tunnel that drops or fails after the rule ran leaves it off, and *)
(* nothing runs the rule again).                                           *)
QuietAgrees ==
  (Quiet /\ wifiInfo.SSID # Null) =>
    LET a == wifi.actions
        r == RuleOf(wifiInfo.SSID)
    IN /\ r = TRUE => /\ a.trustedDisconnectVpn => client.conn = "DISCONNECTED"
                      /\ a.trustedDisableFirewall /\ ~client.persistent => ~client.fw
       /\ r = FALSE => (a.unTrustedEnableFirewall /\ ~client.fwOffOnDisconnect => client.fw)

(* Once every network change has been processed, lastProcessedRule holds  *)
(* the current network and its rule whenever a trust rule applies to it:   *)
(* the memory that lets a repeated notification skip the rule never claims *)
(* a rule that was not applied, nor misses one that was.                   *)
RuleRecorded ==
  (Quiet /\ wifiInfo.SSID # Null /\ RuleOf(wifiInfo.SSID) # Null) =>
    lastProcessedRule = [SSID |-> wifiInfo.SSID, isTrusted |-> RuleOf(wifiInfo.SSID)]

=============================================================================
