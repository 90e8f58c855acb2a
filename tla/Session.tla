------------------------------- MODULE Session -------------------------------
(***************************************************************************)
(* Connection lifecycle and handshake of the daemon client                *)
(* (src/ui/src/daemon-client/index.js, ConnectToDaemon and the handlers it *)
(* installs on the socket).                                                *)
(*                                                                         *)
(* Each call of ConnectToDaemon is an attempt; attempt a creates socket a. *)
(* The module variable 'socket' points at one socket or is null; the       *)
(* 'close' and 'error' handlers write that module variable, whichever      *)
(* socket they were installed on.  The Hello exchange is abstracted to its *)
(* outcomes (reply from a current or an outdated daemon, ErrorResp, the    *)
(* 10 s timeout); WaiterRegistry models the correlation itself.            *)
(*                                                                         *)
(* Event-loop order: socket.destroy() delivers 'close' in the close phase  *)
(* of the current loop iteration, before any I/O event of another socket;  *)
(* the continuation after 'await GetPortInfoFilePath()' may run before or  *)
(* after it.                                                               *)
(***************************************************************************)
EXTENDS Naturals, FiniteSets

CONSTANTS
  MaxAttempts,  \* calls of ConnectToDaemon
  Null,         \* socket == null
  Overlapping   \* may a call start before the previous one settled?

ASSUME Overlapping \in BOOLEAN

Ids == 1..MaxAttempts

VARIABLES
  socket,       \* let socket
  sock,         \* sock[s]: life of socket s
  pc,           \* pc[a]: where attempt a is
  helloOn,      \* helloOn[a]: the socket attempt a wrote its Hello on
  result,       \* result[a]: the promise ConnectToDaemon returned
  connState,    \* store.state.daemonConnectionState
  oldVersion,   \* store.state.daemonIsOldVersionError
  daemonIsOld   \* the daemon's version is below MinRequiredDaemonVer

vars == <<socket, sock, pc, helloOn, result, connState, oldVersion, daemonIsOld>>

SockStates == {"unused", "connecting", "open", "erroring", "destroyed", "closing", "closed"}
PcStates == {"idle", "portfile", "wait_connect", "hello", "hello_unreleased", "servers", "done"}

TypeOK ==
  /\ socket \in Ids \cup {Null}
  /\ sock \in [Ids -> SockStates]
  /\ pc \in [Ids -> PcStates]
  /\ helloOn \in [Ids -> Ids \cup {Null}]
  /\ result \in [Ids -> {"none", "pending", "resolved", "rejected"}]
  /\ connState \in {"null", "NotConnected", "Connecting", "Connected"}
  /\ oldVersion \in BOOLEAN
  /\ daemonIsOld \in BOOLEAN

Init ==
  /\ socket = Null
  /\ sock = [s \in Ids |-> "unused"]
  /\ pc = [a \in Ids |-> "idle"]
  /\ helloOn = [a \in Ids |-> Null]
  /\ result = [a \in Ids |-> "none"]
  /\ connState = "null"
  /\ oldVersion = FALSE
  /\ daemonIsOld \in BOOLEAN

(* A promise settles once.                                                 *)
Settle(a, r) == result' = [result EXCEPT ![a] = IF @ = "pending" THEN r ELSE @]

(* socket.destroy() on the socket the module variable points at.           *)
DestroyCurrent ==
  IF socket # Null /\ sock[socket] \in {"connecting", "open", "erroring"}
  THEN sock' = [sock EXCEPT ![socket] = "destroyed"]
  ELSE sock' = sock

(* No destroyed socket still owes its 'close' event: I/O events of other   *)
(* sockets come after it.                                                  *)
IoPhase(s) == \A t \in Ids \ {s} : sock[t] # "destroyed"

(* ConnectToDaemon up to 'await GetPortInfoFilePath()': destroy the        *)
(* current socket and drop the reference.  The callers are not in src/:    *)
(* with Overlapping = FALSE each call waits until the previous one settled. *)
ConnectToDaemon(a) ==
  /\ pc[a] = "idle"
  /\ \A b \in 1..(a - 1) : pc[b] # "idle" /\ (Overlapping \/ result[b] # "pending")
  /\ DestroyCurrent
  /\ socket' = Null
  /\ pc' = [pc EXCEPT ![a] = "portfile"]
  /\ result' = [result EXCEPT ![a] = "pending"]
  /\ UNCHANGED <<helloOn, connState, oldVersion, daemonIsOld>>

(* The port file cannot be read or parsed: the attempt throws.             *)
PortInfoFailed(a) ==
  /\ pc[a] = "portfile"
  /\ pc' = [pc EXCEPT ![a] = "done"]
  /\ Settle(a, "rejected")
  /\ UNCHANGED <<socket, sock, helloOn, connState, oldVersion, daemonIsOld>>

(* The port file is read: the promise executor creates socket a, installs  *)
(* the handlers, and calls socket.connect (vpnState is reset to            *)
(* DISCONNECTED on the way, a store write no property here reads).         *)
PortInfoRead(a) ==
  /\ pc[a] = "portfile"
  /\ socket' = a
  /\ sock' = [sock EXCEPT ![a] = "connecting"]
  /\ pc' = [pc EXCEPT ![a] = "wait_connect"]
  /\ UNCHANGED <<helloOn, result, connState, oldVersion, daemonIsOld>>

(* The 'connect' handler of socket a, up to 'await sendRecv(hello)': the   *)
(* server-list waiter is added, the state becomes Connecting, and the      *)
(* Hello is written on whatever socket the module variable points at; if   *)
(* it is null, sendRecv rejects at once and the catch rejects the attempt. *)
SocketConnected(a) ==
  /\ sock[a] = "connecting"
  /\ IoPhase(a)
  /\ sock' = [sock EXCEPT ![a] = "open"]
  /\ connState' = "Connecting"
  /\ IF socket = Null
     THEN /\ pc' = [pc EXCEPT ![a] = "done"]
          /\ Settle(a, "rejected")
          /\ UNCHANGED helloOn
     ELSE /\ pc' = [pc EXCEPT ![a] = "hello"]
          /\ helloOn' = [helloOn EXCEPT ![a] = socket]
          /\ UNCHANGED result
  /\ UNCHANGED <<socket, oldVersion, daemonIsOld>>

(* Environment: the connection is refused or reset (an 'error' follows),   *)
(* or the daemon closes it.                                                *)
SocketFails(s) ==
  /\ sock[s] \in {"connecting", "open"}
  /\ IoPhase(s)
  /\ sock' = [sock EXCEPT ![s] = "erroring"]
  /\ UNCHANGED <<socket, pc, helloOn, result, connState, oldVersion, daemonIsOld>>

DaemonCloses(s) ==
  /\ sock[s] = "open"
  /\ IoPhase(s)
  /\ sock' = [sock EXCEPT ![s] = "closing"]
  /\ UNCHANGED <<socket, pc, helloOn, result, connState, oldVersion, daemonIsOld>>

(* The 'error' handler of socket s: reject attempt s, null the module      *)
(* variable; Node emits 'close' right after it in the same tick, so the    *)
(* 'close' handler runs too: NotConnected, null the module variable.       *)
ErrorEvent(s) ==
  /\ sock[s] = "erroring"
  /\ IoPhase(s)
  /\ sock' = [sock EXCEPT ![s] = "closed"]
  /\ socket' = Null
  /\ connState' = "NotConnected"
  /\ Settle(s, "rejected")
  /\ UNCHANGED <<pc, helloOn, oldVersion, daemonIsOld>>

(* The 'close' handler of socket s: NotConnected, null the module variable.*)
CloseEvent(s) ==
  /\ sock[s] \in {"destroyed", "closing"}
  /\ sock[s] = "closing" => IoPhase(s)
  /\ sock' = [sock EXCEPT ![s] = "closed"]
  /\ connState' = "NotConnected"
  /\ socket' = Null
  /\ UNCHANGED <<pc, helloOn, result, oldVersion, daemonIsOld>>

(* The daemon answers the Hello of attempt a with HelloResp, and          *)
(* processResponse runs its HelloResp branch: it records whether the       *)
(* version is below MinRequiredDaemonVer.  For an outdated daemon it       *)
(* returns there, before the waiter loop, so the Hello waiter stays        *)
(* pending until its 10 s timer.  Otherwise the waiter resolves and the    *)
(* continuation reads daemonIsOldVersionError, now FALSE, so it never      *)
(* takes its disconnectDaemonFunc branch and waits for the server list.    *)
HelloResp(a) ==
  /\ pc[a] = "hello"
  /\ sock[helloOn[a]] = "open"
  /\ IoPhase(helloOn[a])
  /\ oldVersion' = daemonIsOld
  /\ pc' = [pc EXCEPT ![a] = IF daemonIsOld THEN "hello_unreleased" ELSE "servers"]
  /\ UNCHANGED <<socket, sock, helloOn, result, connState, daemonIsOld>>

(* The Hello fails: the daemon answers ErrorResp, or the 10 s timer fires *)
(* (the only way out once an outdated daemon's reply was dropped).  The    *)
(* catch only rejects the attempt.                                         *)
HelloFailed(a) ==
  /\ pc[a] \in {"hello", "hello_unreleased"}
  /\ pc' = [pc EXCEPT ![a] = "done"]
  /\ Settle(a, "rejected")
  /\ UNCHANGED <<socket, sock, helloOn, connState, oldVersion, daemonIsOld>>

(* The server-list waiter resolves or times out (11 s): the state becomes  *)
(* Connected, the two preferences are sent, auto-connect is scheduled      *)
(* (ControlFlows), and the attempt resolves.                               *)
ServersAwaitedNoResolve(a) ==
  /\ pc[a] = "servers"
  /\ pc' = [pc EXCEPT ![a] = "done"]
  /\ connState' = "Connected"
  /\ UNCHANGED <<socket, sock, helloOn, result, oldVersion, daemonIsOld>>

ServersAwaited(a) ==
  /\ pc[a] = "servers"
  /\ pc' = [pc EXCEPT ![a] = "done"]
  /\ connState' = "Connected"
  /\ Settle(a, "resolved")
  /\ UNCHANGED <<socket, sock, helloOn, oldVersion, daemonIsOld>>

Next ==
  \E a \in Ids :
    \/ ConnectToDaemon(a)
    \/ PortInfoFailed(a)
    \/ PortInfoRead(a)
    \/ SocketConnected(a)
    \/ SocketFails(a)
    \/ DaemonCloses(a)
    \/ ErrorEvent(a)
    \/ CloseEvent(a)
    \/ HelloResp(a)
    \/ HelloFailed(a)
    \/ ServersAwaited(a)

(* The event loop runs every callback, timer and continuation that becomes *)
(* due; a socket being connected ends up connected or refused.  Nothing    *)
(* forces the daemon to answer (its silence ends in the Hello timeout),    *)
(* the port file to be missing, or the caller to call ConnectToDaemon.     *)
Fairness ==
  \A a \in Ids :
    /\ WF_vars(PortInfoRead(a))
    /\ WF_vars(SocketConnected(a) \/ SocketFails(a))
    /\ WF_vars(ErrorEvent(a))
    /\ WF_vars(CloseEvent(a))
    /\ WF_vars(HelloFailed(a))
    /\ WF_vars(ServersAwaited(a))

Spec == Init /\ [][Next]_vars /\ Fairness

-----------------------------------------------------------------------------
(* Properties                                                              *)

(* An attempt whose socket connected ends: its promise resolves or rejects *)
(* (Hello reply, ErrorResp or timeout; server list or its timeout).        *)
HandshakeEnds ==
  \A a \in Ids : (sock[a] = "open") ~> (result[a] # "pending")

(* At most one connection is live, and it is the one the module variable   *)
(* refers to (spec 3: "exactly one live Connection"; every request is      *)
(* written on 'socket').                                                   *)
LiveConnectionReferenced ==
  \A s \in Ids : sock[s] \in {"connecting", "open"} => socket = s

(* The client reports Connected only while it holds an open socket to the *)
(* daemon: the handshake continuation that sets Connected must not outlive *)
(* the socket it handshook on ('error'/'close' during the server-list      *)
(* wait).                                                                  *)
ConnectedHasSocket ==
  connState = "Connected" => socket # Null /\ sock[socket] = "open"

(* A failed handshake tears the transport down (spec 4.4 step 5: "tear    *)
(* down the transport, transition to NotConnected"): an attempt that has   *)
(* ended rejected leaves its socket neither connecting nor open.           *)
FailedAttemptReleasesSocket ==
  \A a \in Ids :
    pc[a] = "done" /\ result[a] = "rejected" => sock[a] \notin {"connecting", "open"}

=============================================================================
