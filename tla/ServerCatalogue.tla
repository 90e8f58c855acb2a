--------------------------- MODULE ServerCatalogue ---------------------------
(***************************************************************************)
(* The server catalogue of the UI store (src/ui/src/store/                 *)
(* module-vpn-state.js): the list 'state.servers.data', replaced by the    *)
(* 'servers' mutation (updateServers) when the daemon sends a server list, *)
(* updated in place by 'serversPingStatus' (updateServersPings) when a     *)
(* ping sweep ends, and read by the getter 'fastestServer', which Connect  *)
(* consults under the "fastest" policy.  The getter also reads the last    *)
(* real location (store/index.js, mutation 'location') and the settings'   *)
(* exclude list.                                                           *)
(*                                                                         *)
(* The location is written by GeoLookup (daemon-client/index.js), which    *)
(* processResponse schedules with requestGeoLookupAsync on ConnectedResp,  *)
(* DisconnectedResp and KillSwitchStatusResp.  GeoLookup bumps the lookup  *)
(* generation, marks both lookups in progress and commits a null location *)
(* and IPv6 location; the two doGeoLookup calls that would query the       *)
(* daemon are commented out, so nothing else is ever committed.            *)
(*                                                                         *)
(* A server is [gateway, flag, hosts, ping]; gateways, flags and hosts are *)
(* model values, a ping is a number and 0 stands for null (no ping).  A    *)
(* location is a model value; Dist[l][g] is the distance from l to the     *)
(* server of gateway g (getDistanceFromLatLonInKm).                        *)
(***************************************************************************)
EXTENDS Naturals, Sequences, SequencesExt

CONSTANTS
  Gateways,      \* gateway ids
  Flags,         \* flag ids (country flags; never equal to a gateway id)
  Hosts,         \* host addresses
  Lists,         \* server lists the daemon may send: Seq([gateway, flag, hosts])
  PingVals,      \* ping values a sweep may report (0 included)
  Locs,          \* locations the geo-lookup may report
  Dist,          \* Dist[l][g]: distance from location l to gateway g
  Null,          \* location = null
  VpnStates,     \* connectionState values: a set holding "DISCONNECTED", "CONNECTED"
  MaxUpdates,    \* bound on list replacements plus ping sweeps
  MaxEvents      \* bound on connection notifications

ASSUME Gateways \cap Flags = {}
ASSUME Dist \in [Locs -> [Gateways -> Nat]]
ASSUME 0 \in PingVals /\ PingVals \subseteq Nat
ASSUME {"DISCONNECTED", "CONNECTED"} \subseteq VpnStates

VARIABLES
  servers,           \* state.servers.data
  skip,              \* rootState.settings.serversFastestExcludeList
  updates,           \* list replacements and ping sweeps so far (bound only)
  last,              \* ghost: the input of the latest list or sweep
  connectionState,   \* vpnState.connectionState
  location,          \* state.location
  locationIPv6,      \* state.locationIPv6
  lastRealLocation,  \* state.lastRealLocation
  isRequestingLocation,
  isRequestingLocationIPv6,
  geoLookupLastRequestId,  \* _geoLookupLastRequestId
  geoTimers,         \* requestGeoLookupAsync timers not yet fired
  events             \* connection notifications so far (bound only)

catVars == <<servers, skip, updates, last>>
geoVars == <<connectionState, location, locationIPv6, lastRealLocation,
             isRequestingLocation, isRequestingLocationIPv6,
             geoLookupLastRequestId, geoTimers, events>>
vars == <<catVars, geoVars>>

Server == [gateway: Gateways, flag: Flags, hosts: Seq(Hosts), ping: PingVals]
PingResult == [Host: Hosts, Ping: PingVals]

(***************************************************************************)
(* updateServers                                                           *)
(***************************************************************************)

(* initNewServersAndCreateHash: every new server gets ping = null and is   *)
(* hashed under svr.flag (a later server with the same flag wins).         *)
Fresh(list) == [i \in DOMAIN list |-> [gateway |-> list[i].gateway, flag |-> list[i].flag,
                                        hosts |-> list[i].hosts, ping |-> 0]]

HashByFlag(list) ==
  [f \in {list[i].flag : i \in DOMAIN list} |->
     SelectLastInSeq(list, LAMBDA s : s.flag = f)]

(* copySvrsDataFromOld: every old server looks itself up in the hash by    *)
(* its gateway and, when found, passes its ping to the new server.         *)
CopySvrsDataFromOld(old, new, hash) ==
  FoldLeft(LAMBDA acc, o :
             IF o.gateway \in DOMAIN hash
             THEN [acc EXCEPT ![hash[o.gateway]].ping = o.ping]
             ELSE acc,
           new, old)

UpdateServers(old, list) ==
  LET new == Fresh(list) IN CopySvrsDataFromOld(old, new, HashByFlag(new))

(***************************************************************************)
(* updateServersPings                                                      *)
(***************************************************************************)

(* hashedPings[Host] = Ping, a later result for a host overwriting an      *)
(* earlier one.                                                            *)
HashPings(pings) ==
  [h \in {pings[i].Host : i \in DOMAIN pings} |->
     pings[SelectLastInSeq(pings, LAMBDA r : r.Host = h)].Ping]

(* funcGetPing with the null test dropped: the ping of the first host is   *)
(* assigned whether or not the sweep reported it (undefined reads as null). *)
PingForNoNullCheck(hosts, hp, ping) ==
  IF hosts # <<>>
  THEN IF hosts[1] \in DOMAIN hp THEN hp[hosts[1]] ELSE 0
  ELSE ping

(* funcGetPing: the first host of the server with a reported ping gives    *)
(* the server its ping (a reported 0 included: 0 != null); a server none   *)
(* of whose hosts was reported keeps its ping.                             *)
RECURSIVE PingFor(_, _, _)
PingFor(hosts, hp, ping) ==
  IF hosts = <<>> THEN ping
  ELSE IF Head(hosts) \in DOMAIN hp THEN hp[Head(hosts)]
  ELSE PingFor(Tail(hosts), hp, ping)

UpdateServersPings(svrs, pings) ==
  LET hp == HashPings(pings) IN
  [i \in DOMAIN svrs |-> [svrs[i] EXCEPT !.ping = PingFor(svrs[i].hosts, hp, @)]]

(***************************************************************************)
(* The getter fastestServer, as the index of the server it returns (0 for  *)
(* null).                                                                  *)
(***************************************************************************)

(* The first loop with the fallback taken before the exclude-list test.    *)
RECURSIVE PingLoopFallbackFirst(_, _, _, _, _)
PingLoopFallbackFirst(svrs, sk, i, ret, fb) ==
  IF i > Len(svrs) THEN <<ret, fb>>
  ELSE LET fb2 == IF fb = 0 THEN i ELSE fb IN
       IF svrs[i].gateway \in sk THEN PingLoopFallbackFirst(svrs, sk, i + 1, ret, fb2)
       ELSE PingLoopFallbackFirst(svrs, sk, i + 1,
              IF svrs[i].ping > 0 /\ (ret = 0 \/ svrs[ret].ping > svrs[i].ping)
              THEN i ELSE ret, fb2)

(* The first loop with the 'curSvr.ping > 0' test dropped.                 *)
RECURSIVE PingLoopAnyPing(_, _, _, _, _)
PingLoopAnyPing(svrs, sk, i, ret, fb) ==
  IF i > Len(svrs) THEN <<ret, fb>>
  ELSE IF svrs[i].gateway \in sk THEN PingLoopAnyPing(svrs, sk, i + 1, ret, fb)
  ELSE PingLoopAnyPing(svrs, sk, i + 1,
         IF ret = 0 \/ svrs[ret].ping > svrs[i].ping THEN i ELSE ret,
         IF fb = 0 THEN i ELSE fb)

(* The first loop: skip excluded servers; the first other one is the       *)
(* fallback; retSvr is the first server of least positive ping.            *)
RECURSIVE PingLoop(_, _, _, _, _)
PingLoop(svrs, sk, i, ret, fb) ==
  IF i > Len(svrs) THEN <<ret, fb>>
  ELSE IF svrs[i].gateway \in sk THEN PingLoop(svrs, sk, i + 1, ret, fb)
  ELSE PingLoop(svrs, sk, i + 1,
         IF svrs[i].ping > 0 /\ (ret = 0 \/ svrs[ret].ping > svrs[i].ping)
         THEN i ELSE ret,
         IF fb = 0 THEN i ELSE fb)

(* The nearest-server loop.  It runs over the indices of the copy sorted   *)
(* by distance, but reads curSvr = servers[i], the unsorted list: the      *)
(* first server not excluded, whatever the distances.  The sorted copy has *)
(* the same length as the list, and nothing else of it is read.            *)
NearestLoop(svrs, sk) ==
  SelectInSeq(svrs, LAMBDA s : s.gateway \notin sk)

FastestServer(svrs, sk, loc) ==
  IF svrs = <<>> THEN 0
  ELSE LET r == PingLoop(svrs, sk, 1, 0, 0) IN
       IF r[1] # 0 THEN r[1]
       ELSE LET near == IF loc # Null THEN NearestLoop(svrs, sk) ELSE 0 IN
            IF near # 0 THEN near ELSE r[2]

Fastest == FastestServer(servers, skip, lastRealLocation)

-----------------------------------------------------------------------------

TypeOK ==
  /\ servers \in Seq(Server)
  /\ skip \in SUBSET Gateways
  /\ updates \in 0..MaxUpdates
  /\ last \in [op: {"none", "list", "pings"}, arg: Seq(PingResult) \cup Lists]
  /\ connectionState \in VpnStates
  /\ {location, locationIPv6, lastRealLocation} \subseteq Locs \cup {Null}
  /\ isRequestingLocation \in BOOLEAN
  /\ isRequestingLocationIPv6 \in BOOLEAN
  /\ geoLookupLastRequestId \in 0..MaxEvents
  /\ geoTimers \in 0..MaxEvents
  /\ events \in 0..MaxEvents

Init ==
  /\ servers = <<>>
  /\ skip \in SUBSET Gateways
  /\ updates = 0
  /\ last = [op |-> "none", arg |-> <<>>]
  /\ connectionState = "DISCONNECTED"
  /\ location = Null
  /\ locationIPv6 = Null
  /\ lastRealLocation = Null
  /\ isRequestingLocation = FALSE
  /\ isRequestingLocationIPv6 = FALSE
  /\ geoLookupLastRequestId = 0
  /\ geoTimers = 0
  /\ events = 0

(* ServerListResp: the action 'servers' commits the new list.              *)
ServersArrive(list) ==
  /\ updates < MaxUpdates
  /\ updates' = updates + 1
  /\ servers' = UpdateServers(servers, list)
  /\ last' = [op |-> "list", arg |-> list]
  /\ UNCHANGED <<skip, geoVars>>

(* PingServersResp: mutation 'serversPingStatus' with the sweep's results. *)
PingsArrive(pings) ==
  /\ updates < MaxUpdates
  /\ updates' = updates + 1
  /\ servers' = UpdateServersPings(servers, pings)
  /\ last' = [op |-> "pings", arg |-> pings]
  /\ UNCHANGED <<skip, geoVars>>

(* The user edits the exclude list in the settings.                        *)
SetExcludeList(s) ==
  /\ skip' = s
  /\ UNCHANGED <<servers, updates, last, geoVars>>

(* A connection notification, bounded by MaxEvents.                        *)
Notification ==
  /\ events < MaxEvents
  /\ events' = events + 1

(* requestGeoLookupAsync: GeoLookup is put on a 0 ms timer.                *)
RequestGeoLookup == geoTimers' = geoTimers + 1

(* ConnectedResp: the action connectionInfo makes the state CONNECTED;     *)
(* unless the connection is paused (then ApplyPauseConnection runs, see    *)
(* ControlFlows) a geo-lookup is requested.                                *)
ConnectedResp(paused) ==
  /\ Notification
  /\ connectionState' = "CONNECTED"
  /\ IF paused THEN UNCHANGED geoTimers ELSE RequestGeoLookup
  /\ UNCHANGED <<catVars, location, locationIPv6, lastRealLocation,
                 isRequestingLocation, isRequestingLocationIPv6, geoLookupLastRequestId>>

(* DisconnectedResp: mutations 'disconnected' and 'connectionState'       *)
(* DISCONNECTED (after the firewall is turned off, if so configured), then *)
(* a geo-lookup is requested.                                              *)
DisconnectedResp ==
  /\ Notification
  /\ connectionState' = "DISCONNECTED"
  /\ RequestGeoLookup
  /\ UNCHANGED <<catVars, location, locationIPv6, lastRealLocation,
                 isRequestingLocation, isRequestingLocationIPv6, geoLookupLastRequestId>>

(* VpnStateResp: the daemon reports an intermediate or final state.        *)
VpnStateResp(st) ==
  /\ Notification
  /\ connectionState' = st
  /\ UNCHANGED <<catVars, location, locationIPv6, lastRealLocation, isRequestingLocation,
                 isRequestingLocationIPv6, geoLookupLastRequestId, geoTimers>>

(* KillSwitchStatusResp: with no location known while disconnected, a      *)
(* geo-lookup is requested.                                                *)
KillSwitchStatusResp ==
  /\ Notification
  /\ IF location = Null /\ connectionState = "DISCONNECTED"
     THEN RequestGeoLookup ELSE UNCHANGED geoTimers
  /\ UNCHANGED <<catVars, connectionState, location, locationIPv6, lastRealLocation,
                 isRequestingLocation, isRequestingLocationIPv6, geoLookupLastRequestId>>

(* Store mutation 'location': the real location is kept only while the    *)
(* getter vpnState/isConnected is false.  Given the committed value and    *)
(* the lastRealLocation before it, the lastRealLocation after it.          *)
LocationMutation(geo, lrl) ==
  IF connectionState = "CONNECTED" THEN lrl ELSE geo

(* Store mutation 'locationIPv6': as 'location', and only when no IPv4     *)
(* location is known (loc is state.location at the time of the commit).    *)
LocationIPv6Mutation(geo, loc, lrl) ==
  IF connectionState # "CONNECTED" /\ loc = Null THEN geo ELSE lrl

(* The timer fires and GeoLookup runs: new generation, both lookups marked *)
(* in progress, then the commits 'location' and 'locationIPv6' with null,  *)
(* in that order.  No lookup is started.                                   *)
GeoLookup ==
  /\ geoTimers > 0
  /\ geoTimers' = geoTimers - 1
  /\ geoLookupLastRequestId' = geoLookupLastRequestId + 1
  /\ isRequestingLocation' = TRUE
  /\ isRequestingLocationIPv6' = TRUE
  /\ location' = Null
  /\ locationIPv6' = Null
  /\ lastRealLocation' =
       LocationIPv6Mutation(Null, Null, LocationMutation(Null, lastRealLocation))
  /\ UNCHANGED <<catVars, connectionState, events>>

PingSweeps == UNION {[1..n -> PingResult] : n \in 0..2}

Next ==
  \/ \E list \in Lists : ServersArrive(list)
  \/ \E pings \in PingSweeps : PingsArrive(pings)
  \/ \E s \in SUBSET Gateways : SetExcludeList(s)
  \/ \E paused \in BOOLEAN : ConnectedResp(paused)
  \/ DisconnectedResp
  \/ \E st \in VpnStates : VpnStateResp(st)
  \/ KillSwitchStatusResp
  \/ GeoLookup

(* A timer that is due fires: the event loop is not blocked forever.       *)
Spec == Init /\ [][Next]_vars /\ WF_vars(GeoLookup)

-----------------------------------------------------------------------------
(* Reference sets for the getter: the servers it may pick from, and those *)
(* with a positive ping.                                                   *)
Eligible == {i \in DOMAIN servers : servers[i].gateway \notin skip}
Pinged == {i \in Eligible : servers[i].ping > 0}

(* fastestServer never returns a server of the exclude list, and returns   *)
(* null only when every server is excluded (spec 3, Connect: "excluding an *)
(* explicit skip-list", "else the first eligible server").                *)
FastestNotExcluded ==
  /\ Fastest # 0 => servers[Fastest].gateway \notin skip
  /\ Fastest = 0 <=> Eligible = {}

(* Whenever some eligible server has a positive ping, fastestServer        *)
(* returns one of least ping, however pings and list replacements were     *)
(* interleaved before: a server that answered with ping 0 or was never     *)
(* pinged does not count.                                                  *)
FastestByPing ==
  Pinged # {} => Fastest \in {i \in Pinged : \A j \in Pinged :
                                servers[i].ping <= servers[j].ping}

(* A geo-lookup that is marked in progress eventually ends, with a         *)
(* location or with none (spec 4.6: GeoLookup "give[s] up silently after   *)
(* exhausting retries").                                                   *)
GeoLookupSettles ==
  isRequestingLocation ~> ~isRequestingLocation

(* A ping sweep changes the ping of exactly the servers one of whose hosts *)
(* it reports, each to a value reported for one of its hosts; the others   *)
(* keep their ping.                                                        *)
PingResultsApplied ==
  [][updates' = updates + 1 /\ last'.op = "pings" =>
       LET pings == last'.arg IN
         \A i \in DOMAIN servers :
           LET hit == {h \in ToSet(servers[i].hosts) : \E k \in DOMAIN pings : pings[k].Host = h}
           IN /\ hit = {} => servers'[i].ping = servers[i].ping
              /\ hit # {} => \E k \in DOMAIN pings :
                               pings[k].Host \in hit /\ servers'[i].ping = pings[k].Ping]_vars

(* A server list replacing the catalogue keeps the ping measured for a     *)
(* server that is still in the list (spec 4.5: "preserving any previously *)
(* measured ping/quality values for servers that still exist"; the code's *)
(* comment: "hash by gateway id").                                         *)
PingsPreserved ==
  [][updates' = updates + 1 /\ last'.op = "list" =>
       LET list == last'.arg IN
         \A i \in DOMAIN servers, j \in DOMAIN list :
           (servers[i].gateway = list[j].gateway
            /\ \A k \in DOMAIN servers : servers[k].gateway = servers[i].gateway => k = i)
             => servers'[j].ping = servers[i].ping]_vars

=============================================================================
