------------------------- MODULE MC_WaiterRegistry -------------------------
(* Instance of WaiterRegistry for TLC.  Two response commands: PlainResp,  *)
(* the direct reply of a request awaited by index only (AccountStatus,     *)
(* KillSwitchSetEnabled, ...), and ListResp, the reply of a request that   *)
(* also waits on its command (PingServers, SplitTunnelGetStatus,           *)
(* Disconnect), which the daemon may push as a notification as well.  The  *)
(* Hello handshake's bare server-list waiter listens on ListResp.          *)
EXTENDS WaiterRegistry

CONSTANTS PlainResp, ListResp

MCCmds == {PlainResp, ListResp}

MCCalls == {[reply |-> PlainResp, list |-> {}],
            [reply |-> ListResp, list |-> {ListResp}]}

MCBareLists == {{ListResp}}

=============================================================================
