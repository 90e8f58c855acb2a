------------------------------- MODULE MC_Wire -------------------------------
(***************************************************************************)
(* The wire format of the daemon client, both directions: the outbound    *)
(* encoding of a request by send (NumericBridge, toJson) and the inbound  *)
(* framing of responses (FrameCodec, onDataReceived).  The handshake     *)
(* orders them: the client writes the Hello, carrying the BigInt secret,  *)
(* on connect, and the daemon writes nothing before it has read one.      *)
(***************************************************************************)
EXTENDS FrameCodec, NumericBridge

(* The BigInt the client sends: the Hello secret, BigInt(`0x${secret}`),  *)
(* rendered in decimal: one- and two-digit renderings.                     *)
MCBigInts == {<<"1">>, <<"1", "1">>}

wireVars == <<vars, bridgeVars>>

WireInit == Init /\ BridgeInit

(* The daemon has read a Hello on the connection.                         *)
HelloWritten == sendResult = "exact"

WireNext ==
  \/ BridgeNext /\ UNCHANGED vars
  \/ Next /\ HelloWritten /\ UNCHANGED bridgeVars

WireSpec == WireInit /\ [][WireNext]_wireVars

=============================================================================
