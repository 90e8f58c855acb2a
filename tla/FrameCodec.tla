----------------------------- MODULE FrameCodec -----------------------------
(***************************************************************************)
(* Inbound framing of the daemon client (src/ui/src/daemon-client/        *)
(* index.js, onDataReceived): the socket hands over byte chunks of any     *)
(* size; each chunk is decoded to text on its own (Buffer.toString, UTF-8) *)
(* and split on '\n'; the module-level 'receivedBuffer' keeps the          *)
(* unterminated tail for the next chunk.                                   *)
(*                                                                         *)
(* Text is a sequence of characters: "A" stands for any one-byte (ASCII)   *)
(* character, "U" for any two-byte UTF-8 character, "NL" for '\n' and     *)
(* "FFFD" for the replacement character the decoder produces for a byte    *)
(* sequence it cannot decode.  Bytes: "A", "NL", and "U1" "U2", the lead  *)
(* and continuation bytes of "U".                                          *)
(*                                                                         *)
(* The daemon writes whole frames, each followed by '\n'.  A reconnect     *)
(* (ConnectToDaemon) replaces the socket: undelivered bytes are lost and   *)
(* a new stream starts; 'receivedBuffer' is a module variable and is not   *)
(* touched.                                                                *)
(***************************************************************************)
EXTENDS Naturals, Sequences, SequencesExt

CONSTANTS
  Chars,          \* characters frames are made of: a subset of {"A", "U"}
  FrameLen,       \* longest frame, in characters
  MaxFrames,      \* frames the daemon writes per connection
  MaxReconnect,   \* connections replaced
  CloseMidFrame   \* may a connection be replaced with bytes undelivered?

ASSUME Chars \subseteq {"A", "U"} /\ Chars # {}
ASSUME CloseMidFrame \in BOOLEAN

VARIABLES
  wire,            \* bytes written by the daemon, not yet delivered
  receivedBuffer,  \* let receivedBuffer
  sent,            \* frames the daemon wrote on the current connection
  decoded,         \* frames passed to processResponse on this connection
  reconnects

vars == <<wire, receivedBuffer, sent, decoded, reconnects>>

Frames == UNION {[1..n -> Chars] : n \in 1..FrameLen}
Text == Seq({"A", "U", "NL", "FFFD"})
Bytes == {"A", "U1", "U2", "NL"}

(* UTF-8 encoding of a character.                                          *)
Encode(c) == CASE c = "A" -> <<"A">> [] c = "U" -> <<"U1", "U2">> [] c = "NL" -> <<"NL">>

(* Writing a frame: JSON text followed by '\n'.                            *)
FrameBytes(f) == FoldLeft(LAMBDA acc, c : acc \o Encode(c), <<>>, f) \o <<"NL">>

(* Buffer.toString(): UTF-8 decoding of one chunk on its own.  A lead byte *)
(* not followed by its continuation byte, and a continuation byte with no *)
(* lead byte before it, each decode to U+FFFD.                             *)
RECURSIVE Decode(_)
Decode(bs) ==
  IF bs = <<>> THEN <<>>
  ELSE IF Head(bs) = "A" THEN <<"A">> \o Decode(Tail(bs))
  ELSE IF Head(bs) = "NL" THEN <<"NL">> \o Decode(Tail(bs))
  ELSE IF Head(bs) = "U1" /\ Len(bs) >= 2 /\ bs[2] = "U2"
       THEN <<"U">> \o Decode(Tail(Tail(bs)))
  ELSE <<"FFFD">> \o Decode(Tail(bs))

(* String.split("\n"): n separators give n + 1 pieces, empty ones kept.    *)
RECURSIVE Split(_)
Split(t) ==
  IF t = <<>> THEN <<<<>>>>
  ELSE LET rest == Split(Tail(t)) IN
       IF Head(t) = "NL" THEN <<<<>>>> \o rest
       ELSE <<<<Head(t)>> \o Head(rest)>> \o Tail(rest)

(* One run of onDataReceived over a chunk with the buffer 'buf': the       *)
(* complete frames it passes to processResponse, and the buffer after it.  *)
(* Every piece but the last closes a frame (the first one prefixed with    *)
(* the buffer, which is then cleared); empty frames are skipped; a         *)
(* non-empty last piece is appended to the buffer.                         *)
OnDataReceivedNoAppend(buf, chunk) ==
  LET pieces == Split(Decode(chunk))
      n      == Len(pieces)
      whole  == [j \in 1..n - 1 |-> IF j = 1 THEN buf \o pieces[1] ELSE pieces[j]]
      bufMid == IF n > 1 THEN <<>> ELSE buf
  IN  <<SelectSeq(whole, LAMBDA r : r # <<>>),
        IF pieces[n] # <<>> THEN pieces[n] ELSE bufMid>>

OnDataReceived(buf, chunk) ==
  LET pieces == Split(Decode(chunk))
      n      == Len(pieces)
      whole  == [j \in 1..n - 1 |-> IF j = 1 THEN buf \o pieces[1] ELSE pieces[j]]
      bufMid == IF n > 1 THEN <<>> ELSE buf
  IN  <<SelectSeq(whole, LAMBDA r : r # <<>>),
        IF pieces[n] # <<>> THEN bufMid \o pieces[n] ELSE bufMid>>

TypeOK ==
  /\ wire \in Seq(Bytes)
  /\ receivedBuffer \in Text
  /\ sent \in Seq(Frames)
  /\ decoded \in Seq(Text)
  /\ reconnects \in 0..MaxReconnect

Init ==
  /\ wire = <<>>
  /\ receivedBuffer = <<>>
  /\ sent = <<>>
  /\ decoded = <<>>
  /\ reconnects = 0

(* Environment: the daemon writes one frame.                               *)
DaemonWrite(f) ==
  /\ Len(sent) < MaxFrames
  /\ sent' = Append(sent, f)
  /\ wire' = wire \o FrameBytes(f)
  /\ UNCHANGED <<receivedBuffer, decoded, reconnects>>

(* The socket's 'data' event with the first k undelivered bytes.           *)
DataReceived(k) ==
  LET r == OnDataReceived(receivedBuffer, SubSeq(wire, 1, k)) IN
  /\ wire' = SubSeq(wire, k + 1, Len(wire))
  /\ decoded' = decoded \o r[1]
  /\ receivedBuffer' = r[2]
  /\ UNCHANGED <<sent, reconnects>>

(* ConnectToDaemon: destroy the socket, open a new one.                    *)
Reconnect ==
  /\ reconnects < MaxReconnect
  /\ CloseMidFrame \/ wire = <<>>
  /\ reconnects' = reconnects + 1
  /\ wire' = <<>>
  /\ sent' = <<>>
  /\ decoded' = <<>>
  /\ UNCHANGED receivedBuffer

Next ==
  \/ \E f \in Frames : DaemonWrite(f)
  \/ \E k \in 1..Len(wire) : DataReceived(k)
  \/ Reconnect

Spec == Init /\ [][Next]_vars

-----------------------------------------------------------------------------
(* Reassembly invariance (spec 8): however the byte stream of a connection *)
(* is cut into chunks by the socket, onDataReceived passes to              *)
(* processResponse exactly the frames the daemon wrote on that connection, *)
(* in order, and all of them once every written byte has been delivered.   *)
ReassemblyInvariance ==
  /\ IsPrefix(decoded, sent)
  /\ wire = <<>> => decoded = sent

=============================================================================
