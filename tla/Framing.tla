------------------------------ MODULE Framing ------------------------------
(***************************************************************************)
(* From bytes to commands: the data handler of network/TcpServer.ts, with  *)
(* the readers of domain/protocol/BinaryProtocol.ts and the parser of      *)
(* domain/protocol/Commands.ts.                                            *)
(*                                                                         *)
(* A client sends a version byte and then packets, each behind its length  *)
(* (ULEB128).  TCP cuts this stream where it likes: the handler is called  *)
(* with any number of bytes, appends them to its buffer and takes out the  *)
(* packets that are complete.  Connection limits, PROXY headers and        *)
(* heartbeats are in Connections.                                          *)
(***************************************************************************)
EXTENDS Integers, Sequences, SequencesExt

CONSTANTS
    Bytes,         \* the bytes the client sends
    MaxPacketSize, \* MAX_PACKET_SIZE
    MaxStream      \* bound: bytes sent

ASSUME BytesAssumption == Bytes \subseteq 0 .. 255
ASSUME SizesAssumption == MaxPacketSize \in Nat /\ MaxStream \in Nat

VARIABLES
    stream,   \* the bytes received so far, in order
    version,  \* <<>>, or the version byte
    buffer,   \* state.buffer
    open,     \* the socket is not destroyed
    handled   \* the commands passed on or answered, in order

vars == <<stream, version, buffer, open, handled>>

Init ==
    /\ stream = <<>>
    /\ version = <<>>
    /\ buffer = <<>>
    /\ open = TRUE
    /\ handled = <<>>

From(s, i) == SubSeq(s, i, Len(s))

-----------------------------------------------------------------------------
(* ULEB128: seven bits a byte, the lowest first; the eighth says that more *)
(* follow.                                                                 *)
More(b) == b >= 128

(* The length of the ULEB at the front of s, or 0 if its end is not there. *)
UlebBytes(s) == SelectInSeq(s, LAMBDA b : ~More(b))

(* The value of these digits, the last one first. *)
Value(digits) ==
    LET high[n \in 0 .. Len(digits)] ==
            IF n = 0 THEN 0 ELSE digits[Len(digits) + 1 - n] + 128 * high[n - 1]
    IN  high[Len(digits)]

(* BinaryReader.uleb counts without a limit ... *)
UlebValue(s) == Value([i \in 1 .. UlebBytes(s) |-> s[i] % 128])

(* ... readULEB, for the length of a packet, in 32 bits with a sign: of a  *)
(* fifth byte four bits are left, the highest of which is the sign.        *)
LengthOf(bytes) ==
    Value([i \in 1 .. Len(bytes) |->
              IF i = 5 THEN ((bytes[i] + 8) % 16) - 8 ELSE bytes[i] % 128])

PacketLength(s) == LengthOf(SubSeq(s, 1, UlebBytes(s)))

(* readULEB: read, not yet complete, or more than five bytes, which throws. *)
ReadULEB(s) ==
    IF UlebBytes(s) \in 1 .. 5 THEN "read"
    ELSE IF Len(s) < 5 THEN "incomplete" ELSE "invalid"

-----------------------------------------------------------------------------
(* parseClientCommand: what the fields of a command are. *)
Illegal == [type |-> -1, fields |-> <<>>]

FieldKinds(type) ==
    CASE type \in {1, 2, 5} -> <<"string">>           \* Authenticate, Chat, CreateRoom
      [] type = 6           -> <<"string", "bool">>   \* JoinRoom
      [] type \in {8, 9}    -> <<"bool">>             \* LockRoom, CycleRoom
      [] type \in {10, 14}  -> <<"i32">>              \* SelectChart, Played
      [] type = 16          -> <<"i32", "i32", "i32", "i32", "i32", "i32", "i32">>
      [] OTHER              -> <<>>

(* The reader's methods throw (read no bytes, here) at the end of the data. *)
FieldBytes(s, kind) ==
    LET len == CASE kind = "bool" -> 1
                 [] kind = "i32"  -> 4
                 [] OTHER         -> IF UlebBytes(s) = 0 THEN Len(s) + 1
                                     ELSE UlebBytes(s) + UlebValue(s)
    IN  IF len > Len(s) THEN 0 ELSE len

FieldValue(s, kind) ==
    CASE kind = "bool" -> <<s[1] = 1>>
      [] kind = "i32"  -> s
      [] OTHER         -> From(s, UlebBytes(s) + 1)

ReadField(read, kind) ==
    LET n == IF read.ok THEN FieldBytes(read.rest, kind) ELSE 0
    IN  IF n = 0 THEN [read EXCEPT !.ok = FALSE]
        ELSE [ok |-> TRUE, rest |-> From(read.rest, n + 1),
              values |-> Append(read.values, FieldValue(SubSeq(read.rest, 1, n), kind))]

Parse(packet) ==
    IF packet = <<>> THEN Illegal
    ELSE LET all == FoldLeft(ReadField, [ok |-> TRUE, rest |-> Tail(packet), values |-> <<>>],
                             FieldKinds(Head(packet)))
         IN  IF all.ok THEN [type |-> Head(packet), fields |-> all.values] ELSE Illegal

(* Touches and Judges are dropped, and so is what the parser does not know. *)
Dropped(command) == command.type \in {3, 4} \cup {n \in Nat : n > 16}

-----------------------------------------------------------------------------
(* The index i of Buffer.subarray: a negative one counts from the end. *)
Index(s, i) == IF i >= 0 THEN i ELSE IF Len(s) + i > 0 THEN Len(s) + i ELSE 0

(* A packet and what is behind it.  (A packet of negative length takes in  *)
(* all that is in the buffer but the last bytes of it.)                    *)
PacketEnd(s) == Index(s, UlebBytes(s) + PacketLength(s))
FirstPacket(s) == SubSeq(s, UlebBytes(s) + 1, PacketEnd(s))
BehindPacket(s) == From(s, PacketEnd(s) + 1)

Slip_RestIsDropped(conn) ==
    LET command == Parse(FirstPacket(conn.buffer))
    IN  CASE command = Illegal ->
                 [conn EXCEPT !.open = FALSE, !.buffer = BehindPacket(@)]
          [] Dropped(command) -> [conn EXCEPT !.buffer = <<>>]
          [] OTHER -> [conn EXCEPT !.buffer = BehindPacket(@),
                                   !.handled = Append(@, command)]

(* One complete packet is taken out of the buffer.  An illegal one closes  *)
(* the connection.                                                         *)
TakePacket(conn) ==
    LET command == Parse(FirstPacket(conn.buffer))
    IN  CASE command = Illegal ->
                 [conn EXCEPT !.open = FALSE, !.buffer = BehindPacket(@)]
          [] Dropped(command) -> [conn EXCEPT !.buffer = BehindPacket(@)]
          [] OTHER -> [conn EXCEPT !.buffer = BehindPacket(@),
                                   !.handled = Append(@, command)]

Slip_NoLimit(s) == ReadULEB(s) = "read" /\ PacketLength(s) > 100 * MaxPacketSize

TooLarge(s) == ReadULEB(s) = "read" /\ PacketLength(s) > MaxPacketSize

Complete(s) == ReadULEB(s) = "read" /\ Len(s) >= UlebBytes(s) + PacketLength(s)

(* One round of the loop of processPackets; one that changes nothing is    *)
(* the last.  A prefix that is too long throws: the data handler logs it,  *)
(* the buffer stays as it is and the connection open.                      *)
ProcessPacket(conn) ==
    IF ~conn.open THEN conn
    ELSE IF TooLarge(conn.buffer) THEN [conn EXCEPT !.open = FALSE]
    ELSE IF Complete(conn.buffer) THEN TakePacket(conn)
    ELSE conn

(* A packet that is not illegal takes a byte at least out of the buffer,   *)
(* so there are no more rounds than bytes.                                 *)
ProcessPackets(conn) ==
    LET after[n \in 0 .. Len(conn.buffer)] ==
            IF n = 0 THEN conn ELSE ProcessPacket(after[n - 1])
    IN  after[Len(conn.buffer)]

(* socket.on('data'): the first byte is the version, whatever its value. *)
Data(chunk) ==
    LET all == buffer \o chunk
        after == ProcessPackets([open |-> TRUE, handled |-> handled,
                                 buffer |-> IF version = <<>> THEN Tail(all) ELSE all])
    IN  /\ open
        /\ stream' = stream \o chunk
        /\ version' = IF version = <<>> THEN <<Head(all)>> ELSE version
        /\ buffer' = after.buffer
        /\ open' = after.open
        /\ handled' = after.handled

Next ==
    \E n \in 1 .. (MaxStream - Len(stream)) :
        \E chunk \in [1 .. n -> Bytes] : Data(chunk)

Spec == Init /\ [][Next]_vars

-----------------------------------------------------------------------------
(* The reference: a receiver that is given one byte at a time and buffers  *)
(* no more than the packet it is in.  It gives up at a negative length.    *)
Fresh == [mode |-> "version", prefix |-> <<>>, left |-> 0, packet |-> <<>>, heard |-> <<>>]

PacketEnds(r) ==
    LET command == Parse(r.packet)
    IN  IF command = Illegal THEN [r EXCEPT !.mode = "closed"]
        ELSE [r EXCEPT !.mode = "prefix", !.prefix = <<>>, !.packet = <<>>,
                       !.heard = IF Dropped(command) THEN @ ELSE Append(@, command)]

PrefixEnds(r) ==
    LET size == LengthOf(r.prefix)
    IN  CASE size > MaxPacketSize -> [r EXCEPT !.mode = "closed"]
          [] size < 0 -> [r EXCEPT !.mode = "negative"]
          [] size = 0 -> PacketEnds(r)
          [] OTHER -> [r EXCEPT !.mode = "packet", !.left = size]

Hear(r, byte) ==
    CASE r.mode = "version" -> [r EXCEPT !.mode = "prefix"]
      [] r.mode = "prefix" ->
             LET next == [r EXCEPT !.prefix = Append(@, byte)]
             IN  IF ~More(byte) THEN PrefixEnds(next)
                 ELSE IF Len(next.prefix) = 5 THEN [next EXCEPT !.mode = "stuck"] ELSE next
      [] r.mode = "packet" ->
             LET next == [r EXCEPT !.packet = Append(@, byte), !.left = @ - 1]
             IN  IF next.left = 0 THEN PacketEnds(next) ELSE next
      [] OTHER -> r

Hearing(r, bytes) ==
    LET after[n \in 0 .. Len(bytes)] ==
            IF n = 0 THEN r ELSE Hear(after[n - 1], bytes[n])
    IN  after[Len(bytes)]

Heard == Hearing(Fresh, stream)

(* Where TCP cuts the stream makes no difference: the commands handled and *)
(* whether the connection was closed depend on the bytes alone, not on how *)
(* many data events brought them (the buffering of the data handler).      *)
(* Only a negative length is different: the packet it stands for reaches   *)
(* back from the end of what happens to be there.  Up to it, and of what   *)
(* was handled before it, nothing changes.                                 *)
ChunkingIrrelevant ==
    IF Heard.mode = "negative" THEN IsPrefix(Heard.heard, handled)
    ELSE /\ handled = Heard.heard
         /\ open = (Heard.mode # "closed")

(* An open connection never holds more than one unfinished packet, so the  *)
(* limit on packets (MAX_PACKET_SIZE) is a limit on memory, but for a      *)
(* prefix that is too long: then every later byte is kept and none is ever *)
(* read.                                                                   *)
BufferBounded ==
    open => CASE ReadULEB(buffer) = "read" -> Len(buffer) < UlebBytes(buffer) + MaxPacketSize
              [] ReadULEB(buffer) = "incomplete" -> Len(buffer) < 5
              [] OTHER -> TRUE
=============================================================================
