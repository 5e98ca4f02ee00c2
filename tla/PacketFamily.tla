---------------------------- MODULE PacketFamily ----------------------------
(***************************************************************************)
(* One direction of a connection of the tcp, kcp, webtransport, websocket  *)
(* and webrtc transports: messages are put in packets (a type word and the *)
(* encoded payload), packets in frames where the transport is a stream of  *)
(* bytes, written by several goroutines or by a session's writePump, read  *)
(* back byte by byte, decoded and handed to the handler registered for     *)
(* their type.                                                             *)
(*                                                                         *)
(* A byte is a cell, a digit to the base Base, and a word of four bytes is *)
(* WordSize cells.  One cell stands for the bytes that are not UTF-8.      *)
(***************************************************************************)
EXTENDS Naturals, Sequences, SequencesExt, FiniteSetsExt, PacketProfiles

CONSTANTS
    Senders,     \* goroutines that send on the connection
    Types,       \* message types with a handler, or that may get one
    Messages,    \* what SendMessage is called with: [type, body]
    RawData,     \* what SendRawData is called with: bytes that are no packet
    Cases,       \* [member, down: the server sends, order: "LE" or "BE",
                 \*  text: PayloadTypeText]
    Base, WordSize, MaxFrame,   \* the width of a byte, of a word, and maxFrameSize
    QueueCap,    \* capacity of Session.send
    MaxSends     \* bound: calls of SendMessage and SendRawData

NotUtf8 == Base - 1
Replaced == Base          \* what JSON makes of bytes that are not UTF-8

PacketAssumption ==
    /\ Base > 1 /\ WordSize > 0 /\ MaxFrame < Base ^ WordSize /\ QueueCap > 0
    /\ \A m \in Messages : m.type \in 0..(Base ^ WordSize - 1)
    /\ \A c \in Cases : c.order \in Wires[c.member].order

VARIABLES
    case,        \* the member of Cases that is looked at
    handlers,    \* messageHandlers of the reader: "none", "raw" (no Creator), "bound"
    snd,         \* per sender: the step, and what is left to write
    queue,       \* Session.send
    pump,        \* writePump: what is left to write; writing or not
    wire,        \* cells (or packets) written and not read
    cut,         \* the connection is closed
    rd,          \* the read loop: its step, the cells read, the size expected
    read,        \* frames read
    written,     \* what was given to WriteFrame, in order
    handled,     \* what handlers were called with: [n: the frame, msg]
    torn,        \* a part of a frame was written, and the stream stays open
    sends
vars == <<case, handlers, snd, queue, pump, wire, cut, rd, read, written, handled, torn, sends>>
sendVars == <<snd, queue, pump, written, torn, sends>>
readVars == <<rd, read, handled>>

Stream == Wires[case.member].frame
Sending == (IF case.down THEN Servers ELSE Clients)[case.member].send
Handling == (IF case.down THEN Clients ELSE Servers)[case.member].handle

Idle == [at |-> "idle", left |-> <<>>]
Header == [at |-> "header", buf |-> <<>>, size |-> WordSize, steps |-> <<>>]

Init ==
    /\ case \in Cases /\ handlers \in [Types -> {"none", "raw", "bound"}]
    /\ snd = [s \in Senders |-> Idle] /\ queue = <<>> /\ pump = Idle
    /\ wire = <<>> /\ cut = FALSE /\ rd = Header /\ read = 0
    /\ written = <<>> /\ handled = <<>> /\ torn = FALSE /\ sends = 0

-----------------------------------------------------------------------------
(* Words, packets and frames.                                              *)

LittleEndian(n) == [i \in 1..WordSize |-> (n \div Base ^ (i - 1)) % Base]
PutUint32(n) == IF case.order = "LE" THEN LittleEndian(n) ELSE Reverse(LittleEndian(n))
Uint32(w) ==
    LET le == IF case.order = "LE" THEN w ELSE Reverse(w)
    IN MapThenSumSet(LAMBDA i : le[i] * Base ^ (i - 1), 1..WordSize)

\* BinaryNetPacket and TextNetPacket.
Utf8(body) == [i \in 1..Len(body) |-> IF body[i] = NotUtf8 THEN Replaced ELSE body[i]]
Marshal(m) ==
    IF case.text THEN <<[type |-> m.type, body |-> Utf8(m.body)]>>
                 ELSE PutUint32(m.type) \o m.body
\* A call of SendMessage or of SendRawData, and the bytes it gives to WriteFrame (for
\* the text transports, none stands for bytes that are not JSON).
Call(raw, type, body) == [raw |-> raw, type |-> type, body |-> body]
Packet(x) == IF ~x.raw THEN Marshal(x) ELSE IF case.text THEN <<>> ELSE x.body

\* The packet in buf: none if it is too short, or not the JSON of one.
Unmarshal(buf) ==
    IF case.text THEN ToSet(buf)
    ELSE IF Len(buf) < WordSize THEN {}
    ELSE {[type |-> Uint32(SubSeq(buf, 1, WordSize)),
           body |-> SubSeq(buf, WordSize + 1, Len(buf))]}

TooLarge(p) == Stream /\ Len(p) > MaxFrame
Frame(p) == IF Stream THEN PutUint32(Len(p)) \o p ELSE <<p>>

-----------------------------------------------------------------------------
(* Sending.                                                                *)

Put(s, r) == snd' = [snd EXCEPT ![s] = r]
SendMessage(s) ==
    /\ snd[s].at = "idle" /\ sends < MaxSends /\ sends' = sends + 1
    /\ \/ \E m \in Messages : Put(s, [at |-> "send", left |-> Call(FALSE, m.type, m.body)])
       \/ /\ Sending.raw
          /\ \E b \in RawData : Put(s, [at |-> "send", left |-> Call(TRUE, 0, b)])
    /\ UNCHANGED <<case, handlers, queue, pump, wire, cut, readVars, written, torn>>

\* Session.SendMessage: the session is closed, there is room, or five seconds pass.
Enqueue(s) ==
    /\ Sending.path = "queue" /\ snd[s].at = "send" /\ Put(s, Idle)
    /\ \/ cut /\ UNCHANGED queue
       \/ Len(queue) < QueueCap /\ queue' = Append(queue, snd[s].left)
       \/ Len(queue) = QueueCap /\ UNCHANGED queue
    /\ UNCHANGED <<case, handlers, pump, wire, cut, readVars, written, torn, sends>>

\* WriteFrame: the frame is refused, or its first byte is about to be written.
Begin(x) == IF TooLarge(Packet(x)) THEN UNCHANGED written ELSE written' = Append(written, x)
Writing(x) ==
    IF TooLarge(Packet(x)) THEN Idle ELSE [at |-> "write", left |-> Frame(Packet(x))]

\* Mutant: frames are written without the lock.
LockWriteBare(s) ==
    /\ Sending.path = "lock" /\ snd[s].at = "send" /\ Put(s, Writing(snd[s].left)) /\ Begin(snd[s].left)
    /\ UNCHANGED <<case, handlers, queue, pump, wire, cut, readVars, torn, sends>>
LockWrite(s) ==
    /\ Sending.path = "lock" /\ snd[s].at = "send" /\ \A o \in Senders : snd[o].at # "write"
    /\ Put(s, Writing(snd[s].left)) /\ Begin(snd[s].left)
    /\ UNCHANGED <<case, handlers, queue, pump, wire, cut, readVars, torn, sends>>

\* Write puts the bytes on the wire one after the other; on a closed connection it fails.
Written(left) == IF cut THEN UNCHANGED wire ELSE wire' = Append(wire, Head(left))
After(left) == IF cut \/ Len(left) = 1 THEN Idle ELSE [at |-> "write", left |-> Tail(left)]
Write(s) ==
    /\ snd[s].at = "write" /\ Written(snd[s].left) /\ Put(s, After(snd[s].left))
    /\ UNCHANGED <<case, handlers, queue, pump, cut, readVars, written, torn, sends>>
\* The write deadline passes: the rest of the frame is not written, the stream stays open.
WriteExpires(s) ==
    /\ Sending.late = "stay" /\ snd[s].at = "write" /\ Put(s, Idle)
    /\ IF snd[s].left = Frame(Packet(Last(written)))
       THEN written' = Front(written) /\ UNCHANGED torn
       ELSE torn' = TRUE /\ UNCHANGED written
    /\ UNCHANGED <<case, handlers, queue, pump, wire, cut, readVars, sends>>

PumpTake ==
    /\ ~cut /\ pump.at = "idle" /\ queue # <<>> /\ queue' = Tail(queue)
    /\ pump' = Writing(Head(queue)) /\ Begin(Head(queue)) /\ cut' = TooLarge(Packet(Head(queue)))
    /\ UNCHANGED <<case, handlers, snd, wire, readVars, torn, sends>>
PumpWrite ==
    /\ pump.at = "write" /\ Written(pump.left) /\ pump' = After(pump.left)
    /\ UNCHANGED <<case, handlers, snd, queue, cut, readVars, written, torn, sends>>
\* An error of the write ends writePump, which closes the session.
PumpExpires ==
    /\ Sending.late = "close" /\ pump.at = "write" /\ pump' = Idle /\ cut' = TRUE
    /\ UNCHANGED <<case, handlers, snd, queue, wire, readVars, written, torn, sends>>

\* Either end closes the connection, or it breaks.
Close ==
    /\ ~cut /\ cut' = TRUE /\ UNCHANGED <<case, handlers, sendVars, wire, readVars>>

-----------------------------------------------------------------------------
(* Reading: ReadFrame, or the message of the transport.                    *)

Ended(at) == [at |-> at, buf |-> <<>>, size |-> 0, steps |-> <<>>]
Got(buf) == [at |-> "dispatch", buf |-> buf, size |-> 0, steps |-> Handling.steps]

Sized(buf) ==
    LET n == Uint32(buf)
    IN IF n > MaxFrame THEN Ended("refused")
       ELSE IF n = 0 THEN Got(<<>>) ELSE [Header EXCEPT !.at = "payload", !.size = n]
ReadByte ==
    /\ Stream /\ rd.at \in {"header", "payload"} /\ wire # <<>> /\ wire' = Tail(wire)
    /\ LET buf == Append(rd.buf, Head(wire))
       IN rd' = IF Len(buf) < rd.size THEN [rd EXCEPT !.buf = buf]
                ELSE IF rd.at = "header" THEN Sized(buf) ELSE Got(buf)
    /\ cut' = (cut \/ (rd'.at = "refused" /\ Handling.ends = "close"))
    /\ read' = IF rd'.at = "dispatch" THEN read + 1 ELSE read
    /\ UNCHANGED <<case, handlers, sendVars, handled>>
ReadMessage ==
    /\ ~Stream /\ rd.at = "header" /\ wire # <<>> /\ wire' = Tail(wire)
    /\ rd' = Got(Head(wire)) /\ read' = read + 1
    /\ UNCHANGED <<case, handlers, sendVars, cut, handled>>
ReadEnds ==
    /\ cut /\ rd.at \in {"header", "payload"} /\ rd' = Ended("end")
    /\ UNCHANGED <<case, handlers, sendVars, wire, cut, read, handled>>

(* handleSocketRawData and messageHandler, step by step: an error ends the *)
(* packet, and the loop goes on.                                           *)
Advance(buf) == rd' = [rd EXCEPT !.buf = buf, !.steps = Tail(rd.steps)]
Failed == rd' = Header
\* Mutant: an error of a packet ends the read loop.
UnmarshalStepEnds ==
    /\ Head(rd.steps) \in {"word", "typed"} /\ UNCHANGED handled
    /\ IF Unmarshal(rd.buf) = {} THEN rd' = Ended("end")
       ELSE \E p \in Unmarshal(rd.buf) : Advance(p)
UnmarshalStep ==
    /\ Head(rd.steps) \in {"word", "typed"} /\ UNCHANGED handled
    /\ IF Unmarshal(rd.buf) = {} THEN Failed ELSE \E p \in Unmarshal(rd.buf) : Advance(p)
LookupStep ==
    /\ Head(rd.steps) = "lookup" /\ UNCHANGED handled
    /\ IF rd.buf.type \notin Types \/ handlers[rd.buf.type] = "none" THEN Failed
       ELSE rd' = [rd EXCEPT !.at = handlers[rd.buf.type], !.steps = Tail(rd.steps)]
\* A codec (external) decodes what it has encoded, and may decode or refuse the rest.
Encodings == {m.body : m \in Messages}
DecodeStep ==
    /\ Head(rd.steps) = "decode" /\ UNCHANGED handled
    /\ \/ Advance(rd.buf)
       \/ rd.at = "bound" /\ rd.buf.body \notin Encodings /\ Failed
CallStep ==
    /\ Head(rd.steps) = "call" /\ rd' = Header
    /\ handled' = Append(handled, [n |-> read, msg |-> rd.buf])
HandleSocketRawData ==
    /\ rd.steps # <<>> /\ (UnmarshalStep \/ LookupStep \/ DecodeStep \/ CallStep)
    /\ UNCHANGED <<case, handlers, sendVars, wire, cut, read>>

RegisterMessageHandler(t) ==
    /\ handlers[t] = "none" /\ \E k \in {"raw", "bound"} : handlers' = [handlers EXCEPT ![t] = k]
    /\ UNCHANGED <<case, sendVars, wire, cut, readVars>>
DeregisterMessageHandler(t) ==
    /\ handlers[t] # "none" /\ handlers' = [handlers EXCEPT ![t] = "none"]
    /\ UNCHANGED <<case, sendVars, wire, cut, readVars>>

Send(s) == SendMessage(s) \/ Enqueue(s) \/ LockWrite(s) \/ Write(s) \/ WriteExpires(s)
Pump == PumpTake \/ PumpWrite \/ PumpExpires
Reader == ReadByte \/ ReadMessage \/ ReadEnds \/ HandleSocketRawData
Registry(t) == RegisterMessageHandler(t) \/ DeregisterMessageHandler(t)
Next ==
    \/ \E s \in Senders : Send(s)
    \/ Pump \/ Close \/ Reader
    \/ \E t \in Types : Registry(t)
Spec == Init /\ [][Next]_vars

-----------------------------------------------------------------------------
(* What a handler is called with is a message that was sent: the one of    *)
(* the frame it was read from, whole, of its type, each frame at most once *)
(* and in the order of writing.  JSON is excepted for bytes that are not   *)
(* UTF-8, which PayloadTypeText does not carry.                            *)
Intact ==
    \A i \in 1..Len(handled) :
        LET h == handled[i] IN
        /\ h.n \in 1..Len(written) /\ (i > 1 => handled[i - 1].n < h.n)
        /\ ~written[h.n].raw /\ h.msg.type = written[h.n].type
        /\ \/ h.msg.body = written[h.n].body
           \/ case.text /\ NotUtf8 \in Range(written[h.n].body)

(* Handlers are called with what was sent, as above, as long as no write   *)
(* that timed out has left a part of a frame on a stream that stays open.  *)
HandledIsSent == torn \/ Intact

(* Frames keep their boundaries on every stream, as frame.go says of the   *)
(* length prefix, whatever write times out: handlers are called with what  *)
(* was sent, and nothing else.                                             *)
FramesSurviveTimeout == Intact

(* The read loop goes on as long as the connection is open: a packet that  *)
(* cannot be decoded, that no handler is registered for or whose handler   *)
(* fails costs the connection nothing (readPump, run), and what WriteFrame *)
(* writes is never refused by ReadFrame.                                   *)
ReaderLives == torn \/ (rd.at # "refused" /\ (rd.at = "end" => cut))
=============================================================================
