----------------------------- MODULE StreamFraming -----------------------------
(***************************************************************************)
(* How packets are cut out of the bytes of a scrcpy video socket. Chunks   *)
(* of any length are buffered until the one read that waits can be         *)
(* answered; the preamble is read together with bytes of the first packet, *)
(* which are put back. The socket may end, fail or be destroyed anywhere.  *)
(*                                                                         *)
(* Source: scrcpy.ts (FramedReader, readFrame, parseVideoPreamble). A byte *)
(* is its number in the stream. What a promise resolves with is seen       *)
(* before the next event of the socket.                                    *)
(***************************************************************************)
EXTENDS Integers, Sequences, SequencesExt

CONSTANTS
  Payloads,        \* bytes of the packets the device sends; 0: a session packet
  HeaderBytes,     \* a packet header
  PreambleBytes,   \* read at the start
  ExtraBytes,      \* of which these belong to the first packet
  ChunkBytes,      \* bound: bytes of a chunk
  BufferLimit      \* MAX_READER_BUFFER_BYTES

ASSUME FramingAssumption ==
  /\ Payloads \in Seq(Nat)
  /\ {HeaderBytes, PreambleBytes, ChunkBytes, BufferLimit} \subseteq Nat \ {0}
  /\ ExtraBytes \in 0 .. PreambleBytes - 1

VARIABLES
  socket,   \* bytes that arrived, and whether it is open
  reader,   \* FramedReader, with what its last read was answered
  frames    \* the caller: what it reads, and what it got

framingVars == <<socket, reader, frames>>

NoAnswer == [kind |-> "none"]

FramingInit ==
  /\ socket = [sent |-> 0, open |-> TRUE]
  /\ reader = [buffer |-> <<>>, err |-> "none", ended |-> FALSE, answer |-> NoAnswer,
               waiters |-> <<[n |-> PreambleBytes, kind |-> "header"]>>]
  /\ frames = [step |-> "preamble", next |-> 1, packet |-> <<>>, result |-> "none"]

\* The last byte of each packet, and the bytes after a up to b.
LastByte[i \in 0 .. Len(Payloads)] ==
  IF i = 0 THEN PreambleBytes - ExtraBytes ELSE LastByte[i - 1] + HeaderBytes + Payloads[i]
Bytes(a, b) == [i \in 1 .. b - a |-> a + i]

-----------------------------------------------------------------------------
(* FramedReader. One read waits at a time.                                  *)

BugFlush(r) ==
  IF r.waiters = <<>> \/ Len(r.buffer) < Head(r.waiters).n THEN r
  ELSE LET n == Head(r.waiters).n
       IN  [r EXCEPT !.waiters = Tail(@), !.buffer = <<>>,
                     !.answer = [kind |-> "bytes", bytes |-> SubSeq(r.buffer, 1, n)]]
Flush(r) ==
  IF r.waiters = <<>> \/ Len(r.buffer) < Head(r.waiters).n THEN r
  ELSE LET n == Head(r.waiters).n
       IN  [r EXCEPT !.waiters = Tail(@), !.buffer = SubSeq(@, n + 1, Len(@)),
                     !.answer = [kind |-> "bytes", bytes |-> SubSeq(r.buffer, 1, n)]]

Refused(r, code) == [r EXCEPT !.waiters = <<>>, !.answer = [kind |-> code]]

\* How a read ends that the stream was cut before.
Cut(r, kind) ==
  CASE kind = "payload" -> "truncated-payload"
    [] kind # "payload" /\ r.buffer = <<>> -> "clean-eof"
    [] OTHER -> "truncated-header"

BugFail(r, code) == [r EXCEPT !.err = code, !.buffer = <<>>]
Fail(r, code) ==
  LET failed == [r EXCEPT !.err = code, !.buffer = <<>>]
  IN  IF r.waiters = <<>> THEN failed ELSE Refused(failed, code)

EndStream(r) ==
  LET over == [r EXCEPT !.ended = TRUE]
  IN  IF r.waiters = <<>> THEN over ELSE Refused(over, Cut(r, Head(r.waiters).kind))

Read(r, n, kind) ==
  IF r.err # "none" THEN Refused(r, r.err)
  ELSE IF r.ended /\ Len(r.buffer) < n THEN Refused(r, Cut(r, kind))
  ELSE Flush([r EXCEPT !.waiters = Append(@, [n |-> n, kind |-> kind])])

Prepend(r, bytes) == Flush([r EXCEPT !.buffer = bytes \o @])

Idle == reader.answer = NoAnswer

SocketData ==
  /\ socket.open /\ Idle
  /\ \E n \in 1 .. ChunkBytes :
       /\ socket.sent + n <= LastByte[Len(Payloads)]
       /\ IF Len(reader.buffer) + n > BufferLimit
          THEN /\ reader' = Fail(reader, "reader-overflow")
               /\ socket' = [socket EXCEPT !.open = FALSE]
          ELSE /\ reader' = Flush([reader EXCEPT !.buffer =
                                     @ \o Bytes(socket.sent, socket.sent + n)])
               /\ socket' = [socket EXCEPT !.sent = @ + n]
  /\ UNCHANGED frames

SocketErrors ==
  /\ socket.open /\ Idle
  /\ reader' = Fail(reader, "socket-error")
  /\ socket' = [socket EXCEPT !.open = FALSE]
  /\ UNCHANGED frames

\* The device ends the stream, or the session destroys the socket.
SocketEnds ==
  /\ socket.open /\ Idle
  /\ reader' = EndStream(reader)
  /\ socket' = [socket EXCEPT !.open = FALSE]
  /\ UNCHANGED frames

-----------------------------------------------------------------------------
(* The caller: the preamble, then one packet after the other.               *)

Answered(step, kind) == frames.step = step /\ reader.answer.kind = kind
Taken(r) == [r EXCEPT !.answer = NoAnswer]

BugPreambleRead ==
  /\ Answered("preamble", "bytes")
  /\ reader' = Taken(reader)
  /\ frames' = [frames EXCEPT !.step = "idle"]
  /\ UNCHANGED socket
PreambleRead ==
  /\ Answered("preamble", "bytes")
  /\ LET extra == SubSeq(reader.answer.bytes, PreambleBytes - ExtraBytes + 1, PreambleBytes)
     IN  reader' = Prepend(Taken(reader), extra)
  /\ frames' = [frames EXCEPT !.step = "idle"]
  /\ UNCHANGED socket

ReadFrame ==
  /\ frames.step = "idle"
  /\ reader' = Read(reader, HeaderBytes, "header")
  /\ frames' = [frames EXCEPT !.step = "header"]
  /\ UNCHANGED socket

\* A session packet is all header.
HeaderRead ==
  /\ Answered("header", "bytes")
  /\ IF Payloads[frames.next] = 0
     THEN /\ frames' = [frames EXCEPT !.step = "idle", !.next = @ + 1,
                                      !.packet = reader.answer.bytes]
          /\ reader' = Taken(reader)
     ELSE /\ frames' = [frames EXCEPT !.step = "payload"]
          /\ reader' = Read(Taken(reader), Payloads[frames.next], "payload")
  /\ UNCHANGED socket

PayloadRead ==
  /\ Answered("payload", "bytes")
  /\ frames' = [frames EXCEPT !.step = "idle", !.next = @ + 1, !.packet = reader.answer.bytes]
  /\ reader' = Taken(reader)
  /\ UNCHANGED socket

\* readFrame returns null at a clean end and throws at any other.
ReadFails ==
  /\ reader.answer.kind \notin {"none", "bytes"}
  /\ frames' = [frames EXCEPT !.step = "over",
       !.result = IF frames.step = "header" /\ reader.answer.kind = "clean-eof"
                  THEN "null" ELSE reader.answer.kind]
  /\ reader' = Taken(reader)
  /\ UNCHANGED socket

FramingNext ==
  \/ SocketData \/ SocketErrors \/ SocketEnds
  \/ PreambleRead \/ ReadFrame \/ HeaderRead \/ PayloadRead \/ ReadFails

-----------------------------------------------------------------------------

\* FramedReader.consume, prepend: what a packet is made of is exactly its bytes of the
\* stream, wherever the chunks were cut and however many bytes came with the preamble.
PacketsAreWhole ==
  frames.next > 1 =>
    LET i == frames.next - 1
    IN  frames.packet = Bytes(LastByte[i] - (IF Payloads[i] = 0 THEN HeaderBytes ELSE Payloads[i]),
                              LastByte[i])

\* FramedReader.endStream, fail: no read waits for bytes that cannot come any more, and
\* the stream is said to have ended cleanly only where a packet ended.
EndIsTold ==
  /\ reader.waiters # <<>> => socket.open /\ Idle
  /\ frames.step \in {"preamble", "header", "payload"} => reader.waiters # <<>> \/ ~Idle
  /\ frames.result = "null" => socket.sent = LastByte[frames.next - 1] /\ reader.err = "none"
=============================================================================
