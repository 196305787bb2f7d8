------------------------------ MODULE GrpcPackets ------------------------------
(***************************************************************************)
(* The queue of H.264 packets between the encoder of a gRPC screenshot     *)
(* session and the one reader of the session, the frame pump of the        *)
(* server. The queue is a value, and its operations are functions of it.   *)
(*                                                                         *)
(* Source: grpc-session.ts, GrpcVideoPacketQueue, pushPacket, readFrame;   *)
(* h264-readiness.ts, H264StartupGate.                                     *)
(***************************************************************************)
EXTENDS Naturals, Sequences, FiniteSets

CONSTANT MaxBytes   \* MAX_QUEUED_PACKET_BYTES, in units of the sizes below

\* A packet: what it is, and the encoder and the number of the frame it holds;
\* config: of a key frame, the encoder of the config it was queued with, or 0.
Kinds == {"session", "config", "key", "delta"}
Packet(kind, encoder, n) == [kind |-> kind, encoder |-> encoder, n |-> n, config |-> 0]

\* A key frame has the size of two other packets.
KeyFrames(ps) == {i \in DOMAIN ps : ps[i].kind = "key"}
QueuedBytes(ps) == Len(ps) + Cardinality(KeyFrames(ps))

\* over: the queue could not stay within its limit, and the session fails.
\* decoder: what the reader can decode: the config it has, the last frame it was
\* given, and whether it was ever given one it could not decode (a ghost).
NewQueue == [packets |-> <<>>, config |-> 0, session |-> FALSE, awaiting |-> FALSE,
             waiting |-> FALSE, needsKey |-> FALSE, over |-> FALSE, gate |-> {},
             decoder |-> [config |-> 0, encoder |-> 0, n |-> 0, broken |-> FALSE]]

-----------------------------------------------------------------------------
(* The reader.                                                              *)

Decoded(d, p) ==
  CASE p.kind = "session" -> [d EXCEPT !.config = 0]
    [] p.kind = "config"  -> [d EXCEPT !.config = p.encoder]
    [] p.kind = "key"     -> [d EXCEPT !.encoder = p.encoder, !.n = p.n,
                                       !.broken = @ \/ d.config # p.encoder]
    [] p.kind = "delta"   -> [d EXCEPT !.n = p.n,
                                       !.broken = @ \/ d.encoder # p.encoder \/ d.n + 1 # p.n]

\* shift
Shift(q) == [q EXCEPT !.packets = Tail(@), !.waiting = FALSE,
                      !.decoder = Decoded(@, Head(q.packets))]

\* readFrame, while the session is neither closed nor failed.
ReadFrame(q) == IF q.packets = <<>> THEN [q EXCEPT !.waiting = TRUE] ELSE Shift(q)

-----------------------------------------------------------------------------
(* push                                                                     *)

SessionBefore(ps, i) == \E j \in 1 .. i - 1 : ps[j].kind = "session"
SessionPacket(encoder) == Packet("session", encoder, 0)
Resumption(session, config, frames) ==
  (IF session THEN <<SessionPacket(config)>> ELSE <<>>)
    \o <<Packet("config", config, 0)>> \o frames

\* The queue is over its limit once it would not even hold decodable packets.
Retained(q, ps) == IF QueuedBytes(ps) > MaxBytes THEN [q EXCEPT !.over = TRUE]
                   ELSE [q EXCEPT !.packets = ps, !.session = FALSE, !.awaiting = FALSE]

DropUntilKeyFrame(q, ps) ==
  [q EXCEPT !.packets = <<>>, !.awaiting = TRUE, !.needsKey = TRUE,
            !.session = SessionBefore(ps, Len(ps) + 1)]

\* A full queue goes on from its last key frame, with the config it was queued
\* with, or from the next one.
BugOverflow(q, ps) == [q EXCEPT !.packets = Tail(ps)]
LastKeyFrame(ps) == CHOOSE k \in KeyFrames(ps) : \A j \in KeyFrames(ps) : j <= k
Overflow(q, ps) ==
  LET i == LastKeyFrame(ps)
  IN  IF KeyFrames(ps) = {} \/ ps[i].config = 0 THEN DropUntilKeyFrame(q, ps)
      ELSE Retained([q EXCEPT !.packets = ps],
                    Resumption(SessionBefore(ps, i), ps[i].config, SubSeq(ps, i, Len(ps))))

Queued(q, p) ==
  LET ps == Append(q.packets, p)
  IN  IF QueuedBytes(ps) <= MaxBytes THEN [q EXCEPT !.packets = ps] ELSE Overflow(q, ps)

\* resumeAtKeyFrame, when the queue has been dropped.
Skipped(q, p) ==
  CASE p.kind = "session" -> [q EXCEPT !.session = TRUE]
    [] p.kind = "key" /\ q.config # 0 ->
         Retained(q, Resumption(q.session, q.config, <<p>>))
    [] OTHER -> q

\* The gate sees what is queued, and a waiting reader gets the first packet of it.
Observed(q, p) == [q EXCEPT !.gate = @ \cup {p.kind}]
Delivered(q) == IF q.waiting /\ q.packets # <<>> THEN Shift(q) ELSE q

PushPacket(q, p) ==
  LET noted == IF p.kind = "config" THEN [q EXCEPT !.config = p.encoder] ELSE q
      packet == IF p.kind = "key" THEN [p EXCEPT !.config = q.config] ELSE p
      r == IF q.awaiting THEN Skipped(noted, packet) ELSE Queued(noted, packet)
  IN  IF r.over \/ r.awaiting THEN r ELSE Delivered(Observed(r, p))

\* clear, with the gate and the reader as they are.
Clear(q) == [NewQueue EXCEPT !.gate = q.gate, !.decoder = q.decoder, !.waiting = q.waiting]

GateReady(q) == {"config", "key"} \subseteq q.gate

=============================================================================
