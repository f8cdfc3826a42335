------------------------------ MODULE Forwarder ------------------------------
(***************************************************************************)
(* The send side of one TCP flow in struct Forwarder (src/lib.rs): the     *)
(* entries of tcp_fin_map, tcp_send_window_map, tcp_sequence_map,          *)
(* tcp_acknowledgement_map, tcp_cache_map and tcp_queue_map for one key,   *)
(* gathered in one record.  A missing entry is its unwrap_or default (0,   *)
(* FALSE) or the sentinel NoCache / NoQueue.                               *)
(*                                                                         *)
(* Every Forwarder method runs under the Forwarder mutex, so each is one   *)
(* operator from a state record to [fwd |-> new record, out |-> segments   *)
(* it emits]; the actions of TcpFlow compose them as the handlers do.      *)
(*                                                                         *)
(* Bytes are abstracted to counts.  A data segment carries the ghost field *)
(* off, the offset in the proxy's byte stream of its first byte, so that   *)
(* the properties can say which bytes a sequence number was put on.        *)
(* Retransmission timestamps are abstracted away: get_timed_out may return *)
(* any prefix of the cache, since any amount of time may pass.             *)
(***************************************************************************)
EXTENDS SeqArith, SequencesExt

CONSTANTS MSS,       \* send_mss learnt from the peer's SYN: max payload per segment
          NoCache,   \* no entry in tcp_cache_map
          NoQueue    \* no entry in tcp_queue_map

\* Queue (the retransmission cache of cache.rs, not in this repository) is
\* its left edge sequence and its length.
Cache == [left : Seqs, len : Nat]

\* The per-flow state after Forwarder::remove, or before any setter ran.
FwdRemoved == [fin |-> FALSE, sendWindow |-> 0, sequence |-> 0,
               acknowledgement |-> 0, cache |-> NoCache, queue |-> NoQueue]

\* set_tcp_send_window, set_tcp_sequence, set_tcp_acknowledgement: each
\* setter replaces its map entry
SetTcpSendWindow(f, w) == [f EXCEPT !.sendWindow = w]
SetTcpSequence(f, s) == [f EXCEPT !.sequence = s]
SetTcpAcknowledgement(f, a) == [f EXCEPT !.acknowledgement = a]

\* add_tcp_acknowledgement: the entry (0 if missing) plus n, wrapped by the
\* checked_add / unwrap_or_else idiom
AddTcpAcknowledgement(f, n) == [f EXCEPT !.acknowledgement = WrapAdd(@, n)]

Seg(kind, seq, len, off) == [kind |-> kind, seq |-> seq, len |-> len, off |-> off]

CLen(f) == IF f.cache = NoCache THEN 0 ELSE f.cache.len
QLen(f) == IF f.queue = NoQueue THEN 0 ELSE f.queue

\* stream offset of the cache's left edge, given the number of bytes the
\* proxy has forwarded so far (ghost, for the off field)
CacheOff(f, fwded) == fwded - QLen(f) - CLen(f)

\* the is_queue_empty && is_cache_empty test before every FIN
Drained(f) == QLen(f) = 0 /\ CLen(f) = 0

(* Queue::invalidate_to (spec 4.1): advance the left edge to s unless s is *)
(* not ahead of it in the plausibility window.                             *)
InvalidateTo(c, s) ==
  LET d == ModSub(s, c.left)
  IN IF d > 0 /\ d <= WIN
     THEN [left |-> s, len |-> IF c.len > d THEN c.len - d ELSE 0]
     ELSE c

(* Queue::get(seq, size) succeeds iff [seq, seq + size) lies in the cache *)
GetOk(c, s, size) == ModSub(s, c.left) + size <= c.len

\* mutant: the left edge follows any acknowledgement, however stale
InvalidateCacheToAnyAck(f, s) ==
  IF f.cache = NoCache THEN f
  ELSE LET d == ModSub(s, f.cache.left)
       IN [f EXCEPT !.cache = [left |-> s, len |-> IF @.len > d THEN @.len - d ELSE 0]]

(* invalidate_cache_to *)
InvalidateCacheTo(f, s) ==
  IF f.cache = NoCache THEN f ELSE [f EXCEPT !.cache = InvalidateTo(@, s)]

(***************************************************************************)
(* send_tcp_ack_raw: cut the payload [seq, seq + n) into segments of MSS   *)
(* bytes; after each one, move tcp_sequence_map to the segment's end if    *)
(* that is ahead of it within the plausibility window.                     *)
(***************************************************************************)
RECURSIVE SegmentLoop(_, _, _, _, _, _)
SegmentLoop(f, seq, n, off, i, segs) ==
  IF MSS * i >= n
  THEN [fwd |-> f, out |-> segs]
  ELSE LET length == Min({MSS, n - i * MSS})
           s      == WrapAdd(seq, i * MSS)
           next   == WrapAdd(s, length)
           f2     == IF WrapSub(next, f.sequence) <= WIN
                     THEN [f EXCEPT !.sequence = next] ELSE f
       IN SegmentLoop(f2, seq, n, off, i + 1,
                      Append(segs, Seg("ACK", s, length, off + i * MSS)))

SendTcpAckRaw(f, seq, n, off) == SegmentLoop(f, seq, n, off, 0, << >>)

(* send_tcp_ack_syn: a SYN/ACK at tcp_sequence_map, which then moves past *)
(* the SYN (checked_add(1).unwrap_or(0)).                                  *)
SendTcpAckSyn(f) ==
  [fwd |-> [f EXCEPT !.sequence = IncOrZero(@)], out |-> << Seg("SYNACK", f.sequence, 0, 0) >>]

(* send_tcp_ack_rst and send_tcp_rst: a reset at tcp_sequence_map, 0 when *)
(* the flow has no entry; the sequence is not moved.                        *)
AckRstSeg(f) == Seg("ACKRST", f.sequence, 0, 0)
RstSeg(f) == Seg("RST", f.sequence, 0, 0)

(* send_tcp_fin: a FIN at the current sequence; the sequence is not bumped *)
FinSeg(f) == Seg("FIN", f.sequence, 0, 0)

\* mutant: the FIN goes out without the is_queue_empty && is_cache_empty test
WithFinUndrained(r) ==
  IF r.fwd.fin THEN [r EXCEPT !.out = Append(@, FinSeg(r.fwd))] ELSE r

\* the FIN tail of send_tcp_ack and retransmit_tcp_ack_timedout
WithFin(r) ==
  IF r.fwd.fin /\ Drained(r.fwd)
  THEN [r EXCEPT !.out = Append(@, FinSeg(r.fwd))] ELSE r

(***************************************************************************)
(* send_tcp_ack: move min(window - in flight, queue) bytes from the queue  *)
(* into the cache (creating it at the current sequence) and send them;     *)
(* then send a FIN if one is due and nothing is queued or unacknowledged.  *)
(***************************************************************************)
\* mutant: the amount drained is not bounded by the queue's length
SendTcpAckUnbounded(f, fwded) ==
  LET c      == IF f.cache = NoCache THEN [left |-> f.sequence, len |-> 0] ELSE f.cache
      size   == IF f.sendWindow > c.len THEN f.sendWindow - c.len ELSE 0
      data   == IF f.queue = NoQueue \/ f.sendWindow = 0
                THEN [fwd |-> f, out |-> << >>]
                ELSE IF size = 0
                THEN [fwd |-> [f EXCEPT !.cache = c], out |-> << >>]
                ELSE SendTcpAckRaw([f EXCEPT !.cache = [c EXCEPT !.len = @ + size],
                                             !.queue = @ - size],
                                   f.sequence, size, fwded - QLen(f))
  IN WithFin(data)

\* mutant: new data is sent from the cache's left edge, not tcp_sequence_map
SendTcpAckAtLeft(f, fwded) ==
  LET c      == IF f.cache = NoCache THEN [left |-> f.sequence, len |-> 0] ELSE f.cache
      remain == IF f.sendWindow > c.len THEN f.sendWindow - c.len ELSE 0
      size   == Min({remain, QLen(f)})
      data   == IF f.queue = NoQueue \/ f.sendWindow = 0
                THEN [fwd |-> f, out |-> << >>]
                ELSE IF size = 0
                THEN [fwd |-> [f EXCEPT !.cache = c], out |-> << >>]
                ELSE SendTcpAckRaw([f EXCEPT !.cache = [c EXCEPT !.len = @ + size],
                                             !.queue = @ - size],
                                   c.left, size, fwded - QLen(f))
  IN WithFin(data)

SendTcpAck(f, fwded) ==
  LET c      == IF f.cache = NoCache THEN [left |-> f.sequence, len |-> 0] ELSE f.cache
      remain == IF f.sendWindow > c.len THEN f.sendWindow - c.len ELSE 0
      size   == Min({remain, QLen(f)})
      qOff   == fwded - QLen(f)
      data   == IF f.queue = NoQueue \/ f.sendWindow = 0
                THEN [fwd |-> f, out |-> << >>]
                ELSE IF size = 0
                THEN [fwd |-> [f EXCEPT !.cache = c], out |-> << >>]
                ELSE SendTcpAckRaw([f EXCEPT !.cache = [c EXCEPT !.len = @ + size],
                                             !.queue = @ - size],
                                   f.sequence, size, qOff)
  IN WithFin(data)

(* append_to_queue: queue n more bytes, then send_tcp_ack *)
AppendToQueue(f, n, fwded) ==
  SendTcpAck([f EXCEPT !.queue = QLen(f) + n], fwded + n)

(* ForwardStream::close: remember the FIN, then send_tcp_ack *)
Close(f, fwded) == SendTcpAck([f EXCEPT !.fin = TRUE], fwded)

(* retransmit_tcp_ack: go-back-N, resend the whole cache *)
RetransmitTcpAck(f, fwded) ==
  IF f.cache = NoCache \/ f.cache.len = 0
  THEN [fwd |-> f, out |-> << >>]
  ELSE SendTcpAckRaw(f, f.cache.left, f.cache.len, CacheOff(f, fwded))

\* mutant: timed-out bytes are resent at tcp_sequence_map, not the left edge
RetransmitTcpAckTimedoutAtSequence(f, k, fwded) ==
  IF k > 0
  THEN SendTcpAckRaw(f, f.sequence, k, CacheOff(f, fwded))
  ELSE WithFin([fwd |-> f, out |-> << >>])

(* retransmit_tcp_ack_timedout: resend the k timed-out bytes at the left   *)
(* edge; if none timed out, resend the FIN if it is due.                   *)
RetransmitTcpAckTimedout(f, k, fwded) ==
  IF k > 0
  THEN SendTcpAckRaw(f, f.cache.left, k, CacheOff(f, fwded))
  ELSE WithFin([fwd |-> f, out |-> << >>])

(***************************************************************************)
(* retransmit_tcp_ack_without: selective retransmission.  Cut every SACK   *)
(* block out of [left, left + len) with disjoint_u32_range, resend each    *)
(* remaining range, then resend [end of the last range, right edge), or    *)
(* the whole cache when no range remains ("Update the last range").  A     *)
(* Queue::get out of the cache is an error that ends the method (the ?),   *)
(* after whatever was already sent.  No cache at all is an error too.      *)
(***************************************************************************)
RECURSIVE SendPieces(_, _, _, _)
SendPieces(f, pieces, fwded, acc) ==
  IF pieces = << >>
  THEN [fwd |-> f, out |-> acc, err |-> FALSE]
  ELSE LET p == Head(pieces)
       IN IF ~GetOk(f.cache, p[1], p[2])
          THEN [fwd |-> f, out |-> acc, err |-> TRUE]
          ELSE IF p[2] = 0
          THEN SendPieces(f, Tail(pieces), fwded, acc)
          ELSE LET r == SendTcpAckRaw(f, p[1], p[2],
                                      CacheOff(f, fwded) + ModSub(p[1], f.cache.left))
               IN SendPieces(r.fwd, Tail(pieces), fwded, acc \o r.out)

RetransmitTcpAckWithout(f, sacks, fwded) ==
  IF f.cache = NoCache
  THEN [fwd |-> f, out |-> << >>, err |-> TRUE]
  ELSE LET left     == f.cache.left
           size     == f.cache.len
           recvNext == WrapAdd(left, size)
           cut(rs, sack) ==
             FlattenSeq([i \in DOMAIN rs |-> DisjointU32Range(rs[i], sack)])
           ranges   == FoldLeft(cut, << <<left, recvNext>> >>, sacks)
           last     == ranges[Len(ranges)][2]
           tail     == IF ranges = << >> THEN <<left, size>>
                       ELSE <<last, IF recvNext >= last THEN recvNext - last
                                    ELSE left + (MAXU - last)>>
           pieces   == [i \in DOMAIN ranges |->
                          <<ranges[i][1], WrapSub(ranges[i][2], ranges[i][1])>>]
       IN SendPieces(f, Append(pieces, tail), fwded, << >>)
=============================================================================
