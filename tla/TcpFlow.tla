------------------------------- MODULE TcpFlow -------------------------------
(***************************************************************************)
(* One TCP flow through pcap2socks (src/lib.rs): the client host on the    *)
(* link, the Redirector's TCP handlers for that flow (handle_tcp_syn,      *)
(* handle_tcp_ack, handle_tcp_fin, handle_tcp_rst), the Forwarder's send   *)
(* side (module Forwarder), and the SOCKS stream worker that calls back    *)
(* ForwardStream::forward / tick / close.                                  *)
(*                                                                         *)
(* The receive thread handles one captured frame at a time; the worker    *)
(* runs on another thread and takes the Forwarder mutex for each callback. *)
(* Each handler and each callback is one atomic step (see README for the   *)
(* lock sections inside handle_tcp_ack this merges).                       *)
(*                                                                         *)
(* The client is a correct TCP host, the environment: it sends data,       *)
(* acknowledgements with SACK blocks, FIN and RST; the link loses and      *)
(* reorders segments in both directions.                                   *)
(***************************************************************************)
EXTENDS Forwarder

CONSTANTS ISS,        \* values rng.gen() may give the flow's initial sequence
          CISS,       \* initial sequence numbers the client may pick
          CBytes,     \* bytes the client sends
          PBytes,     \* at most this many bytes come from the proxy
          Windows,    \* windows the client may advertise (wscale 0)
          SackOffers, \* whether the client offers SACK-permitted
          MaxInFlight,\* bound on client segments in flight
          MaxOpens,   \* bound on SYNs handled while no flow exists
          FirstSegmentInOrder, \* client's first ACK reaching us is in order
          ClientHalfCloses,    \* client may send FIN before it got ours
          NoStream,   \* no StreamWorker in Redirector::streams
          NoWindow    \* no entry in the Redirector's tcp_cache_map

ASSUME /\ ISS \subseteq Seqs /\ CISS \subseteq Seqs
       /\ MSS \in 1 .. 3 /\ CBytes \in 0 .. 3 /\ PBytes \in 0 .. 3
       /\ Windows \subseteq 0 .. WIN /\ SackOffers \subseteq BOOLEAN
       /\ FirstSegmentInOrder \in BOOLEAN /\ ClientHalfCloses \in BOOLEAN

DUPLICATES_BEFORE_FAST_RETRANSMISSION == 3

VARIABLES
  red,      \* the Redirector's per-flow state (its tcp_*_map entries, streams)
  fwd,      \* the Forwarder's per-flow state (module Forwarder)
  cl,       \* the client host
  c2r,      \* segments from the client in flight to the capture
  r2c,      \* segments injected toward the client, in flight
  \* ghost state for the properties
  iss,      \* the initial sequence the flow got
  fwded,    \* bytes the proxy forwarded through ForwardStream::forward
  pEof,     \* the proxy closed (ForwardStream::close was called)
  dlv,      \* bytes delivered to the proxy through stream.send
  inOrder,  \* every delivery so far continued the client's byte stream
  opens,    \* SYNs handle_tcp_syn took up with no flow present
  event     \* what the last step did to the flow: "open", a teardown path, "none"

vars == <<red, fwd, cl, c2r, r2c, iss, fwded, pEof, dlv, inOrder, opens, event>>

(***************************************************************************)
(* Redirector per-flow state.  stream is the StreamWorker: is_read_closed  *)
(* (rc, the proxy ended) and is_write_closed (wc, stream.close() ran).     *)
(* window is the reassembly Window of cache.rs (not in this repository):   *)
(* its recv_next and the set of sequence numbers buffered beyond it.       *)
(***************************************************************************)
RedRemoved == [stream |-> NoStream, recvNext |-> 0, acknowledgement |-> 0,
               duplicate |-> 0, retransmitted |-> FALSE, sackPerm |-> FALSE,
               window |-> NoWindow, pend |-> << >>]

(* Window::append: buffer the bytes not before recv_next; deliver the      *)
(* contiguous prefix at recv_next (n bytes, possibly 0, the sequence       *)
(* numbers got).                                                           *)
Buffered(w, seq, len) ==
  { s \in w.buf \cup { ModAdd(seq, i) : i \in 0 .. len - 1 } : ModSub(s, w.next) <= WIN }

WindowAppend(w, seq, len) ==
  LET buf == Buffered(w, seq, len)
      n   == CHOOSE k \in 0 .. Cardinality(buf) :
               /\ \A j \in 0 .. k - 1 : ModAdd(w.next, j) \in buf
               /\ ModAdd(w.next, k) \notin buf
      got == { ModAdd(w.next, j) : j \in 0 .. n - 1 }
  IN [win |-> [next |-> ModAdd(w.next, n), buf |-> buf \ got], n |-> n, got |-> got]

\* mutant: a new Window replaces the existing one on every ACK
NewWindowAlways(r, seg) == [next |-> seg.seq, buf |-> {}]

(* tcp_cache_map.entry(key).or_insert_with(Window::with_capacity(.., seq)): *)
(* the reassembly Window is created at the first ACK-flagged segment's     *)
(* sequence number and kept from then on                                   *)
NewWindow(r, seg) ==
  IF r.window = NoWindow THEN [next |-> seg.seq, buf |-> {}] ELSE r.window

WindowEmpty(w) == w = NoWindow \/ w.buf = {}

(* update_tcp_acknowledgement: count a duplicate, or adopt an ACK that is  *)
(* ahead within the plausibility window.  The count saturates at the       *)
(* threshold, the only value it is compared with.                          *)
UpdateTcpAcknowledgement(r, ackNo) ==
  LET sub == WrapSub(ackNo, r.acknowledgement)
  IN IF sub = 0
     THEN [r EXCEPT !.duplicate =
                Min({@ + 1, DUPLICATES_BEFORE_FAST_RETRANSMISSION})]
     ELSE IF sub <= WIN
     THEN [r EXCEPT !.acknowledgement = ackNo, !.duplicate = 0]
     ELSE r

Ack0(f) == Seg("ACK0", f.sequence, 0, 0)

(* a handler's outcome: new states, injected segments, delivered bytes,   *)
(* whether they continued the stream, and the event for the properties    *)
Res(r, f, out, n, ord, ev) ==
  [red |-> r, fwd |-> f, out |-> out, dlv |-> n, ord |-> ord, ev |-> ev]

(***************************************************************************)
(* handle_tcp_fin, as handle_tcp_ack calls it once the segment's payload   *)
(* is handled: a FIN at recv_next with nothing buffered out of order is    *)
(* acknowledged; it half-closes the stream toward the proxy, or, if the    *)
(* proxy already ended, removes the flow ("Close by remote").              *)
(***************************************************************************)
\* mutant: accept the FIN without checking it is at recv_next
HandleTcpFinAnySeq(seg, r, f, out, n, ord) ==
  LET rn == r.recvNext
      f2 == [f EXCEPT !.acknowledgement = IncOrZero(rn)]
      r2 == [r EXCEPT !.recvNext = IncOrMax(@)]
  IN IF WindowEmpty(r.window)
     THEN IF ~r.stream.rc
          THEN Res([r2 EXCEPT !.stream.wc = TRUE], f2, Append(out, Ack0(f2)), n, ord, "none")
          ELSE Res(RedRemoved, FwdRemoved, Append(out, Ack0(f2)), n, ord, "remote")
     ELSE Res(r, f, Append(out, Ack0(f)), n, ord, "none")

HandleTcpFin(seg, r, f, out, n, ord) ==
  LET rn == WrapAdd(seg.seq, seg.len)
  IN IF rn = r.recvNext /\ WindowEmpty(r.window)
     THEN LET f2 == SetTcpAcknowledgement(f, IncOrZero(rn))
              r2 == [r EXCEPT !.recvNext = IncOrMax(@)]
          IN IF ~r.stream.rc
             THEN Res([r2 EXCEPT !.stream.wc = TRUE], f2, Append(out, Ack0(f2)),
                      n, ord, "none")
             ELSE Res(RedRemoved, FwdRemoved, Append(out, Ack0(f2)), n, ord, "remote")
     ELSE Res(r, f, Append(out, Ack0(f)), n, ord, "none")

(* The end of handle_tcp_ack, under a lock of its own: a FIN with nothing *)
(* buffered goes to handle_tcp_fin, otherwise "Trigger sending remaining   *)
(* data" with send_tcp_ack.                                                *)
AckTail(seg, r, f, out, n, ord) ==
  IF seg.fin /\ WindowEmpty(r.window)
  THEN HandleTcpFin(seg, r, f, out, n, ord)
  ELSE LET s == SendTcpAck(f, fwded) IN Res(r, s.fwd, out \o s.out, n, ord, "none")

(***************************************************************************)
(* handle_tcp_ack: the set of outcomes of one ACK segment (whether the     *)
(* cool-down has elapsed is not in the model's hands).  A payload that     *)
(* completes bytes at recv_next is handed to stream.send, an await: the    *)
(* handler stops there with the bytes pending (AckResume goes on).         *)
(***************************************************************************)
AckOutcomes(seg) ==
  LET writable == ~red.stream.wc
      r1 == UpdateTcpAcknowledgement(red, seg.ack)
      f1 == SetTcpSendWindow(InvalidateCacheTo(fwd, seg.ack), seg.win)
      w0 == NewWindow(r1, seg)
      rw == [r1 EXCEPT !.window = w0]
      ap == WindowAppend(w0, seg.seq, seg.len)
      \* the delivered bytes are the client's next ones, in order
      ordOk == ap.got = { ModAdd(cl.iss, 1 + dlv + j) : j \in 0 .. ap.n - 1 }
      retransmitted == [rw EXCEPT !.duplicate = 0, !.retransmitted = TRUE]
      coolingDown == IF r1.retransmitted THEN BOOLEAN ELSE {FALSE}
  IN IF red.stream = NoStream
     THEN { Res(red, fwd, << RstSeg(fwd) >>, 0, TRUE, "none") }
     ELSE IF seg.len > 0
     THEN LET r2 == [rw EXCEPT !.window = ap.win]
          IN IF ap.n > 0
             THEN { Res([r2 EXCEPT !.pend = << [seg |-> seg, n |-> ap.n, ord |-> ordOk] >>],
                        f1, << >>, 0, TRUE, "none") }
             ELSE { AckTail(seg, r2, f1, << Ack0(f1) >>, 0, TRUE) }
     ELSE IF ~writable /\ CLen(f1) + QLen(f1) = 0
     THEN { Res(RedRemoved, FwdRemoved, << >>, 0, TRUE, "lastack") }   \* LAST_ACK
     ELSE IF r1.duplicate >= DUPLICATES_BEFORE_FAST_RETRANSMISSION /\ seg.win # 0
     THEN { IF c
            THEN AckTail(seg, rw, f1, << >>, 0, TRUE)
            ELSE IF r1.sackPerm /\ seg.sacks # << >>
            THEN LET sr == RetransmitTcpAckWithout(f1, seg.sacks, fwded)
                 IN IF sr.err
                    THEN Res(rw, sr.fwd, sr.out, 0, TRUE, "none")
                    ELSE AckTail(seg, retransmitted, sr.fwd, sr.out, 0, TRUE)
            ELSE LET gb == RetransmitTcpAck(f1, fwded)
                 IN AckTail(seg, retransmitted, gb.fwd, gb.out, 0, TRUE)
          : c \in coolingDown }
     ELSE { AckTail(seg, rw, f1, << >>, 0, TRUE) }

(* handle_tcp_ack after stream.send(payload).await for the pending bytes: *)
(* on Ok, lock again to add them to the acknowledgement (re-reading the   *)
(* Forwarder, which the worker may have changed meanwhile), move recv_next *)
(* and send a bare ACK, then the tail; on Err, remove the flow and send   *)
(* ACK/RST at the sequence the Forwarder has now.                          *)
ResumeOutcomes ==
  LET p  == Head(red.pend)
      f3 == AddTcpAcknowledgement(fwd, p.n)
      r3 == [red EXCEPT !.recvNext = WrapAdd(@, p.n), !.pend = << >>]
  IN { AckTail(p.seg, r3, f3, << Ack0(f3) >>, p.n, p.ord),
       Res(RedRemoved, FwdRemoved, << AckRstSeg(fwd) >>,
           0, TRUE, "error") }

(* handle_tcp_rst *)
RstOutcomes(seg) ==
  IF red.stream = NoStream
  THEN { Res(red, fwd, << >>, 0, TRUE, "none") }
  ELSE { Res(RedRemoved, FwdRemoved, << >>, 0, TRUE, "rst") }

(* perm_tcp_sack: remember that the client offered SACK-permitted *)
PermTcpSack(r, seg) == IF seg.sackPerm THEN [r EXCEPT !.sackPerm = TRUE] ELSE r

\* mutant: tcp_recv_next_map is set to the SYN's own sequence number
SynOutcomesRecvAtSyn(seg) ==
  IF red.stream # NoStream
  THEN { Res(red, fwd, << >>, 0, TRUE, "none") }
  ELSE { LET f0 == SetTcpAcknowledgement(SetTcpSequence(FwdRemoved, i),
                                         IncOrZero(seg.seq))
             sa == SendTcpAckSyn(f0)
         IN Res(PermTcpSack([RedRemoved EXCEPT !.stream = [rc |-> FALSE, wc |-> FALSE],
                                               !.recvNext = seg.seq,
                                               !.acknowledgement = DecOrMax(i)],
                            seg),
                sa.fwd, sa.out, 0, TRUE, "open")
         : i \in ISS }
       \cup { Res(RedRemoved, FwdRemoved,
                  << AckRstSeg(fwd) >>, 0, TRUE, "error") }

(* handle_tcp_syn: drop it if the flow exists; otherwise connect through   *)
(* the proxy, and on success seed the sequence with rng.gen(), record the  *)
(* peer's sequence and options and send SYN/ACK; on failure send ACK/RST.  *)
SynOutcomes(seg) ==
  IF red.stream # NoStream
  THEN { Res(red, fwd, << >>, 0, TRUE, "none") }
  ELSE { LET f0 == SetTcpAcknowledgement(SetTcpSequence(FwdRemoved, i),
                                         IncOrZero(seg.seq))
             sa == SendTcpAckSyn(f0)
         IN Res(PermTcpSack([RedRemoved EXCEPT !.stream = [rc |-> FALSE, wc |-> FALSE],
                                               !.recvNext = IncOrMax(seg.seq),
                                               !.acknowledgement = DecOrMax(i)],
                            seg),
                sa.fwd, sa.out, 0, TRUE, "open")
         : i \in ISS }
       \cup { Res(RedRemoved, FwdRemoved,
                  << AckRstSeg(fwd) >>, 0, TRUE, "error") }

(***************************************************************************)
(* Steps of the receive thread: Redirector::open takes a captured segment  *)
(* and handle_tcp dispatches it on RST, then ACK, then SYN.                *)
(***************************************************************************)
\* the Redirector holds a StreamWorker for the flow
WorkerUp == red.stream # NoStream

\* bare ACKs carry nothing the client model acts on and are not kept
Inject(out) == r2c' = r2c \cup { s \in Range(out) : s.kind # "ACK0" }

\* a new flow starts its per-flow ghost state afresh
Apply(res) ==
  /\ red' = res.red /\ fwd' = res.fwd
  /\ Inject(res.out)
  /\ inOrder' = (inOrder /\ res.ord)
  /\ event' = res.ev
  /\ IF res.ev = "open"
     THEN /\ iss' = res.out[1].seq /\ fwded' = 0 /\ pEof' = FALSE /\ dlv' = 0
     ELSE /\ dlv' = dlv + res.dlv /\ UNCHANGED <<iss, fwded, pEof>>

\* the link assumption of the runs with FirstSegmentInOrder
FirstSegmentOk(seg) ==
  FirstSegmentInOrder /\ red.stream # NoStream /\ red.window = NoWindow
    => seg.seq = ModAdd(cl.iss, 1)

HandleTcpRst(seg) ==
  /\ seg.kind = "RST"
  /\ \E res \in RstOutcomes(seg) : Apply(res)
  /\ UNCHANGED opens

HandleTcpAck(seg) ==
  /\ seg.kind = "ACK"
  /\ FirstSegmentOk(seg)
  /\ \E res \in AckOutcomes(seg) : Apply(res)
  /\ UNCHANGED opens

HandleTcpSyn(seg) ==
  /\ seg.kind = "SYN"
  /\ ~WorkerUp => opens < MaxOpens
  /\ opens' = IF WorkerUp THEN opens ELSE opens + 1
  /\ \E res \in SynOutcomes(seg) : Apply(res)

\* the receive thread resumes handle_tcp_ack after the await
AckResume ==
  /\ red.pend # << >>
  /\ \E res \in ResumeOutcomes : Apply(res)
  /\ UNCHANGED <<cl, c2r, opens>>

\* the receive thread takes the next frame once the last handler finished
Capture ==
  /\ red.pend = << >>
  /\ \E seg \in c2r :
       /\ c2r' = c2r \ {seg}
       /\ \/ HandleTcpRst(seg) \/ HandleTcpAck(seg) \/ HandleTcpSyn(seg)
       /\ UNCHANGED cl

(***************************************************************************)
(* Steps of the stream worker, while the Redirector holds it.              *)
(***************************************************************************)
\* ForwardStream::forward with one more byte from the proxy
Forward == /\ WorkerUp /\ ~red.stream.rc /\ fwded < PBytes
           /\ LET r == AppendToQueue(fwd, 1, fwded) IN fwd' = r.fwd /\ Inject(r.out)
           /\ fwded' = fwded + 1
           /\ event' = "none"
           /\ UNCHANGED <<red, cl, c2r, iss, pEof, dlv, inOrder, opens>>

\* the proxy ends its stream: the worker is read-closed and calls close
ProxyClose == /\ WorkerUp /\ ~red.stream.rc
              /\ red' = [red EXCEPT !.stream.rc = TRUE]
              /\ LET r == Close(fwd, fwded) IN fwd' = r.fwd /\ Inject(r.out)
              /\ pEof' = TRUE
              /\ event' = "none"
              /\ UNCHANGED <<cl, c2r, iss, fwded, dlv, inOrder, opens>>

\* ForwardStream::tick when the k bytes at the left edge have timed out
TickTimedOut(k) ==
  /\ WorkerUp
  /\ LET r == RetransmitTcpAckTimedout(fwd, k, fwded) IN fwd' = r.fwd /\ Inject(r.out)
  /\ event' = "none"
  /\ UNCHANGED <<red, cl, c2r, iss, fwded, pEof, dlv, inOrder, opens>>

\* ForwardStream::tick: any prefix of the cache may have timed out
Tick == \E k \in 0 .. CLen(fwd) : TickTimedOut(k)

(***************************************************************************)
(* The client host (environment): a TCP endpoint that connects, sends      *)
(* CBytes bytes (retransmitting at will), acknowledges what it received in *)
(* order with SACK blocks for the rest, closes and may abort.              *)
(***************************************************************************)
CSeg(kind, fin, seq, len, win, sacks) ==
  [kind |-> kind, fin |-> fin, seq |-> seq, len |-> len, win |-> win,
   sackPerm |-> cl.sackPerm, sacks |-> sacks,
   ack |-> ModAdd(cl.irs, 1 + cl.rcv + (IF cl.finRcvd THEN 1 ELSE 0))]

CSeq(o) == ModAdd(cl.iss, 1 + o)
CNext == CSeq(cl.sent + (IF cl.finSent THEN 1 ELSE 0))
\* SACK blocks for the bytes received beyond the in-order ones
CSacks ==
  LET starts == { o \in cl.ooo : o - 1 \notin cl.ooo }
      end(o) == Min({ e \in o .. PBytes : e \notin cl.ooo })
      sorted == SetToSortSeq(starts, <)
  IN IF ~cl.sackPerm THEN << >>
     ELSE [i \in DOMAIN sorted |->
             << ModAdd(cl.irs, 1 + sorted[i]), ModAdd(cl.irs, 1 + end(sorted[i])) >>]

Send(seg) == Cardinality(c2r) < MaxInFlight /\ c2r' = c2r \cup {seg}

SynSeg == CSeg("SYN", FALSE, cl.iss, 0, 0, << >>)

ClientConnect ==
  /\ cl.state = "closed"
  /\ \E sp \in SackOffers :
       /\ cl' = [cl EXCEPT !.state = "synsent", !.sackPerm = sp]
       /\ Send([SynSeg EXCEPT !.sackPerm = sp])
  /\ UNCHANGED r2c

ClientResendSyn == cl.state = "synsent" /\ Send(SynSeg) /\ UNCHANGED <<cl, r2c>>

ClientSendData ==
  /\ cl.state = "est" /\ ~cl.finSent
  /\ \E o \in 0 .. Min({cl.sent, CBytes - 1}), w \in Windows :
       /\ Send(CSeg("ACK", FALSE, CSeq(o), 1, w, CSacks))
       /\ cl' = [cl EXCEPT !.sent = Max({@, o + 1})]
  /\ UNCHANGED r2c

ClientSendAck ==
  /\ cl.state = "est"
  /\ \E w \in Windows : Send(CSeg("ACK", FALSE, CNext, 0, w, CSacks))
  /\ UNCHANGED <<cl, r2c>>

ClientSendFin ==
  /\ cl.state = "est" /\ cl.sent = CBytes
  /\ ClientHalfCloses \/ cl.finRcvd
  /\ \E w \in Windows : Send(CSeg("ACK", TRUE, CSeq(CBytes), 0, w, CSacks))
  /\ cl' = [cl EXCEPT !.finSent = TRUE]
  /\ UNCHANGED r2c

ClientAbort ==
  /\ cl.state = "est"
  /\ Send(CSeg("RST", FALSE, CNext, 0, 0, << >>))
  /\ cl' = [cl EXCEPT !.state = "dead"]
  /\ UNCHANGED r2c

\* the client takes in one injected segment
ClientReceive ==
  \E s \in r2c :
    LET off == ModSub(s.seq, ModAdd(cl.irs, 1))
        got == cl.ooo \cup { o \in off .. off + s.len - 1 : o < PBytes }
        rcv == Min({ r \in cl.rcv + s.len .. PBytes : r \notin got })
    IN /\ r2c' = r2c \ {s}
       /\ CASE s.kind = "SYNACK" /\ cl.state = "synsent" ->
                 /\ cl' = [cl EXCEPT !.state = "est", !.irs = s.seq]
                 /\ Send([CSeg("ACK", FALSE, CSeq(0), 0, 0, << >>)
                           EXCEPT !.ack = ModAdd(s.seq, 1), !.win = Max(Windows)])
            [] s.kind = "ACK" /\ cl.state = "est" /\ off = cl.rcv ->
                 /\ cl' = [cl EXCEPT !.rcv = rcv, !.ooo = { o \in got : o >= rcv }]
                 /\ UNCHANGED c2r
            [] s.kind = "ACK" /\ cl.state = "est" /\ off > cl.rcv /\ off < PBytes ->
                 /\ cl' = [cl EXCEPT !.ooo = got]
                 /\ UNCHANGED c2r
            [] s.kind = "FIN" /\ cl.state = "est" /\ off = cl.rcv ->
                 /\ cl' = [cl EXCEPT !.finRcvd = TRUE]
                 /\ UNCHANGED c2r
            [] s.kind \in {"RST", "ACKRST"} /\ cl.state \in {"synsent", "est"} ->
                 /\ cl' = [cl EXCEPT !.state = "dead"]
                 /\ UNCHANGED c2r
            [] OTHER -> UNCHANGED <<cl, c2r>>

\* a step of the client host leaves the Redirector and the ghosts alone
ClientStep(A) ==
  /\ A
  /\ event' = "none"
  /\ UNCHANGED <<red, fwd, iss, fwded, pEof, dlv, inOrder, opens>>

Client ==
  ClientStep(\/ ClientConnect \/ ClientResendSyn \/ ClientSendData \/ ClientSendAck
             \/ ClientSendFin \/ ClientAbort \/ ClientReceive)

\* the link loses a segment in either direction
Lose == /\ \/ \E s \in c2r : c2r' = c2r \ {s} /\ UNCHANGED r2c
           \/ \E s \in r2c : r2c' = r2c \ {s} /\ UNCHANGED c2r
        /\ event' = "none"
        /\ UNCHANGED <<red, fwd, cl, iss, fwded, pEof, dlv, inOrder, opens>>

\* the connection is over: the client is gone, so is the flow, nothing in flight
Done == cl.state = "dead" /\ ~WorkerUp /\ c2r = {} /\ r2c = {}

Init ==
  /\ red = RedRemoved
  /\ fwd = FwdRemoved
  /\ cl \in [iss : CISS, state : {"closed"}, sackPerm : {FALSE}, irs : {0},
             sent : {0}, finSent : {FALSE}, rcv : {0}, ooo : {{}}, finRcvd : {FALSE}]
  /\ c2r = {} /\ r2c = {}
  /\ opens = 0 /\ iss = 0 /\ fwded = 0 /\ pEof = FALSE /\ dlv = 0 /\ inOrder = TRUE
  /\ event = "none"

Next == \/ Capture \/ AckResume \/ Forward \/ ProxyClose \/ Tick \/ Client \/ Lose
        \/ Done /\ UNCHANGED <<red, fwd, cl, c2r, r2c, iss, fwded, pEof, dlv, inOrder, opens>>
           /\ event' = "none"

Spec == Init /\ [][Next]_vars

(***************************************************************************)
(* Fairness.  Redirector::open loops on the capture for ever, and the link *)
(* delivers a segment that is sent again and again (strong fairness of     *)
(* Capture and of the client's receive, since Lose may disable them for a  *)
(* while).  The client's SYN timer fires while it waits for the SYN/ACK.   *)
(* Nothing is assumed of the proxy, of the client's data, or of Tick.      *)
(***************************************************************************)
Fairness ==
  /\ SF_vars(Capture)
  /\ SF_vars(ClientStep(ClientReceive))
  /\ WF_vars(ClientStep(ClientResendSyn))

LiveSpec == Spec /\ Fairness

(***************************************************************************)
(* Properties                                                              *)
(***************************************************************************)
TypeOK ==
  /\ fwd.fin \in BOOLEAN /\ fwd.sendWindow \in 0 .. WIN
  /\ fwd.sequence \in Seqs /\ fwd.acknowledgement \in Seqs
  /\ fwd.cache \in Cache \cup {NoCache} /\ fwd.queue \in Nat \cup {NoQueue}
  /\ red.stream \in [rc : BOOLEAN, wc : BOOLEAN] \cup {NoStream}
  /\ red.recvNext \in Seqs /\ red.acknowledgement \in Seqs
  /\ red.duplicate \in 0 .. DUPLICATES_BEFORE_FAST_RETRANSMISSION
  /\ cl.state \in {"closed", "synsent", "est", "dead"}
  /\ cl.sent \in 0 .. CBytes /\ cl.rcv \in 0 .. PBytes /\ cl.ooo \subseteq 0 .. PBytes - 1
  /\ c2r \subseteq [kind : {"SYN", "ACK", "RST"}, fin : BOOLEAN, seq : Seqs, ack : Seqs,
                    len : 0 .. 1, win : Windows \cup {0}, sackPerm : BOOLEAN,
                    sacks : Seq(Seqs \X Seqs)]
  /\ fwded \in 0 .. PBytes /\ pEof \in BOOLEAN /\ dlv \in Nat /\ inOrder \in BOOLEAN
  /\ event \in {"none", "open", "lastack", "remote", "rst", "error"}

(* Every data segment send_tcp_ack_raw puts on the wire (first sends from  *)
(* send_tcp_ack and every retransmission path) carries the proxy's bytes   *)
(* at the sequence numbers the flow's ISS gives them, and only bytes the   *)
(* proxy has forwarded: the cache, queue and tcp_sequence_map bookkeeping  *)
(* never lets a byte be sent at the wrong place.                           *)
WireSeqConsistent ==
  \A s \in r2c :
    s.kind = "ACK" => s.seq = ModAdd(iss, 1 + s.off) /\ s.off + s.len <= fwded

(* A FIN from send_tcp_fin is only sent once the proxy has closed and it   *)
(* sits right after the last byte the proxy forwarded.                     *)
FinAtEndOfStream ==
  \A s \in r2c : s.kind = "FIN" => pEof /\ s.seq = ModAdd(iss, 1 + fwded)

(* invalidate_cache_to only drops bytes the client has received: every     *)
(* proxy byte left of the cache's left edge is in the client's in-order    *)
(* stream, so no byte is lost without being retransmittable.               *)
CacheDropsOnlyReceived ==
  WorkerUp /\ fwd.cache # NoCache => CacheOff(fwd, fwded) <= cl.rcv

(* Redirector delivers the client's bytes to the proxy (stream.send) in    *)
(* the order the client sent them: the reassembly Window starts where the  *)
(* client's stream does.                                                   *)
InOrderDelivery == inOrder

(* A flow is only torn down by the close paths of handle_tcp_ack (the      *)
(* LAST_ACK check) and handle_tcp_fin ("Close by remote") once both        *)
(* directions are finished: the proxy closed, the client received all its  *)
(* bytes, and the proxy got all the client's bytes.                        *)
NoTeardownLosesData ==
  event \in {"lastack", "remote"} => pEof /\ cl.rcv = fwded /\ dlv = cl.sent

(* Our acknowledgement (the Forwarder's tcp_acknowledgement_map, carried  *)
(* by every segment we send) and the Redirector's tcp_recv_next_map both   *)
(* stand at the client's first byte not yet handed to the proxy, one       *)
(* further once its FIN is taken: handle_tcp_syn, the resumed              *)
(* handle_tcp_ack and handle_tcp_fin move the two maps in step, each with  *)
(* its own wrap idiom, so the client is never told a byte arrived that the *)
(* proxy did not get, and the FIN test at tcp_recv_next_map matches the    *)
(* client's FIN.                                                           *)
AckCountsDelivered ==
  WorkerUp =>
    LET next == ModAdd(cl.iss, 1 + dlv + (IF red.stream.wc THEN 1 ELSE 0))
    IN  fwd.acknowledgement = next /\ red.recvNext = next

(* A client in SYN_SENT whose SYN handle_tcp_syn has taken up (the flow   *)
(* exists) eventually leaves SYN_SENT: it gets our SYN/ACK, or an RST,     *)
(* even when the link loses segments, provided the client keeps resending *)
(* its SYN.  The premise leaves out a failed connect, after which the code *)
(* would connect again and the model (MaxOpens) does not.                 *)
HandshakeCompletes == cl.state = "synsent" /\ WorkerUp ~> cl.state # "synsent"

(* The proxy-to-client direction implements ByteStream: the client holds  *)
(* in order a prefix of the bytes ForwardStream::forward was given, and   *)
(* accepts our FIN only after all of them and after ForwardStream::close  *)
(* (the sequence numbers of send_tcp_ack_raw and the FIN of send_tcp_fin  *)
(* against what the client makes of them).                               *)
ProxyStream == INSTANCE ByteStream
                 WITH N <- PBytes, written <- fwded, eof <- pEof,
                      received <- cl.rcv, finished <- cl.finRcvd,
                      reset <- cl.state = "dead"

ProxyStreamRefined == ProxyStream!Spec

=============================================================================
