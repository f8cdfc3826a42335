# TLA+ models of pcap2socks

pcap2socks (`src/src/lib.rs`) captures frames from a network interface and
redirects the TCP and UDP traffic of a client host on the link through a SOCKS
proxy. It does this by running a TCP endpoint of its own for every client
connection.

## The system

| Part | Code | State | Operations |
|---|---|---|---|
| Redirector, TCP receive side | `handle_tcp`, `handle_tcp_syn/ack/fin/rst`, `update_tcp_acknowledgement`, `remove` | `streams`, `tcp_recv_next_map`, `tcp_acknowledgement_map` (the client's last ACK), `tcp_duplicate_map`, `tcp_last_retransmission_map`, `tcp_sack_perm_map`, `tcp_cache_map` (a reassembly `Window`) | one handler per captured segment, on the receive thread (`Redirector::open`) |
| Forwarder, TCP send side | `append_to_queue`, `send_tcp_ack`, `send_tcp_ack_raw`, `retransmit_tcp_ack*`, `send_tcp_fin`, `invalidate_cache_to`, `remove` | `tcp_queue_map` (proxy bytes not yet sent), `tcp_cache_map` (a `Queue` of bytes sent but not acknowledged), `tcp_sequence_map`, `tcp_acknowledgement_map`, `tcp_send_window_map`, `tcp_fin_map` | methods called under the `Forwarder` mutex, from the receive thread and from the stream worker |
| Stream worker (`ForwardStream`) | `forward`, `tick`, `close` | the SOCKS stream (in `socks.rs`, not in this repository) | callbacks on another thread: proxy data, retransmission timer, proxy EOF |
| Sequence arithmetic | the `checked_add(..).unwrap_or_else(..)` idioms, `disjoint_u32_range` | none | pure |
| UDP NAT | `handle_udp`, `get_local_udp_port` | `datagram_map`, `udp_lru` (PORT_COUNT ports) | per datagram |
| UDP send and fragmentation | `send_udp`, `send_ipv4_*_fragment` | `ipv4_identification_map` | per datagram |
| ARP and address learning | `handle_arp`, `handle_ipv4`, `send_arp_reply`, `set_src_hardware_addr` | `is_tx_src_hardware_addr_set`, the Forwarder's `src_hardware_addr` | per frame |
| Advertised receive window | `handle_tcp_syn` (`recv_wscale`), `handle_tcp_ack` (`set_tcp_window`) | `tcp_wscale_map`, the Forwarder's `tcp_window_map` | per ACK with payload |

**How the parts interact.** For each client connection the Redirector keeps
its receive-side state, and the Forwarder keeps the send-side state under the
same key. A client segment is handled on the receive thread, which proceeds as
follows:
- It updates the client's ACK and duplicate count.
- It invalidates the Forwarder's cache up to that ACK.
- It appends the payload to the Window and delivers the in-order bytes to the
  proxy stream.
- It acknowledges them.
- It runs one of three paths: fast retransmission, go-back-N, or SACK-based.
- It handles a FIN, then pushes queued proxy bytes.

Concurrently, the stream worker calls the Forwarder:
- `forward` queues proxy bytes and sends them within the client's window.
- `tick` resends timed-out bytes or the FIN.
- `close` records the proxy's EOF and sends the FIN once everything is
  acknowledged.

## Correctness, per part

- **Send side.** Every byte the proxy forwards is put on the wire at
  `ISS + 1 + offset` and at no other sequence number. This holds for first
  sends, go-back-N, selective and timeout retransmissions alike. A byte leaves
  the cache only after the client has it. The FIN sits right after the last
  byte.
- **Receive side.** The client's bytes reach the proxy exactly once, in order,
  and our acknowledgement counts only delivered bytes. The Forwarder's
  acknowledgement and the Redirector's `tcp_recv_next_map` are two copies of
  the same position and must move in step.
- **Teardown.** A flow is removed by LAST_ACK or close-by-remote only when both
  directions are finished. Otherwise the removal loses data.
- **Arithmetic.** The wrap idioms should equal arithmetic modulo 2^32. They
  do not: `unwrap_or_else(|| a - (u32::MAX - b))` is one too high whenever the
  sum wraps, which `wire_seq_wrap` shows on the wire.
- **Advertised window.** The window field, scaled by the shift we announced,
  should fit the room left in the reassembly Window and fall short of it by
  less than one scaling unit.
- **Frames to the client.** Every frame the Forwarder sends goes to the
  client's hardware address.
- **Proxy-to-client stream.** The client holds, in order, a prefix of what the
  proxy forwarded, and it gets our FIN only after all of it (the abstract
  `ByteStream`).
- **Handshake liveness.** A handshake completes despite loss, as long as the
  client keeps resending its SYN.
- **Selective retransmission.** It resends exactly the bytes that no SACK
  block covers.
- **UDP NAT.** No two client ports share a local port, a mapped port's worker
  replies to its client, and at most `PORT_COUNT` ports are mapped.
- **UDP emission.** The fragments of a datagram reassemble to it. (Datagrams
  to one destination should never share an identification; with every send
  succeeding the model bumps the counter once per datagram by construction,
  so no run checks it, and the send failure that would break it is listed as
  a hazard at line 926.)

## Modules

- **`ByteStream`** is the abstract specification of one direction of a
  connection. A writer appends bytes and ends the stream. A reader takes in a
  growing prefix, learns of the end only after the last byte, and may be
  reset. `TcpFlow` instantiates it for the proxy-to-client direction, with
  the mapping `written <- fwded`, `eof <- pEof`, `received <- cl.rcv`,
  `finished <- cl.finRcvd`, `reset <- cl.state = "dead"`.
- **`SeqArith`** has two parts:
  - The code's helpers, written exactly as the code writes them, with the u32
    width as the constant `SeqBits` and `MAX_U32_WINDOW_SIZE` as `WIN`:
    - `WrapAdd` and `WrapSub` are the `checked_*` / `unwrap_or_else` idioms.
    - `IncOrZero`, `IncOrMax` and `DecOrMax` are the fixed-fallback
      increments.
    - `DisjointU32Range` is the classification in `disjoint_u32_range`.
  - The reference definitions `ModAdd`, `ModSub` and `RangeSeqs`.
- **`Forwarder`** models the send side of one flow. The six per-key map
  entries form one record `fwd`.
  - Every method is an operator from `fwd` to `[fwd, out]`, where `out` is the
    segments it injects. The setters (`SetTcpSendWindow`, `SetTcpSequence`,
    `SetTcpAcknowledgement`, `AddTcpAcknowledgement`) return the record.
  - `send_tcp_ack_raw` is the RECURSIVE `SegmentLoop`:
    - It cuts the payload into segments of `MSS` bytes.
    - It advances `tcp_sequence_map` only when that is ahead within `WIN`.
  - `retransmit_tcp_ack_without` works in three steps:
    1. It folds `disjoint_u32_range` over the SACK blocks.
    2. It appends the "last range" tail exactly as the code computes it.
    3. It sends the pieces with `SendPieces`. That stops at the first
       `Queue::get` error, as the `?` does.
  - Bytes are counts. Each data segment carries the ghost field `off`, its
    first byte's offset in the proxy stream.
  - The `Queue` of `cache.rs`, which is not in this repository, is a left edge
    and a length.
- **`TcpFlow`** models one flow end to end. Its variables:
  - `red` is the Redirector state;
  - `fwd` is the Forwarder state;
  - `cl` is the client host;
  - `c2r` and `r2c` are the two directions of the link, as sets, so segments
    can be reordered and identical ones merge;
  - ghosts: `iss`, `fwded` (bytes the proxy forwarded), `pEof`, `dlv` (bytes
    delivered to the proxy), `inOrder`, `opens`, `event` (the teardown path the
    last step took).

  Its actions:
  - The receive thread's step is `Capture`. It takes any segment from `c2r` and
    dispatches it as `handle_tcp` does: RST, else ACK, else SYN.
    `handle_tcp_ack` is split at its `stream.send(..).await`: the part before
    it ends with the delivery pending in `red.pend`, and `AckResume` is the
    part after it (acknowledge the delivered bytes, then ACK or FIN). The
    stream worker's `Forward`, `Tick` and `ProxyClose` can run in between, as
    they can while the receive thread waits on the proxy. While a delivery is
    pending, `Capture` is disabled, as the receive loop is.
    - `SynOutcomes`, `AckOutcomes` and `RstOutcomes` give the set of outcomes
      of a whole handler. The outcomes range over every value of `rng.gen()`
      in `ISS`, the success or failure of `StreamWorker::connect` and
      `stream.send`, and whether the retransmission cool-down has elapsed.
    - `HandleTcpFin` is `handle_tcp_fin` as `handle_tcp_ack` calls it.
  - The worker's steps are `Forward` (one proxy byte), `ProxyClose` and `Tick`.
    `Tick` may find any prefix of the cache timed out, since time is
    abstracted.
  - The client (`Client*`) is a correct TCP host. It connects, resends its
    SYN, sends and resends data bytes, and sends ACKs with SACK blocks for what
    it holds out of order. It half-closes or closes and may abort.
  - `Lose` drops a segment in either direction.
  - `Tick` is split into `TickTimedOut(k)`, one tick for each number of
    timed-out bytes.
  - `Done` is the final stutter once the client is gone, the flow removed and
    the link empty.

- **`MC_Retransmit`** chooses once a cache whose bytes were all sent, and up
  to two SACK blocks inside it. It compares what `RetransmitTcpAckWithout`
  sends with the cache minus the blocks.
- **`UdpNat`** models `handle_udp` and `get_local_udp_port`. Its state:
  - `datagram_map`, from client port to local port;
  - `udp_lru`, a sequence from least to most recently used, with the
    `LruCache` semantics of `put` (which evicts when full), `get` and
    `pop_lru`;
  - `datagrams`, with each worker's state (none, open, closed) and `src_port`.

  Its actions:
  - `HandleUdp(src)` is the whole handler. It does the lookup, then a bind
    (any free port, or a failure that returns after the lookup has changed
    the map) or a re-point (`set_src_port`).
  - `WorkerClose(p)` is a worker's own thread ending.
  - `PortReuse` lets bind return the port of a closed worker, as an OS may.
- **`RecvWindow`** models the window we advertise: `RecvWscale` (the
  clamped shift of `handle_tcp_syn`), `WindowCapacity` (the Window's
  capacity, `u16::MAX << wscale`) and `SetTcpWindow` (the field,
  `(remaining << wscale) as u16`, with the cast as `% 2^16`). `Init` picks
  the client's wscale and the room left; `Next` only stutters.
- **`Ingress`** extends `UdpNat` with the receive loop's frame dispatch:
  - `HandleArp(st, target)` answers only a request of `src_ip_addr` for
    `local_ip_addr`, learning the sender's hardware address first;
  - `HandleIpv4(st, src)` drops frames not from `src_ip_addr`, learns from
    the Ethernet source, then either the Defraggler holds a fragment or the
    datagram goes to `HandleUdp`;
  - `ForwardDatagram(p)` is a worker's reply, sent to the Forwarder's
    `src_hardware_addr`;
  - `Learn` is `set_src_hardware_addr` under the
    `is_tx_src_hardware_addr_set` guard. The ghost `sent_to` records every
    hardware address a frame went to. `MC_Ingress` puts two stations on the
    link, one of them the client.
- **`IPv4Send`** models `send_udp`'s fragment loop (the RECURSIVE
  `FragmentLoop`), `send_udp_raw`, the two fragment senders,
  `send_ipv4_with_transport` and `increase_ipv4_identification`. The wire is
  a set of fragment records. Each record carries the ghost fields `dg` (which
  datagram) and `size`. `MC_IPv4Send` sets the MTUs and payloads.

## Runs

| Run | Config | Expect | Shows |
|---|---|---|---|
| `tcp_flow_wire` | `MC_TcpFlow_a.cfg` | pass | Under loss, reordering, client half-close, duplicate ACKs, fast retransmission (go-back-N and SACK) and timeouts, without a wrap, several things hold. Every data byte and FIN is on the right sequence number (`WireSeqConsistent`, `FinAtEndOfStream`). The cache only drops bytes the client holds (`CacheDropsOnlyReceived`). The proxy-to-client direction refines `ByteStream` (`ProxyStreamRefined`, a PROPERTY). Also checks `TypeOK`. |
| `tcp_flow_close` | `MC_TcpFlow_b.cfg` | pass | If the first ACK-flagged segment arrives in order and the client closes second, the client's bytes reach the proxy in order (`InOrderDelivery`). Close-by-remote then waits for both directions (`NoTeardownLosesData`); the LAST_ACK path needs the client's FIN taken while the proxy is open, which this run never reaches, so it is checked only by `premature_teardown`. The Forwarder's acknowledgement and the Redirector's `tcp_recv_next_map` both stand at the client's next byte not yet handed to the proxy (`AckCountsDelivered`). |
| `premature_teardown` | `MC_TcpFlow_teardown.cfg` | violation | When the client half-closes first, close-by-remote (and LAST_ACK) remove the flow with proxy bytes unacknowledged. |
| `window_base` | `MC_TcpFlow_window.cfg` | violation | When the handshake ACK and the first byte are lost, the second byte is delivered first. |
| `wire_seq_wrap` | `MC_TcpFlow_wrap.cfg` | violation | With ISS = 2^SeqBits − 2, the first byte after the wrap is sent one sequence number too far. The cause is the `checked_add(..).unwrap_or_else(..)` idiom, which gives the modular sum + 1 whenever it wraps. |
| `window_advert` | `MC_RecvWindow.cfg` | violation | With the client's wscale 1 and one byte of room, the field is `(1 << 1) as u16 = 2`, which the client scales to 4 bytes (`AdvertisedWindowFitsRoom`). The shift goes the wrong way, and the cast truncates once the room reaches 2^(16-wscale). |
| `handshake_hangs` | `MC_TcpFlow_handshake.cfg` | violation | Under `LiveSpec`, once `handle_tcp_syn` has taken the client's SYN up, a lost SYN/ACK leaves the client in SYN_SENT for ever (`HandshakeCompletes`, whose premise requires the flow to exist, so that a failed connect, after which the code would connect again and the model does not, is not what is found). Its resent SYNs are dropped because the flow exists, and the SYN/ACK is never resent. |
| `sr_resends_sacked` | `MC_Retransmit.cfg` | violation | With the cache [0,2) and the SACK block [1,2), the "last range" tail resends the SACKed byte (`SelectiveResendOnlyUnsacked`). |
| `udp_nat` | `MC_Ingress.cfg` | pass | Three client ports, four local ports, an LRU of 2, two stations on the link. While ARP requests and datagrams arrive from both stations, ports are recycled, workers close and binds fail, no two clients share a port (`NoSharedPort`), a mapped port's open worker replies to its client (`WorkerServesMapped`), and every frame sent goes to the client's hardware address (`FramesToClient`). This assumes the OS never hands out a closed worker's port again. Also checks `IngressTypeOK`. |
| `udp_nat_unbounded` | `MC_UdpNat_cap.cfg` | violation | Rebinding a closed worker while the LRU is full evicts another client's LRU entry without unmapping it. Three ports then stay mapped with `PORT_COUNT = 2` (`MappedWithinCap`). |
| `udp_port_reuse` | `MC_UdpNat_reuse.cfg` | violation | When bind returns a closed worker's port, its old client keeps the mapping and shares the port with the new one (`NoSharedPort`). |
| `ipv4_send` | `MC_IPv4Send.cfg` | pass | For every MTU from 68 to 83 and payloads up to 150 bytes, one datagram (UDP or TCP) is sent. Its fragments, up to four with middle fragments among them, reassemble (`FragmentsReassemble`). |

Each property of a passing run has a mutant in `PROJECT.json`, a plausible
slip in the code it covers, and the run finds the mutant's violation:
- `send_tcp_ack` draining more than the queue holds;
- `invalidate_cache_to` following stale ACKs;
- `send_tcp_ack` sending from the cache's left edge;
- a FIN sent without the drained test;
- the reassembly Window re-created on every ACK;
- a FIN accepted away from `recv_next`;
- `tcp_recv_next_map` set to the SYN's own sequence number;
- timed-out bytes resent at `tcp_sequence_map` (against the refinement);
- the previous source left mapped on reuse, the popped pair's fields swapped,
  and no re-point of a reused worker (the NAT);
- the fragment length not rounded to 8;
- `handle_arp` answering (and learning from) any sender.

## Bounds and why they are enough

The bounds are:
- `SeqBits = 4` (16 sequence numbers) and `WIN = 5`. This keeps the
  plausibility window below half the space, as 16 MiB is of 4 GiB.
- `MSS = 1`, so every byte is a segment and every byte can be lost or
  reordered alone.
- The client sends 1 byte in the wire run and 2 in the close run, and the proxy
  sends up to 2 bytes.
- Up to 2 client segments are in flight (`MaxInFlight`).
- One SYN may open the flow (`MaxOpens`). This is a bound of the model, not
  of the code: after a failed connect the code would take a resent SYN up
  again, the model does not.
- The client advertises a window of 2, so the window fills with the proxy's 2
  bytes.

Why these bounds are enough:
- Two proxy bytes are enough for a cache with one byte acknowledged and one
  not. That is what selective and partial retransmission need.
- Two client bytes are enough to reorder the client's stream.
- Fast retransmission needs three duplicate ACKs. These accumulate through
  resends, since `update_tcp_acknowledgement` also counts data segments.
- The passing runs pick ISS values that do not wrap. The wrap is shown
  separately by `wire_seq_wrap`.

Both passing TCP runs reach every action and every disjunct of `Next`. They
take one to three minutes each: about 630k and 1.1M distinct states.

Bounds of the other modules:
- **UDP NAT.** Three clients and an LRU of two make the LRU fill and a port
  be stolen. Four local ports leave a free port for a rebind after that.
- **Fragmentation.** MTUs 68..83 cover every remainder of `mtu - 20` modulo 8
  twice. Payloads 0..150 give whole datagrams and 2, 3 and 4 fragments (so the
  middle-fragment branch of the loop runs), with every
  last-fragment remainder below 8. The MTU is at least 68, the IPv4 minimum;
  below 36 the loop would spin or underflow.
- **Advertised window.** The client's wscale is one of 0, 1, 7, 8 and 14
  (below, at and above the clamp of 8). The room left is every value up to
  300, the values around 2^16, and the three values below each capacity:
  the places where the shift and the cast change behaviour.
- **Ingress.** Two stations, one of them at `src_ip_addr`, and a
  `local_ip_addr`: enough for a request from the wrong station to arrive
  before, and after, the client's first frame.
- **Handshake run.** It uses `CBytes = 0` and `PBytes = 1`. The handshake
  does not depend on data.

Two environment switches restrict the close run, and each exists because of a
violation run:
- `FirstSegmentInOrder` keeps the `window_base` bug out of it.
- `ClientHalfCloses = FALSE` keeps the `premature_teardown` bug out of it.
  With it, the client's FIN is only ever taken on the close-by-remote path,
  which removes the flow, so the "one further once the FIN is taken" part of
  `AckCountsDelivered` is not reached there.

## Fairness

`LiveSpec == Spec /\ Fairness` assumes three things:
- **Strong fairness of `Capture`.** `Redirector::open` loops forever on the
  capture. The link delivers a segment that is sent again and again. `Lose`
  can disable delivery for a while, hence strong fairness.
- **Strong fairness of the client's `ClientReceive`.** The argument is the
  same, for the other direction.
- **Weak fairness of `ClientResendSyn`.** This is the client's SYN timer.

Nothing is assumed of the proxy, the client's data, `Tick` or `AckResume`
(the proxy may never take the bytes of a `stream.send`).

A passing liveness run for data delivery was tried. It needs fairness of the
retransmission timer and of the client's ACKs. TLC checks it too slowly at
the close run's size, so it is not kept.

## Not modelled, and why

- **Several flows at once.** The per-key maps are independent, except for the
  shared mutex.
- **The lock sections of `handle_tcp_ack` other than the await.** The part
  before `stream.send(..).await` and the part after it are one step each;
  the worker callbacks interleave at the await, where the lock is released
  for longest.
- **The connect race of `handle_tcp_syn`** (hazard at line 1529). When the
  stream worker starts forwarding relative to `connect` returning is decided
  in `socks.rs`.
- **Our SACK blocks, timestamps, MSS option values.** Not modelled. The
  advertised window is modelled on its own in `RecvWindow`; in `TcpFlow` the
  client ignores it.
- **The client's validation of our RST.** The modelled client accepts any
  RST; the sequence number 0 that `send_tcp_rst` uses after a removal is
  listed as a hazard at line 1493.
- **I/O errors of `send_ipv4_with_transport` and `send_ethernet`.** Not
  modelled. The partial failures they would cause are listed as hazards, at
  lines 572 and 926.
- **Interface selection, frame parsing and the Defraggler's reassembly.**
  These are parsing and I/O; `Ingress` keeps only their outcome (a frame
  from a station, a fragment held or a datagram completed).
- **`send_to` of a datagram worker.** This is I/O.
- **`socks.rs`, `cache.rs`, `packet` and `pcap`.** These are not in this
  repository. `Queue` and `Window` are modelled from their documented
  behaviour.

## Plan for the next steps

1. A liveness property that the client's FIN is eventually taken. The
   hazard at line 1542 is caught by `AckCountsDelivered` once the client's
   ISN is `u32::MAX`; the passing runs start the client at ISN 8, so that
   case is recorded as a hazard rather than checked.
2. The client-to-proxy direction as a second `ByteStream` instance, with byte
   identity.
3. A liveness run for data delivery at a smaller size.
4. A client that validates RST sequence numbers (hazard at line 1493).
