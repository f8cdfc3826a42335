--------------------------- MODULE MC_Retransmit ---------------------------
(***************************************************************************)
(* Checks retransmit_tcp_ack_without, as Forwarder models it, against what *)
(* selective retransmission should send: every byte of the cache that no   *)
(* SACK block covers, and nothing else.  The cache (all of it sent, so     *)
(* tcp_sequence_map at its right edge) and up to MaxSacks blocks are       *)
(* chosen once in Init; Next only stutters.  The caches do not wrap, so    *)
(* the wrap faults of disjoint_u32_range are left to MC_SeqArith.          *)
(***************************************************************************)
EXTENDS Forwarder

CONSTANTS MaxSacks   \* SACK blocks per segment (4 in TCP, fewer here)

VARIABLES f, sacks

vars == <<f, sacks>>

\* the caches of a flow whose bytes were all sent, short of the wrap
SentCaches ==
  { [FwdRemoved EXCEPT !.cache = [left |-> l, len |-> n],
                       !.sequence = l + n] :
      l \in Seqs, n \in 1 .. WIN }
  \cap { r \in [fin : {FALSE}, sendWindow : {0}, sequence : Seqs,
                acknowledgement : {0}, cache : Cache, queue : {NoQueue}] :
           r.cache.left + r.cache.len <= MAXU }

\* blocks a client announces in the ACK that triggers selective
\* retransmission: bytes it holds above its acknowledgement (the cache's
\* left edge, invalidate_cache_to having run first), up to the right edge
SackBlocksOf(c) ==
  { <<a, b>> \in (c.left + 1 .. c.left + c.len) \X (c.left + 1 .. c.left + c.len) :
      a < b }

Init == /\ f \in SentCaches
        /\ sacks \in UNION { [1 .. k -> SackBlocksOf(f.cache)] : k \in 1 .. MaxSacks }

Next == UNCHANGED vars

Spec == Init /\ [][Next]_vars

\* the sequence numbers a list of segments carries
SeqsOf(out) == UNION { RangeSeqs(<<s.seq, ModAdd(s.seq, s.len)>>) : s \in Range(out) }

\* retransmit_tcp_ack_without resends exactly the bytes of [left, right)
\* that the peer's SACK blocks do not cover (spec 4.5, "resend only the
\* remaining disjoint ranges"; a SACK covering the whole cache resends
\* nothing), so the tail the code adds after the last range
\* ("Update the last range") must add nothing.
SelectiveResendOnlyUnsacked ==
  LET r == RetransmitTcpAckWithout(f, sacks, f.cache.len)
  IN SeqsOf(r.out) = RangeSeqs(<<f.cache.left, f.cache.left + f.cache.len>>)
                     \ UNION { RangeSeqs(sacks[i]) : i \in DOMAIN sacks }
=============================================================================
