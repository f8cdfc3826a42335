------------------------------ MODULE IPv4Send ------------------------------
(***************************************************************************)
(* The emission side of the Forwarder below TCP (src/src/lib.rs):          *)
(* send_udp cuts a UDP datagram into IPv4 fragments that fit the MTU, and  *)
(* every datagram to a destination takes the identification              *)
(* ipv4_identification_map[dst], which is bumped once the datagram (or its *)
(* last fragment) is out.  All of this runs under the Forwarder mutex, so  *)
(* each call is one step; TCP segments (send_ipv4_with_transport) take     *)
(* identifications from the same counters.                                 *)
(*                                                                         *)
(* Payload bytes are abstracted to counts: a fragment on the wire is its   *)
(* destination, identification, byte offset, length and more-fragments     *)
(* flag, with the ghost fields dg (which datagram) and size (its size).    *)
(***************************************************************************)
EXTENDS Integers, FiniteSets, Sequences

CONSTANTS MTUs,      \* values the mtu of Forwarder::new may take
          Dsts,      \* destination addresses
          Payloads,  \* UDP payload lengths the proxy may hand over
          IdMod,     \* 2^16: the u16 width of the identification
          MaxSends   \* datagrams sent in a behaviour

\* Ipv4::new(..).len() and Udp::new(..).len(): headers without options
IPV4_HEADER == 20
UDP_HEADER == 8

VARIABLES mtu, ipv4_identification_map, wire, sent

vars == <<mtu, ipv4_identification_map, wire, sent>>

Frag(off, len, more) == [off |-> off, len |-> len, more |-> more]

\* mutant: the rounding down to multiples of 8 is left out
RECURSIVE FragmentLoopUnaligned(_, _, _)
FragmentLoopUnaligned(size, n, acc) ==
  IF n >= size THEN acc
  ELSE LET length0 == IF size - n < mtu - IPV4_HEADER THEN size - n ELSE mtu - IPV4_HEADER
           remain  == size - n - length0
           length  == IF remain > 0 /\ remain < 8 THEN length0 - 8 ELSE length0
           frag    == Frag(n, length, remain > 0)
       IN IF length <= 0 THEN Append(acc, frag)
          ELSE FragmentLoopUnaligned(size, n + length, Append(acc, frag))

(***************************************************************************)
(* The loop of send_udp over n, from 0 to size: take what fits the MTU;    *)
(* if more remains, round down to a multiple of 8 and, if fewer than 8     *)
(* bytes would remain, leave 8 more for the last fragment.  A length that  *)
(* would not advance n (the loop would spin) or is negative (the usize     *)
(* subtraction underflows) ends the loop with that fragment.               *)
(***************************************************************************)
RECURSIVE FragmentLoop(_, _, _)
FragmentLoop(size, n, acc) ==
  IF n >= size THEN acc
  ELSE LET length0 == IF size - n < mtu - IPV4_HEADER THEN size - n ELSE mtu - IPV4_HEADER
           length1 == IF size - n - length0 > 0 THEN (length0 \div 8) * 8 ELSE length0
           remain  == size - n - length1
           length  == IF remain > 0 /\ remain < 8 THEN length1 - 8 ELSE length1
           frag    == Frag(n, length, remain > 0)
       IN IF length <= 0 THEN Append(acc, frag)
          ELSE FragmentLoop(size, n + length, Append(acc, frag))

\* the fragments of send_udp for a payload of p bytes
Fragments(p) == FragmentLoop(UDP_HEADER + p, 0, << >>)

\* increase_ipv4_identification: checked_add(1).unwrap_or(0)
IncreaseIpv4Identification(m, dst) ==
  [m EXCEPT ![dst] = IF @ + 1 < IdMod THEN @ + 1 ELSE 0]

\* the wire records of a datagram's fragments
OnWire(dst, frags, size) ==
  { [dst |-> dst, id |-> ipv4_identification_map[dst], off |-> frags[i].off,
     len |-> frags[i].len, more |-> frags[i].more, dg |-> sent, size |-> size]
    : i \in DOMAIN frags }

(* send_udp: every fragment carries the current identification; the       *)
(* counter is bumped by send_ipv4_last_fragment, or by                    *)
(* send_ipv4_with_transport (send_udp_raw) for an unfragmented datagram.  *)
SendUdp(dst, p) ==
  /\ sent < MaxSends
  /\ wire' = wire \cup OnWire(dst, Fragments(p), UDP_HEADER + p)
  /\ ipv4_identification_map' = IncreaseIpv4Identification(ipv4_identification_map, dst)
  /\ sent' = sent + 1
  /\ UNCHANGED mtu

(* send_ipv4_with_transport for a TCP segment (header only here). *)
SendIpv4WithTransport(dst) ==
  /\ sent < MaxSends
  /\ wire' = wire \cup OnWire(dst, << Frag(0, IPV4_HEADER, FALSE) >>, IPV4_HEADER)
  /\ ipv4_identification_map' = IncreaseIpv4Identification(ipv4_identification_map, dst)
  /\ sent' = sent + 1
  /\ UNCHANGED mtu

Init == /\ mtu \in MTUs
        /\ ipv4_identification_map = [d \in Dsts |-> 0]
        /\ wire = {}
        /\ sent = 0

Next == \/ \E dst \in Dsts, p \in Payloads : SendUdp(dst, p)
        \/ \E dst \in Dsts : SendIpv4WithTransport(dst)

Spec == Init /\ [][Next]_vars

-----------------------------------------------------------------------------
(* The fragments of every datagram reassemble to it (spec 4.5, "UDP send  *)
(* with fragmentation"): each fits the MTU and has a positive length, its *)
(* offset is a multiple of 8 (the fragment_offset field is n / 8), the    *)
(* first carries the whole UDP header, each fragment but the last is      *)
(* followed by the next, and exactly one ends the datagram.               *)
FragmentsReassemble ==
  \A d \in { f.dg : f \in wire } :
    LET F == { f \in wire : f.dg = d } IN
    /\ \A f \in F : /\ 0 < f.len /\ f.len <= mtu - IPV4_HEADER
                    /\ f.off % 8 = 0
                    /\ f.more => \E g \in F : g.off = f.off + f.len
    /\ \E f \in F : f.off = 0 /\ f.len >= UDP_HEADER
    /\ Cardinality({ f \in F : ~f.more }) = 1
    /\ \A f \in F : ~f.more => f.off + f.len = f.size
=============================================================================
