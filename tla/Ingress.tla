------------------------------- MODULE Ingress -------------------------------
(***************************************************************************)
(* The receive loop of the Redirector (src/src/lib.rs), composed with the *)
(* UDP port translation of UdpNat: Redirector::open takes one frame at a  *)
(* time and hands it to handle_arp or handle_ipv4; handle_ipv4 keeps only *)
(* frames from src_ip_addr, learns the client's hardware address from the *)
(* first of them, and passes UDP datagrams (whole, or completed by the     *)
(* Defraggler) to handle_udp.  The Forwarder sends every frame to the     *)
(* hardware address it was told: ARP replies from handle_arp, and the      *)
(* datagrams the DatagramWorkers forward back through send_udp.            *)
(*                                                                         *)
(* Stations are the hosts of the link, each a hardware and an IP address; *)
(* the client is the one whose address is src_ip_addr.  TCP frames go to  *)
(* TcpFlow and are left out here.                                          *)
(***************************************************************************)
EXTENDS UdpNat, FiniteSets

CONSTANTS Stations,                   \* <<hardware address, IP address>> pairs
          HARDWARE_ADDR_UNSPECIFIED,  \* the Forwarder's src_hardware_addr before learning
          SRC_IP,                     \* src_ip_addr: the client's address
          LOCAL_IP,                   \* local_ip_addr of Redirector::new ...
          NoIp                        \* ... or None

ASSUME /\ \A st \in Stations : st[1] # HARDWARE_ADDR_UNSPECIFIED
       /\ Cardinality({ st \in Stations : st[2] = SRC_IP }) = 1

VARIABLES is_tx_src_hardware_addr_set,  \* Redirector: learnt already?
          src_hardware_addr,            \* Forwarder: where its frames go
          sent_to                       \* ghost: hardware addresses frames went to

link == <<is_tx_src_hardware_addr_set, src_hardware_addr, sent_to>>
allVars == <<vars, link>>

\* the client's hardware address
ClientHw == CHOOSE h \in { st[1] : st \in Stations } : <<h, SRC_IP>> \in Stations

IpAddrs == { st[2] : st \in Stations } \cup {LOCAL_IP}

(* "Set forwarder's hardware address": set_src_hardware_addr once, from   *)
(* the first frame that passes the source check.                          *)
Learn(hw) ==
  IF ~is_tx_src_hardware_addr_set
  THEN /\ src_hardware_addr' = hw
       /\ is_tx_src_hardware_addr_set' = TRUE
  ELSE UNCHANGED <<src_hardware_addr, is_tx_src_hardware_addr_set>>

\* mutant: any request for local_ip_addr is answered and learnt from
HandleArpAnySender(st, target) ==
  /\ LOCAL_IP # NoIp
  /\ target = LOCAL_IP
  /\ Learn(st[1])
  /\ sent_to' = sent_to \cup {src_hardware_addr'}
  /\ UNCHANGED vars

(* send_arp_reply: local_ip_addr is at local_hardware_addr, sent to      *)
(* src_hardware_addr as it is after the learning.                          *)
SendArpReply == sent_to' = sent_to \cup {src_hardware_addr'}

(* handle_arp for a request from station st asking for target: only a    *)
(* request of (src_ip_addr, local_ip_addr) is answered, by learning from  *)
(* the ARP sender hardware address, then send_arp_reply.                  *)
HandleArp(st, target) ==
  /\ LOCAL_IP # NoIp
  /\ st[2] = SRC_IP /\ target = LOCAL_IP          \* arp.is_request_of(..)
  /\ Learn(st[1])
  /\ SendArpReply
  /\ UNCHANGED vars

(* handle_ipv4 for a UDP datagram from station st and client port src:    *)
(* frames not from src_ip_addr are dropped; otherwise learn from the      *)
(* Ethernet source, then either the Defraggler keeps a fragment back      *)
(* (defrag.add returns None) or the datagram goes to handle_udp.          *)
HandleIpv4(st, src) ==
  /\ st[2] = SRC_IP
  /\ Learn(st[1])
  /\ UNCHANGED sent_to
  /\ \/ UNCHANGED vars                               \* a fragment is held
     \/ HandleUdp(src)

(* A DatagramWorker forwards a reply: ForwardDatagram::forward, send_udp *)
(* and send_ethernet to the Forwarder's src_hardware_addr.                *)
ForwardDatagram(p) ==
  /\ datagrams[p].state = "open"
  /\ sent_to' = sent_to \cup {src_hardware_addr}
  /\ UNCHANGED <<vars, is_tx_src_hardware_addr_set, src_hardware_addr>>

IngressInit ==
  /\ Init
  /\ is_tx_src_hardware_addr_set = FALSE
  /\ src_hardware_addr = HARDWARE_ADDR_UNSPECIFIED
  /\ sent_to = {}

(* Redirector::open: the next captured frame is an ARP or an IPv4 frame;  *)
(* the worker threads forward and close on their own.                     *)
IngressNext ==
  \/ \E st \in Stations, target \in IpAddrs : HandleArp(st, target)
  \/ \E st \in Stations, src \in Srcs : HandleIpv4(st, src)
  \/ \E p \in Ports : ForwardDatagram(p)
  \/ \E p \in Ports : WorkerClose(p) /\ UNCHANGED link

IngressSpec == IngressInit /\ [][IngressNext]_allVars

-----------------------------------------------------------------------------
(* The link state keeps its type, and so does the translation table. *)
IngressTypeOK ==
  /\ TypeOK
  /\ is_tx_src_hardware_addr_set \in BOOLEAN
  /\ src_hardware_addr \in { st[1] : st \in Stations } \cup {HARDWARE_ADDR_UNSPECIFIED}
  /\ sent_to \subseteq { st[1] : st \in Stations } \cup {HARDWARE_ADDR_UNSPECIFIED}

(* Every frame the Forwarder sends, ARP reply or forwarded datagram, goes *)
(* to the client's hardware address: never to the unspecified address it *)
(* starts with, and never to another station of the link (the source     *)
(* checks of handle_arp and handle_ipv4 before the learning, and the     *)
(* learning before any worker exists).                                    *)
FramesToClient == sent_to \subseteq {ClientHw}
=============================================================================
