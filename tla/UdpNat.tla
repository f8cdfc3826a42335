------------------------------- MODULE UdpNat -------------------------------
(***************************************************************************)
(* The UDP port translation of the Redirector (src/src/lib.rs): every     *)
(* client source port is mapped to the local port of a DatagramWorker,   *)
(* and at most PORT_COUNT of them are kept in an LRU cache; when it is    *)
(* full, the least recently used local port is taken from its source and *)
(* given to the new one.                                                   *)
(*                                                                         *)
(*   datagram_map  the Vec<u16> from client source port to local port     *)
(*                 (0 = none)                                              *)
(*   udp_lru       the LruCache<u16, u16> from local port to source port, *)
(*                 a sequence from least to most recently used             *)
(*   datagrams     the HashMap<u16, DatagramWorker>: per local port, the   *)
(*                 worker's state and its src_port ("none" = never bound)  *)
(*                                                                         *)
(* A worker is closed by its own thread (in socks.rs) when the proxy side *)
(* ends; DatagramWorker::bind asks the OS for a free port, which can be   *)
(* the port of a closed worker when PortReuse holds.                      *)
(***************************************************************************)
EXTENDS Naturals, Sequences, SequencesExt

CONSTANTS Srcs,        \* client source ports (nonzero)
          Ports,       \* local ports the OS may hand out (nonzero)
          PORT_COUNT,  \* capacity of udp_lru
          PortReuse    \* may bind return the port of a closed worker?

ASSUME /\ 0 \notin Srcs \cup Ports
       /\ PORT_COUNT \in Nat \ {0}
       /\ PortReuse \in BOOLEAN

VARIABLES datagram_map, udp_lru, datagrams

vars == <<datagram_map, udp_lru, datagrams>>

Worker == [state : {"none", "open", "closed"}, src : Srcs \cup {0}]

LruKeys(l) == { l[i][1] : i \in DOMAIN l }

(* LruCache::put: an existing key is updated and made most recent; a new  *)
(* key evicts the least recently used entry when the cache is full.       *)
LruPut(l, k, v) ==
    IF k \in LruKeys(l)
    THEN Append(SelectSeq(l, LAMBDA e : e[1] # k), <<k, v>>)
    ELSE IF Len(l) = PORT_COUNT THEN Append(Tail(l), <<k, v>>)
                                ELSE Append(l, <<k, v>>)

(* LruCache::get: a hit is made most recent. *)
LruGet(l, k) ==
    IF k \in LruKeys(l)
    THEN Append(SelectSeq(l, LAMBDA e : e[1] # k),
                l[SelectInSeq(l, LAMBDA e : e[1] = k)])
    ELSE l

(* Mutants of get_local_udp_port: the previous source is not unmapped,   *)
(* and the popped pair's fields are swapped.                              *)
GetLocalUdpPortKeepPrev(src) ==
    LET local == datagram_map[src] IN
    IF local = 0
    THEN IF Len(udp_lru) < PORT_COUNT
         THEN [port |-> 0, map |-> datagram_map, lru |-> udp_lru]
         ELSE LET pair == Head(udp_lru)
              IN [port |-> pair[1],
                  map  |-> [datagram_map EXCEPT ![src] = pair[1]],
                  lru  |-> LruPut(Tail(udp_lru), pair[1], src)]
    ELSE [port |-> local, map |-> datagram_map, lru |-> LruGet(udp_lru, local)]

GetLocalUdpPortSwapped(src) ==
    LET local == datagram_map[src] IN
    IF local = 0
    THEN IF Len(udp_lru) < PORT_COUNT
         THEN [port |-> 0, map |-> datagram_map, lru |-> udp_lru]
         ELSE LET pair == Head(udp_lru)
                  m1 == IF pair[2] # 0
                        THEN [datagram_map EXCEPT ![pair[2]] = 0]
                        ELSE datagram_map
              IN [port |-> pair[1],
                  map  |-> [m1 EXCEPT ![src] = pair[2]],
                  lru  |-> LruPut(Tail(udp_lru), pair[1], src)]
    ELSE [port |-> local, map |-> datagram_map, lru |-> LruGet(udp_lru, local)]

(* get_local_udp_port: the local port for src (0 = bind a new one) and    *)
(* the map and LRU it leaves behind.                                      *)
GetLocalUdpPort(src) ==
    LET local == datagram_map[src] IN
    IF local = 0
    THEN IF Len(udp_lru) < PORT_COUNT
         THEN [port |-> 0, map |-> datagram_map, lru |-> udp_lru]
         ELSE LET pair == Head(udp_lru)
                  m1 == IF pair[2] # 0
                        THEN [datagram_map EXCEPT ![pair[2]] = 0]
                        ELSE datagram_map
              IN [port |-> pair[1],
                  map  |-> [m1 EXCEPT ![src] = pair[1]],
                  lru  |-> LruPut(Tail(udp_lru), pair[1], src)]
    ELSE [port |-> local, map |-> datagram_map, lru |-> LruGet(udp_lru, local)]

(* The ports DatagramWorker::bind can return. *)
FreePorts ==
    { p \in Ports : datagrams[p].state = "none"
                    \/ (PortReuse /\ datagrams[p].state = "closed") }

(* Mutant of handle_udp: a reused worker is not re-pointed to src. *)
HandleUdpNoReplace(src) ==
    LET g == GetLocalUdpPort(src)
        is_create == g.port = 0 \/ datagrams[g.port].state = "closed"
    IN  /\ g.port # 0 => datagrams[g.port].state # "none"
        /\ IF is_create
           THEN \/ \E bind_port \in FreePorts :
                     /\ datagrams' = [datagrams EXCEPT ![bind_port] =
                                         [state |-> "open", src |-> src]]
                     /\ datagram_map' = [g.map EXCEPT ![src] = bind_port]
                     /\ udp_lru' = LruPut(g.lru, bind_port, src)
                \/ /\ datagram_map' = g.map
                   /\ udp_lru' = g.lru
                   /\ UNCHANGED datagrams
           ELSE /\ datagram_map' = g.map
                /\ udp_lru' = g.lru
                /\ UNCHANGED datagrams

(* handle_udp for a datagram from src: look the port up, then bind a new  *)
(* worker (when there is none or it is closed) or re-point the worker to  *)
(* src, then send.  A failed bind returns early, after the lookup has     *)
(* already changed the map and the LRU.                                   *)
HandleUdp(src) ==
    LET g == GetLocalUdpPort(src)
        is_create == g.port = 0 \/ datagrams[g.port].state = "closed"
        is_set == ~is_create /\ datagrams[g.port].src # src
    IN  /\ g.port # 0 => datagrams[g.port].state # "none"  \* unwrap()
        /\ IF is_create
           THEN \/ \E bind_port \in FreePorts :
                     /\ datagrams' = [datagrams EXCEPT ![bind_port] =
                                         [state |-> "open", src |-> src]]
                     /\ datagram_map' = [g.map EXCEPT ![src] = bind_port]
                     /\ udp_lru' = LruPut(g.lru, bind_port, src)
                \/ /\ datagram_map' = g.map          \* bind(..).await?
                   /\ udp_lru' = g.lru
                   /\ UNCHANGED datagrams
           ELSE /\ datagram_map' = g.map
                /\ udp_lru' = g.lru
                /\ datagrams' = IF is_set
                                THEN [datagrams EXCEPT ![g.port].src = src]
                                ELSE datagrams

(* The worker's thread ends (the proxy association closes). *)
WorkerClose(p) ==
    /\ datagrams[p].state = "open"
    /\ datagrams' = [datagrams EXCEPT ![p].state = "closed"]
    /\ UNCHANGED <<datagram_map, udp_lru>>

Init ==
    /\ datagram_map = [s \in Srcs |-> 0]
    /\ udp_lru = << >>
    /\ datagrams = [p \in Ports |-> [state |-> "none", src |-> 0]]

Next ==
    \/ \E src \in Srcs : HandleUdp(src)
    \/ \E p \in Ports : WorkerClose(p)

Spec == Init /\ [][Next]_vars

-----------------------------------------------------------------------------
(* The variables keep their types, and the LRU never exceeds PORT_COUNT. *)
TypeOK ==
    /\ datagram_map \in [Srcs -> Ports \cup {0}]
    /\ udp_lru \in Seq(Ports \X (Srcs \cup {0}))
    /\ Len(udp_lru) <= PORT_COUNT
    /\ datagrams \in [Ports -> Worker]

(* No two client source ports share a local port: the replies a worker    *)
(* receives go to one client only (datagram_map against the port reuse   *)
(* in get_local_udp_port and the bind in handle_udp).                     *)
NoSharedPort ==
    \A s1, s2 \in Srcs :
        s1 # s2 /\ datagram_map[s1] # 0 => datagram_map[s1] # datagram_map[s2]

(* A mapped source port's open worker sends its replies to that source. *)
WorkerServesMapped ==
    \A s \in Srcs :
        datagram_map[s] # 0 /\ datagrams[datagram_map[s]].state = "open"
            => datagrams[datagram_map[s]].src = s

(* No more than PORT_COUNT local ports are mapped at once: the NAT table  *)
(* stays bounded (get_local_udp_port recycles instead of binding).        *)
MappedWithinCap ==
    Cardinality({ datagram_map[s] : s \in Srcs } \ {0}) <= PORT_COUNT
=============================================================================
