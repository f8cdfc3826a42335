----------------------------- MODULE RecvWindow -----------------------------
(***************************************************************************)
(* The receive window the Redirector advertises for one TCP flow          *)
(* (src/src/lib.rs).  handle_tcp_syn records the window scale it          *)
(* announces in the SYN/ACK, min(the client's wscale, MAX_RECV_WSCALE);   *)
(* the first ACK creates the reassembly Window with room for              *)
(* u16::MAX << wscale bytes; after every ACK with payload the Forwarder's *)
(* tcp_window_map is set from the room left, and every later segment     *)
(* carries that 16-bit field.  The client, by RFC 7323, may send up to   *)
(* field << (our announced shift) bytes beyond our acknowledgement.      *)
(*                                                                         *)
(* The room left (Window::remaining_size, cache.rs, not in this           *)
(* repository) is any value from 0 to the capacity; Remainings is the    *)
(* part of that range that is enumerated.  Next only stutters: the check  *)
(* is over every (client wscale, room left) pair.                         *)
(***************************************************************************)
EXTENDS Naturals

CONSTANTS ClientWscales,  \* wscale options a client SYN may carry (0 .. 14)
          Remainings      \* room-left values to enumerate

MAX_RECV_WSCALE == 8
U16 == 65536   \* 2^16: the width of the TCP window field

VARIABLES wscale, remaining

vars == <<wscale, remaining>>

\* handle_tcp_syn: the shift we announce, recv_wscale = min(wscale, 8)
RecvWscale(w) == IF w < MAX_RECV_WSCALE THEN w ELSE MAX_RECV_WSCALE

\* tcp_cache_map.entry(key).or_insert_with(Window::with_capacity(..)):
\* (u16::MAX as usize) << wscale
WindowCapacity(w) == (U16 - 1) * 2^w

(* handle_tcp_ack, after delivering a payload or on a retransmitted or    *)
(* unordered one: set_tcp_window(.., (cache.remaining_size() << wscale)   *)
(* as u16), the shift applied to the left and the cast keeping the low 16 *)
(* bits.                                                                   *)
SetTcpWindow(r, w) == (r * 2^w) % U16

Init == /\ wscale \in { RecvWscale(w) : w \in ClientWscales }
        /\ remaining \in { r \in Remainings : r <= WindowCapacity(wscale) }

Next == UNCHANGED vars

Spec == Init /\ [][Next]_vars

-----------------------------------------------------------------------------
(* The window the client is granted, the advertised field scaled by the   *)
(* shift we announced, fits the room left in the reassembly Window and    *)
(* falls short of it by less than one scaling unit: the client neither    *)
(* overruns the Window nor is told it is full while it has room (spec test 2 *)
(* says the window is reduced by the bytes taken in, shifted; handle_tcp_ack *)
(* line 1385).                                                             *)
AdvertisedWindowFitsRoom ==
  LET granted == SetTcpWindow(remaining, wscale) * 2^wscale
  IN  /\ granted <= remaining
      /\ remaining < granted + 2^wscale
=============================================================================
