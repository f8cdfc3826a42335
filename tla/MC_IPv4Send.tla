---------------------------- MODULE MC_IPv4Send ----------------------------
(***************************************************************************)
(* IPv4Send for TLC: every MTU from the IPv4 minimum of 68 over two full   *)
(* turns of the 8-byte alignment, and payloads up to 150 bytes, so that    *)
(* datagrams go out whole and in two, three and four fragments (middle     *)
(* fragments included), with every remainder below 8.                      *)
(***************************************************************************)
EXTENDS IPv4Send

MC_MTUs == 68 .. 83
MC_Payloads == 0 .. 150
=============================================================================
