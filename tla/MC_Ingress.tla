------------------------------ MODULE MC_Ingress ------------------------------
(* Two stations on the link: the client (hw1 at ip1) and another host     *)
(* (hw2 at ip2), with local_ip_addr ip0.                                  *)
EXTENDS Ingress

CONSTANTS hw1, hw2, ip0, ip1, ip2

MC_Stations == { <<hw1, ip1>>, <<hw2, ip2>> }
=============================================================================
