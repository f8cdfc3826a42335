----------------------------- MODULE MC_TcpFlow -----------------------------
(***************************************************************************)
(* Instantiates TcpFlow for TLC: a 4-bit sequence space, a plausibility    *)
(* window of 5, one-byte segments, one or two bytes each way.  The ISS of  *)
(* both sides is chosen so that the connection never wraps (the wrap is    *)
(* checked on its own, in the run over MC_TcpFlow_wrap.cfg).            *)
(***************************************************************************)
EXTENDS TcpFlow

MC_ISS == {3}
MC_CISS == {8}
\* an ISS two below the top of the sequence space: the second data byte
\* of the flow is the first one past the wrap
MC_ISS_wrap == {MAXU - 1}
MC_Windows == {2}
MC_SackOffers == {TRUE}

\* bound the state space: the byte counts are bounded by CBytes and PBytes
\* already; the rest is bounded by MaxInFlight
====
