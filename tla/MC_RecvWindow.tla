---------------------------- MODULE MC_RecvWindow ----------------------------
(* The room left in the reassembly Window: empty to nearly empty, around  *)
(* the 16-bit boundary, and near the capacity for each scale.             *)
EXTENDS RecvWindow

MC_Remainings ==
  (0 .. 300) \cup (65530 .. 65540)
  \cup { WindowCapacity(w) - d : w \in 0 .. MAX_RECV_WSCALE, d \in 0 .. 2 }
=============================================================================
