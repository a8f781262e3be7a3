------------------------- MODULE MCLoopyChannelMPMC -------------------------
(* Two senders and three receivers on a ring of two places, three elements   *)
(* from each sender: the ring fills, empties and wraps, and threads of both  *)
(* kinds sleep while others overtake them.                                   *)
EXTENDS LoopyChannelMPMC
=============================================================================
