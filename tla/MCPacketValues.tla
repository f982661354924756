--------------------------- MODULE MCPacketValues ---------------------------
(***************************************************************************)
(* Addresses that share two, three or all words with 0 or with each other, *)
(* in user space and in the kernel, and one that no sign extension gives.  *)
(***************************************************************************)
EXTENDS PacketValues

MCIps == {<<1, 1, 0, 0>>, <<0, 1, 65535, 65535>>, <<1, 1, 32768, 0>>}
=============================================================================
