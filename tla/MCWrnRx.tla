------------------------------- MODULE MCWrnRx -------------------------------
(***************************************************************************)
(* A small instance of WrnRx: a ring of two descriptors that five frames   *)
(* wrap around twice, with room for the device to find the ring full.      *)
(***************************************************************************)
EXTENDS WrnRx
=============================================================================
