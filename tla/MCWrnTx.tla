------------------------------- MODULE MCWrnTx -------------------------------
(***************************************************************************)
(* Small instances of WrnTx.  Frames, the two kinds of frames and the null *)
(* pointer are model values; the ring has two descriptors, so that four    *)
(* frames wrap around it, and the ids wrap as well.                        *)
(***************************************************************************)
EXTENDS WrnTx
=============================================================================
