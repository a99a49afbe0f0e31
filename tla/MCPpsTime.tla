------------------------------ MODULE MCPpsTime ------------------------------
(***************************************************************************)
(* A clock of three cycles a second, whose low word wraps every second     *)
(* second, so that every register rolls over during a reading.             *)
(***************************************************************************)
EXTENDS PpsTime
=============================================================================
