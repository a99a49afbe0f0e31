------------------------------- MODULE TxLink -------------------------------
(***************************************************************************)
(* What the transmit side of the White Rabbit NIC promises its network     *)
(* stack, without descriptors: a bounded first-in first-out link.  A frame *)
(* is accepted while fewer than Capacity frames are in flight, is refused  *)
(* only when the link is full, and leaves on the wire in the order of      *)
(* acceptance, exactly once and unaltered.                                 *)
(***************************************************************************)
EXTENDS Naturals, Sequences

CONSTANTS Frames,    (* The frames the stack may submit, each once.        *)
          Capacity   (* How many frames the link holds.                    *)

VARIABLES flight,    (* The frames accepted and not yet on the wire.       *)
          wire,      (* The frames sent, oldest first.                     *)
          refused    (* The frames turned away because the link was full.  *)

linkVars == <<flight, wire, refused>>

LinkInit == flight = <<>> /\ wire = <<>> /\ refused = {}

Accept(f) ==
  /\ Len(flight) < Capacity
  /\ flight' = Append(flight, f)
  /\ UNCHANGED <<wire, refused>>

Refuse(f) ==
  /\ Len(flight) = Capacity
  /\ refused' = refused \cup {f}
  /\ UNCHANGED <<flight, wire>>

Deliver ==
  /\ flight # <<>>
  /\ flight' = Tail(flight)
  /\ wire' = Append(wire, Head(flight))
  /\ UNCHANGED refused

LinkNext ==
  \/ \E f \in Frames : Accept(f) \/ Refuse(f)
  \/ Deliver

LinkSpec == LinkInit /\ [][LinkNext]_linkVars /\ WF_linkVars(Deliver)

=============================================================================
