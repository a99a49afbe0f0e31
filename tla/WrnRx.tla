-------------------------------- MODULE WrnRx --------------------------------
(***************************************************************************)
(* The receive side of the wr-nic driver (wr_nic/nic-core.c): the RCOMP    *)
(* part of wrn_interrupt, the tasklet wrn_rx_interrupt and                 *)
(* __wrn_rx_descriptor.  How a frame gets its time of day is in PpsTime.   *)
(*                                                                         *)
(* The device (external) fills the EMPTY descriptors in ring order, raises *)
(* RCOMP, and drops frames when the next descriptor is not EMPTY.  The     *)
(* handler acknowledges RCOMP, masks it and schedules the tasklet, which   *)
(* drains the ring and unmasks RCOMP.  The handler also runs for TCOMP,    *)
(* and then serves RCOMP too: it never compares the status with the mask.  *)
(***************************************************************************)
EXTENDS Integers, Sequences

CONSTANTS
  NDesc,       (* WRN_NR_DESC: 8 in the code.                              *)
  MaxFrames    (* Bound: the frames that arrive.                           *)

ASSUME RxAssumption == NDesc \in Nat \ {0} /\ MaxFrames \in Nat

Desc == 0 .. NDesc - 1

\* What the device writes of a frame: fine, or with ERROR set or without its
\* OOB block.
Kinds == {"good", "error"}
Frame == [n : Nat, kind : Kinds]

VARIABLES
  \* The device.
  empty,      (* EMPTY of rx1.                                             *)
  regs,       (* What rx1 says of the frame in each descriptor.            *)
  buf,        (* The frame in each descriptor's buffer.                    *)
  hwRx,       (* The descriptor the device fills next.                     *)
  arrived,    (* How many frames have arrived.                             *)
  rcomp,      (* The RCOMP bit of the interrupt status register.           *)
  tcomp,      (* The TCOMP bit, raised by the transmit side.               *)
  rxOn,       (* RCOMP is enabled in the interrupt mask.                   *)
  \* The hard interrupt handler and the scheduler of tasklets.
  irq,        (* Where wrn_interrupt is.                                   *)
  sched,      (* The tasklet is scheduled.                                 *)
  \* The tasklet.
  pc,         (* Where it is.                                              *)
  nextRx,     (* wrn->next_rx                                              *)
  r1,         (* The kind read from rx1.                                   *)
  skb,        (* The number of the frame copied into the skb.              *)
  \* History.
  stored,     (* The frames the device put into the ring, oldest first.    *)
  handled     (* Those delivered or counted as errors, oldest first.       *)

device == <<empty, regs, buf, hwRx, arrived, stored>>
intr   == <<rcomp, tcomp, rxOn, irq, sched>>
vars   == <<device, intr, pc, nextRx, r1, skb, handled>>

\* wrn_probe gives every descriptor to the device, zeroes next_rx and enables
\* all interrupts.
Init ==
  /\ empty = [d \in Desc |-> TRUE]
  /\ regs = [d \in Desc |-> "good"] /\ buf = [d \in Desc |-> 0]
  /\ hwRx = 0 /\ arrived = 0
  /\ rcomp = FALSE /\ tcomp = FALSE /\ rxOn = TRUE
  /\ irq = "idle" /\ sched = FALSE
  /\ pc = "off" /\ nextRx = 0 /\ r1 = "good" /\ skb = 0
  /\ stored = <<>> /\ handled = <<>>

NextDesc(d) == (d + 1) % NDesc

-----------------------------------------------------------------------------
(* The device (external).                                                  *)

HwStore(kind) ==
  /\ arrived < MaxFrames /\ empty[hwRx]
  /\ arrived' = arrived + 1
  /\ regs' = [regs EXCEPT ![hwRx] = kind] /\ buf' = [buf EXCEPT ![hwRx] = arrived']
  /\ stored' = Append(stored, [n |-> arrived', kind |-> kind])
  /\ empty' = [empty EXCEPT ![hwRx] = FALSE]
  /\ hwRx' = NextDesc(hwRx)
  /\ rcomp' = TRUE
  /\ UNCHANGED <<tcomp, rxOn, irq, sched, pc, nextRx, r1, skb, handled>>

\* "No buffers were available when receiving a packet."
HwDrop ==
  /\ arrived < MaxFrames /\ ~empty[hwRx]
  /\ arrived' = arrived + 1
  /\ UNCHANGED <<empty, regs, buf, hwRx, stored, intr, pc, nextRx, r1, skb, handled>>

HwTxDone ==
  /\ ~tcomp
  /\ tcomp' = TRUE
  /\ UNCHANGED <<device, rcomp, rxOn, irq, sched, pc, nextRx, r1, skb, handled>>

Hw == (\E k \in Kinds : HwStore(k)) \/ HwDrop \/ HwTxDone

-----------------------------------------------------------------------------
(* wrn_interrupt.  The status register is read once; the handler is not    *)
(* entered again before it returns.                                        *)

IrqUnchanged == UNCHANGED <<device, pc, nextRx, r1, skb, handled>>

\* The status may or may not show an interrupt that is masked.
IrqEnter ==
  /\ irq = "idle" /\ ((rcomp /\ rxOn) \/ tcomp)
  /\ \E seen \in {rcomp, rcomp /\ rxOn} : irq' = IF seen THEN "ack" ELSE "idle"
  /\ tcomp' = FALSE
  /\ UNCHANGED <<rcomp, rxOn, sched>> /\ IrqUnchanged

IrqAck ==
  /\ irq = "ack"
  /\ irq' = "mask"
  /\ rcomp' = FALSE
  /\ UNCHANGED <<tcomp, rxOn, sched>> /\ IrqUnchanged

IrqMask ==
  /\ irq = "mask"
  /\ irq' = "sched"
  /\ rxOn' = FALSE
  /\ UNCHANGED <<rcomp, tcomp, sched>> /\ IrqUnchanged

IrqSchedule ==
  /\ irq = "sched"
  /\ irq' = "idle"
  /\ sched' = TRUE
  /\ UNCHANGED <<rcomp, tcomp, rxOn>> /\ IrqUnchanged

Irq == IrqEnter \/ IrqAck \/ IrqMask \/ IrqSchedule

-----------------------------------------------------------------------------
(* The tasklet, wrn_rx_interrupt.  It never runs twice at a time, and may  *)
(* be scheduled again while it runs.                                       *)

TaskStart ==
  /\ pc = "off" /\ sched
  /\ pc' = "check"
  /\ sched' = FALSE
  /\ UNCHANGED <<device, rcomp, tcomp, rxOn, irq, nextRx, r1, skb, handled>>

\* Mutant of RxEmpty: the tasklet ends without enabling RCOMP.
RxEmptyMasked ==
  /\ pc = "check" /\ empty[nextRx]
  /\ pc' = "off"
  /\ UNCHANGED <<device, intr, nextRx, r1, skb, handled>>

RxEmpty ==
  /\ pc = "check" /\ empty[nextRx]
  /\ pc' = "unmask"
  /\ UNCHANGED <<device, intr, nextRx, r1, skb, handled>>

\* Mutant of RxUnmask: what came in meanwhile is acknowledged.
RxUnmaskAck ==
  /\ pc = "unmask"
  /\ pc' = "off"
  /\ rxOn' = TRUE /\ rcomp' = FALSE
  /\ UNCHANGED <<device, tcomp, irq, sched, nextRx, r1, skb, handled>>

\* writel(NIC_EIC_IER_RCOMP) and return.
RxUnmask ==
  /\ pc = "unmask"
  /\ pc' = "off"
  /\ rxOn' = TRUE
  /\ UNCHANGED <<device, rcomp, tcomp, irq, sched, nextRx, r1, skb, handled>>

\* Mutant of RxRead: the descriptor is free before its buffer is copied.
RxReadRelease ==
  /\ pc = "check" /\ ~empty[nextRx]
  /\ r1' = regs[nextRx]
  /\ empty' = [empty EXCEPT ![nextRx] = TRUE]
  /\ pc' = IF r1' = "error" THEN "drop" ELSE "copy"
  /\ UNCHANGED <<regs, buf, hwRx, arrived, stored, intr, nextRx, skb, handled>>

\* __wrn_rx_descriptor reads rx1, rx2 and rx3.
RxRead ==
  /\ pc = "check" /\ ~empty[nextRx]
  /\ r1' = regs[nextRx]
  /\ pc' = IF r1' = "error" THEN "drop" ELSE "copy"
  /\ UNCHANGED <<device, intr, nextRx, skb, handled>>

\* err_out: the descriptor goes back, an error is counted.
RxDrop ==
  /\ pc = "drop"
  /\ empty' = [empty EXCEPT ![nextRx] = TRUE]
  /\ handled' = Append(handled, [n |-> buf[nextRx], kind |-> "error"])
  /\ nextRx' = NextDesc(nextRx)
  /\ pc' = "check"
  /\ UNCHANGED <<regs, buf, hwRx, arrived, stored, intr, r1, skb>>

RxCopy ==
  /\ pc = "copy"
  /\ skb' = buf[nextRx]
  /\ pc' = "release"
  /\ UNCHANGED <<device, intr, nextRx, r1, handled>>

\* "mark it free ASAP"
RxRelease ==
  /\ pc = "release"
  /\ empty' = [empty EXCEPT ![nextRx] = TRUE]
  /\ pc' = "deliver"
  /\ UNCHANGED <<regs, buf, hwRx, arrived, stored, intr, nextRx, r1, skb, handled>>

\* The time stamp, netif_receive_skb, and the next descriptor.
RxDeliver ==
  /\ pc = "deliver"
  /\ handled' = Append(handled, [n |-> skb, kind |-> "good"])
  /\ nextRx' = NextDesc(nextRx)
  /\ pc' = "check"
  /\ UNCHANGED <<device, intr, r1, skb>>

Tasklet ==
  \/ TaskStart \/ RxEmpty \/ RxUnmask
  \/ RxRead \/ RxDrop \/ RxCopy \/ RxRelease \/ RxDeliver

-----------------------------------------------------------------------------
Next == Hw \/ Irq \/ Tasklet

\* Handlers and scheduled tasklets run; frames need not arrive and TX need
\* not complete.
Spec == Init /\ [][Next]_vars
FairSpec == Spec /\ WF_vars(Irq) /\ WF_vars(Tasklet)

-----------------------------------------------------------------------------
(* Properties.                                                             *)

\* Every variable has its type; in particular the two ring indices stay
\* inside the descriptor tables, which the code indexes unchecked.
TypeOK ==
  /\ empty \in [Desc -> BOOLEAN]
  /\ regs \in [Desc -> Kinds] /\ buf \in [Desc -> Nat]
  /\ hwRx \in Desc /\ arrived \in Nat
  /\ rcomp \in BOOLEAN /\ tcomp \in BOOLEAN /\ rxOn \in BOOLEAN
  /\ irq \in {"idle", "ack", "mask", "sched"} /\ sched \in BOOLEAN
  /\ pc \in {"off", "check", "unmask", "drop", "copy", "release", "deliver"}
  /\ nextRx \in Desc /\ r1 \in Kinds /\ skb \in Nat
  /\ stored \in Seq(Frame) /\ handled \in Seq(Frame)

\* Frames are handled in the order in which the device stored them, each
\* once, each the way the device described it, with the bytes the device
\* stored: no descriptor is given back before its buffer was copied, and the
\* tasklet visits the ring in the device's order however late it runs.
HandledInOrder ==
  /\ Len(handled) <= Len(stored)
  /\ \A k \in DOMAIN handled : handled[k] = stored[k]

\* A frame that waits at next_rx is not forgotten: the tasklet looks at the
\* ring again or is scheduled, the handler is about to schedule it, or RCOMP
\* is pending.  This is the race between the tasklet's last look at the ring
\* and its writing of the mask.
WakeupPending ==
  ~empty[nextRx] => pc \notin {"off", "unmask"} \/ sched \/ irq # "idle" \/ rcomp

\* A masked RCOMP has someone who will unmask it, also when the handler ran
\* for TCOMP in the middle of the tasklet.
MaskedForAWhile ==
  ~rxOn => pc # "off" \/ sched \/ irq = "sched"

\* Every frame the device stored is delivered or counted as an error.
AllHandled ==
  \A k \in 1 .. MaxFrames : Len(stored) >= k ~> Len(handled) >= k
=============================================================================
