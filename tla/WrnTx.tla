-------------------------------- MODULE WrnTx --------------------------------
(***************************************************************************)
(* The transmit side of the wr-nic driver: wr_nic/nic-core.c (the          *)
(* descriptor ring, wrn_start_xmit and wrn_tx_interrupt) together with     *)
(* wr_nic/timestamp.c (the TX timestamp interrupt).                        *)
(*                                                                         *)
(* Three actors share the ring.                                            *)
(*   xmit     wrn_start_xmit.  The network stack serialises its calls, but *)
(*            the driver's own lock calls are commented out, so interrupts *)
(*            run between any two of its steps.                            *)
(*   irq      wrn_interrupt and wrn_tstamp_interrupt.  wrn_handler calls   *)
(*            one of them at a time.                                       *)
(*   device   the NIC and the timestamping unit (external): it sends the   *)
(*            READY descriptors in ring order, clears READY, raises TCOMP  *)
(*            and delivers timestamps, before or after TCOMP or never.     *)
(*                                                                         *)
(* A socket buffer is a member of Frames; what is followed of it is where  *)
(* the driver keeps a pointer to it and how often it was freed.            *)
(***************************************************************************)
EXTENDS Naturals, Sequences, FiniteSets

CONSTANTS
  Frames,    (* The socket buffers the stack submits, each at most once.   *)
  Stamped,   (* Those with SKBTX_HW_TSTAMP set in tx_flags.                *)
  TooLong,   (* Those longer than WRN_MTU.                                 *)
  NDesc,     (* WRN_NR_DESC: 8 in the code.                                *)
  IdMod,     (* Frame ids are taken modulo this: 2^16 in the code.         *)
  NoSkb      (* The null pointer of skb_desc[].skb.                        *)

ASSUME TxAssumption ==
  /\ Stamped \subseteq Frames
  /\ TooLong \subseteq Frames
  /\ NDesc \in Nat \ {0}
  /\ IdMod \in Nat /\ IdMod > 1
  /\ NoSkb \notin Frames

Desc == 0 .. NDesc - 1
Ids  == 0 .. IdMod - 1

VARIABLES
  \* The device's descriptor registers and what it sends from them.
  ready,     (* READY of tx1: TRUE while the device owns the descriptor.   *)
  txd,       (* The frame in the buffer, the id and TS_E of tx1.           *)
  hwTail,    (* The descriptor the device sends next.                      *)
  early,     (* The timestamp of that descriptor was already delivered.    *)
  owed,      (* Ids of sent frames whose timestamp is still to come.       *)
  tsFifo,    (* The timestamping unit's FIFO: a sequence of ids.           *)
  tcomp,     (* The TCOMP bit of the interrupt status register.            *)
  \* struct wrn_dev.
  skb,       (* skb_desc[i].skb                                            *)
  frameId,   (* skb_desc[i].frame_id                                       *)
  head,      (* next_tx_head                                               *)
  tail,      (* next_tx_tail                                               *)
  id,        (* wrn->id, the counter                                       *)
  \* wrn_start_xmit: where it is, its skb, desc and id.
  pc, cur, curDesc, curId,
  \* The interrupt handlers: where they are, the slot and skb in hand.
  irq, irqDesc, irqSkb,
  \* What became of each socket buffer.
  stat,      (* What wrn_start_xmit did with it.                           *)
  freed,     (* How many times the driver freed it.                        *)
  stamped,   (* Those reported to the stack with a timestamp.              *)
  wire       (* The frames sent, oldest first.                             *)

device == <<ready, txd, hwTail, early, owed, tsFifo, tcomp, wire>>
ring   == <<skb, frameId, head, tail, id>>
xmit   == <<pc, cur, curDesc, curId, stat>>
irqs   == <<irq, irqDesc, irqSkb, freed, stamped>>
vars   == <<device, ring, xmit, irqs>>

Empty == [frame |-> NoSkb, id |-> 0, ts |-> FALSE]

Init ==
  /\ ready = [d \in Desc |-> FALSE]
  /\ txd = [d \in Desc |-> Empty]
  /\ hwTail = 0 /\ early = FALSE /\ owed = {} /\ tsFifo = <<>> /\ tcomp = FALSE
  /\ skb = [d \in Desc |-> NoSkb]
  /\ frameId = [d \in Desc |-> 0]
  /\ head = 0 /\ tail = 0 /\ id = 0
  /\ pc = "idle" /\ cur = NoSkb /\ curDesc = 0 /\ curId = 0
  /\ irq = "idle" /\ irqDesc = 0 /\ irqSkb = NoSkb
  /\ stat = [f \in Frames |-> "new"]
  /\ freed = [f \in Frames |-> 0]
  /\ stamped = {}
  /\ wire = <<>>

\* __wrn_next_desc.
NextDesc(d) == (d + 1) % NDesc

-----------------------------------------------------------------------------
(* wrn_start_xmit.                                                         *)

\* id = (wrn->id++) & 0xffff, and once more when that gives 0; frame_id and
\* the field of tx1 keep 16 bits of the second result.
NewId == IF id % IdMod = 0 THEN (id + 1) % IdMod ELSE id % IdMod
NextId == IF id % IdMod = 0 THEN id + 2 ELSE id + 1

\* skb->len > WRN_MTU: counted as an error, -EMSGSIZE.
XmitTooLong(f) ==
  /\ pc = "idle" /\ stat[f] = "new" /\ f \in TooLong
  /\ stat' = [stat EXCEPT ![f] = "toolong"]
  /\ UNCHANGED <<device, ring, irqs, pc, cur, curDesc, curId>>

\* Mutant of XmitRefuse: full is tested with the indices, one slot too early.
XmitRefuseEarly(f) ==
  /\ pc = "idle" /\ stat[f] = "new" /\ f \notin TooLong
  /\ NextDesc(head) = hwTail
  /\ id' = NextId
  /\ stat' = [stat EXCEPT ![f] = "refused"]
  /\ UNCHANGED <<device, irqs, skb, frameId, head, tail, pc, cur, curDesc, curId>>

\* __wrn_alloc_tx_desc finds READY set: the id is spent, -ENOMEM is returned.
XmitRefuse(f) ==
  /\ pc = "idle" /\ stat[f] = "new" /\ f \notin TooLong
  /\ ready[head]
  /\ id' = NextId
  /\ stat' = [stat EXCEPT ![f] = "refused"]
  /\ UNCHANGED <<device, irqs, skb, frameId, head, tail, pc, cur, curDesc, curId>>

\* Mutant of XmitAlloc: READY is not tested.
XmitAllocUnchecked(f) ==
  /\ pc = "idle" /\ stat[f] = "new" /\ f \notin TooLong
  /\ head' = NextDesc(head)
  /\ id' = NextId
  /\ pc' = "skb" /\ cur' = f /\ curDesc' = head /\ curId' = NewId
  /\ stat' = [stat EXCEPT ![f] = "held"]
  /\ UNCHANGED <<device, irqs, skb, frameId, tail>>

\* __wrn_alloc_tx_desc takes the descriptor at the head.
XmitAlloc(f) ==
  /\ pc = "idle" /\ stat[f] = "new" /\ f \notin TooLong
  /\ ~ready[head]
  /\ head' = NextDesc(head)
  /\ id' = NextId
  /\ pc' = "skb" /\ cur' = f /\ curDesc' = head /\ curId' = NewId
  /\ stat' = [stat EXCEPT ![f] = "held"]
  /\ UNCHANGED <<device, irqs, skb, frameId, tail>>

\* The pointer that was in the slot, if any, is overwritten and forgotten.
XmitSaveSkb ==
  /\ pc = "skb"
  /\ skb' = [skb EXCEPT ![curDesc] = cur]
  /\ pc' = "id"
  /\ UNCHANGED <<device, irqs, frameId, head, tail, id, cur, curDesc, curId, stat>>

XmitSaveId ==
  /\ pc = "id"
  /\ frameId' = [frameId EXCEPT ![curDesc] = curId]
  /\ pc' = "fire"
  /\ UNCHANGED <<device, irqs, skb, head, tail, id, cur, curDesc, curId, stat>>

\* Mutant of XmitFire: READY gets lost where TS_E is or-ed in.
XmitFireStampOnly ==
  /\ pc = "fire"
  /\ txd' = [txd EXCEPT ![curDesc] =
               [frame |-> cur, id |-> curId, ts |-> cur \in Stamped]]
  /\ ready' = [ready EXCEPT ![curDesc] = cur \notin Stamped]
  /\ stat' = [stat EXCEPT ![cur] = "accepted"]
  /\ pc' = "idle" /\ cur' = NoSkb
  /\ UNCHANGED <<ring, irqs, hwTail, early, owed, tsFifo, tcomp, wire, curDesc, curId>>

\* __wrn_tx_desc copies the frame and writes tx3, tx2 and, last, tx1.
XmitFire ==
  /\ pc = "fire"
  /\ txd' = [txd EXCEPT ![curDesc] =
               [frame |-> cur, id |-> curId, ts |-> cur \in Stamped]]
  /\ ready' = [ready EXCEPT ![curDesc] = TRUE]
  /\ stat' = [stat EXCEPT ![cur] = "accepted"]
  /\ pc' = "idle" /\ cur' = NoSkb
  /\ UNCHANGED <<ring, irqs, hwTail, early, owed, tsFifo, tcomp, wire, curDesc, curId>>

Xmit ==
  \/ \E f \in Frames : XmitTooLong(f) \/ XmitRefuse(f) \/ XmitAlloc(f)
  \/ XmitSaveSkb
  \/ XmitSaveId
  \/ XmitFire

-----------------------------------------------------------------------------
(* wrn_interrupt, the TCOMP part, and wrn_tx_interrupt.                    *)

NicIrq ==
  /\ irq = "idle" /\ tcomp
  /\ irq' = "loop"
  /\ UNCHANGED <<device, ring, xmit, irqDesc, irqSkb, freed, stamped>>

\* The loop ends: the ring looks empty, the device still owns the tail, or
\* there is "no socket in descriptor".
LoopEnds == tail = head \/ ready[tail] \/ skb[tail] = NoSkb

TxLoopEnd ==
  /\ irq = "loop" /\ LoopEnds
  /\ irq' = "ack"
  /\ UNCHANGED <<device, ring, xmit, irqDesc, irqSkb, freed, stamped>>

\* A frame that waits for its timestamp stays in the slot: wrn_tx_tstamp_skb
\* returns at once, because nothing ever sets "valid".
TxLoopKeep ==
  /\ irq = "loop" /\ ~LoopEnds /\ skb[tail] \in Stamped
  /\ tail' = NextDesc(tail)
  /\ UNCHANGED <<device, xmit, irqs, skb, frameId, head, id>>

TxLoopTake ==
  /\ irq = "loop" /\ ~LoopEnds /\ skb[tail] \notin Stamped
  /\ irqSkb' = skb[tail]
  /\ irq' = "free"
  /\ UNCHANGED <<device, ring, xmit, irqDesc, freed, stamped>>

\* Mutant of TxLoopFree: the slot is not cleared.
TxLoopFreeOnly ==
  /\ irq = "free"
  /\ freed' = [freed EXCEPT ![irqSkb] = @ + 1]
  /\ tail' = NextDesc(tail)
  /\ irq' = "loop" /\ irqSkb' = NoSkb
  /\ UNCHANGED <<device, xmit, skb, frameId, head, id, irqDesc, stamped>>

\* dev_kfree_skb_irq(skb), then the slot is cleared, whatever it holds now.
TxLoopFree ==
  /\ irq = "free"
  /\ freed' = [freed EXCEPT ![irqSkb] = @ + 1]
  /\ skb' = [skb EXCEPT ![tail] = NoSkb]
  /\ tail' = NextDesc(tail)
  /\ irq' = "loop" /\ irqSkb' = NoSkb
  /\ UNCHANGED <<device, xmit, frameId, head, id, irqDesc, stamped>>

\* TCOMP is acknowledged after the loop.
TxAck ==
  /\ irq = "ack"
  /\ tcomp' = FALSE
  /\ irq' = "idle"
  /\ UNCHANGED <<ring, xmit, ready, txd, hwTail, early, owed, tsFifo, wire,
                 irqDesc, irqSkb, freed, stamped>>

-----------------------------------------------------------------------------
(* wrn_tstamp_interrupt and record_tstamp.                                 *)

Matching(i) == {d \in Desc : skb[d] # NoSkb /\ frameId[d] = i}

\* "Not found: Must be a PTP frame sent from the SPEC!"
TsMiss ==
  /\ irq = "idle" /\ tsFifo # <<>>
  /\ Matching(Head(tsFifo)) = {}
  /\ tsFifo' = Tail(tsFifo)
  /\ UNCHANGED <<ring, xmit, irqs, ready, txd, hwTail, early, owed, tcomp, wire>>

TsMatch ==
  /\ irq = "idle" /\ tsFifo # <<>>
  /\ \E d \in Matching(Head(tsFifo)) :
       /\ \A e \in Matching(Head(tsFifo)) : d <= e
       /\ irqDesc' = d
  /\ tsFifo' = Tail(tsFifo)
  /\ irq' = "grab"
  /\ UNCHANGED <<ring, xmit, ready, txd, hwTail, early, owed, tcomp, wire,
                 irqSkb, freed, stamped>>

\* The slot is read again after the search.
TsGrab ==
  /\ irq = "grab"
  /\ irqSkb' = skb[irqDesc]
  /\ irq' = "stamp"
  /\ UNCHANGED <<device, ring, xmit, irqDesc, freed, stamped>>

\* Mutant of TsFree: the slot is not cleared.
TsFreeOnly ==
  /\ irq = "stamp"
  /\ stamped' = stamped \cup {irqSkb}
  /\ freed' = [freed EXCEPT ![irqSkb] = @ + 1]
  /\ irq' = "idle" /\ irqSkb' = NoSkb
  /\ UNCHANGED <<device, xmit, skb, frameId, head, tail, id, irqDesc>>

\* The report is skipped when the unit flags the value as incorrect; the
\* socket buffer is freed and the slot cleared in any case.
TsFree ==
  /\ irq = "stamp"
  /\ \/ stamped' = stamped \cup {irqSkb}
     \/ UNCHANGED stamped
  /\ freed' = [freed EXCEPT ![irqSkb] = @ + 1]
  /\ skb' = [skb EXCEPT ![irqDesc] = NoSkb]
  /\ irq' = "idle" /\ irqSkb' = NoSkb
  /\ UNCHANGED <<device, xmit, frameId, head, tail, id, irqDesc>>

Irq ==
  \/ NicIrq \/ TxLoopEnd \/ TxLoopKeep \/ TxLoopTake \/ TxLoopFree \/ TxAck
  \/ TsMiss \/ TsMatch \/ TsGrab \/ TsFree

-----------------------------------------------------------------------------
(* The device (external).                                                  *)

HwSend ==
  /\ ready[hwTail]
  /\ ready' = [ready EXCEPT ![hwTail] = FALSE]
  /\ wire' = Append(wire, txd[hwTail].frame)
  /\ owed' = IF txd[hwTail].ts /\ ~early THEN owed \cup {txd[hwTail].id} ELSE owed
  /\ early' = FALSE
  /\ tcomp' = TRUE
  /\ hwTail' = NextDesc(hwTail)
  /\ UNCHANGED <<txd, tsFifo, ring, xmit, irqs>>

\* The timestamp reaches the FIFO before READY is cleared.
HwStampEarly ==
  /\ ready[hwTail] /\ txd[hwTail].ts /\ ~early
  /\ early' = TRUE
  /\ tsFifo' = Append(tsFifo, txd[hwTail].id)
  /\ UNCHANGED <<ring, xmit, irqs, ready, txd, hwTail, owed, tcomp, wire>>

HwStampLate(i) ==
  /\ i \in owed
  /\ owed' = owed \ {i}
  /\ tsFifo' = Append(tsFifo, i)
  /\ UNCHANGED <<ring, xmit, irqs, ready, txd, hwTail, early, tcomp, wire>>

HwStampLost(i) ==
  /\ i \in owed
  /\ owed' = owed \ {i}
  /\ UNCHANGED <<ring, xmit, irqs, ready, txd, hwTail, early, tsFifo, tcomp, wire>>

Hw ==
  \/ HwSend \/ HwStampEarly
  \/ \E i \in Ids : HwStampLate(i) \/ HwStampLost(i)

-----------------------------------------------------------------------------
Next == Xmit \/ Irq \/ Hw

\* A call to wrn_start_xmit and an interrupt handler run to their end, and
\* the device sends what it owns.  Submitting a frame or delivering a
\* timestamp is not promised.
Fairness ==
  /\ WF_vars(XmitSaveSkb) /\ WF_vars(XmitSaveId) /\ WF_vars(XmitFire)
  /\ WF_vars(Irq)
  /\ WF_vars(HwSend)

Spec == Init /\ [][Next]_vars
FairSpec == Spec /\ Fairness

-----------------------------------------------------------------------------
(* Properties.                                                             *)

TypeOK ==
  /\ ready \in [Desc -> BOOLEAN]
  /\ txd \in [Desc -> [frame : Frames \cup {NoSkb}, id : Ids, ts : BOOLEAN]]
  /\ \A d \in Desc : ready[d] => txd[d].frame \in Frames
  /\ hwTail \in Desc
  /\ early \in BOOLEAN
  /\ owed \in SUBSET Ids
  /\ tsFifo \in Seq(Ids)
  /\ tcomp \in BOOLEAN
  /\ skb \in [Desc -> Frames \cup {NoSkb}]
  /\ frameId \in [Desc -> Ids]
  /\ head \in Desc /\ tail \in Desc
  /\ id \in Nat
  /\ pc \in {"idle", "skb", "id", "fire"}
  /\ cur \in Frames \cup {NoSkb} /\ (pc # "idle" => cur \in Frames)
  /\ curDesc \in Desc /\ curId \in Ids
  /\ irq \in {"idle", "loop", "free", "ack", "grab", "stamp"}
  /\ irqDesc \in Desc
  /\ irqSkb \in Frames \cup {NoSkb} /\ (irq \in {"free", "stamp"} => irqSkb \in Frames)
  /\ irq = "grab" => skb[irqDesc] \in Frames
  /\ stat \in [Frames -> {"new", "toolong", "refused", "held", "accepted"}]
  /\ freed \in [Frames -> Nat]
  /\ stamped \in SUBSET Frames
  /\ wire \in Seq(Frames)

\* A socket buffer is freed at most once, although the TX interrupt and the
\* timestamp interrupt both free what they find in a slot and wrn_start_xmit
\* refills slots under their feet without a lock.
NoDoubleFree == \A f \in Frames : freed[f] <= 1

\* No slot of skb_desc keeps a pointer to a socket buffer that was freed: the
\* next interrupt would hand it to the stack or free it again.
NoDanglingSlot == \A d \in Desc : skb[d] # NoSkb => freed[skb[d]] = 0

\* READY means "the device owns the descriptor" (nic-regs.wb): as long as it
\* is set wrn_start_xmit neither writes the buffer nor tx1, so the device
\* sends the frame, the id and the TS_E it was given.
DeviceOwnsReady == [][\A d \in Desc : ready[d] => txd'[d] = txd[d]]_vars

\* The ring and the device implement the bounded first-in first-out link:
\* the frames in flight are those of the READY descriptors from hwTail on.
InFlight == Cardinality({d \in Desc : ready[d]})
Link == INSTANCE TxLink WITH
  Capacity <- NDesc,
  flight   <- [k \in 1 .. InFlight |-> txd[(hwTail + k - 1) % NDesc].frame],
  refused  <- {f \in Frames : stat[f] = "refused"}
IsALink == Link!LinkSpec

\* A frame for which wrn_start_xmit took a descriptor reaches the wire,
\* whatever the interrupts did to its slot meanwhile.
HeldIsSent == \A f \in Frames : stat[f] = "held" ~> \E k \in DOMAIN wire : wire[k] = f

-----------------------------------------------------------------------------
(* What comments of the source say and the code does not do.               *)

\* nic-core.c:210, "The timestamp has not been collected: silently discard
\* it": a frame whose slot was taken by a later one has been freed.
Forgotten(f) ==
  /\ stat[f] = "accepted" /\ f # irqSkb
  /\ \A d \in Desc : skb[d] # f
DiscardedIsFreed == \A f \in Frames : Forgotten(f) => freed[f] = 1

\* nic-core.c:126, "This is called with the lock taken": no interrupt handler
\* frees the frame that wrn_start_xmit is still working on.
XmitKeepsItsFrame == pc # "idle" => freed[cur] = 0
=============================================================================
