----------------------------- MODULE WrnTxProofs -----------------------------
(***************************************************************************)
(* Theorems about WrnTx, for every set of frames, every ring size and      *)
(* every width of the frame id: the types, that no socket buffer is freed  *)
(* twice or left dangling, that the driver keeps its hands off the         *)
(* descriptors the device owns, and that ring and device implement the     *)
(* first-in first-out link of TxLink.                                      *)
(***************************************************************************)
EXTENDS WrnTx, FiniteSetTheorems, SequenceTheorems, TLAPS

(* __wrn_next_desc stays inside the ring.                                  *)
LEMMA NextDescType == \A d \in Desc : NextDesc(d) \in Desc
BY TxAssumption DEF Desc, NextDesc

(* The id that wrn_start_xmit computes fits the 16-bit field.              *)
LEMMA NewIdType == id \in Nat => NewId \in Ids /\ NextId \in Nat
BY TxAssumption DEF NewId, NextId, Ids

(* Every variable keeps its type, and every handler the socket buffer it   *)
(* works on.                                                               *)
THEOREM TypeCorrect == Spec => []TypeOK
<1>1. Init => TypeOK
  BY TxAssumption DEF Init, TypeOK, Desc, Ids, Empty
<1>2. TypeOK /\ [Next]_vars => TypeOK'
  <2> SUFFICES ASSUME TypeOK, [Next]_vars PROVE TypeOK'
    OBVIOUS
  <2> USE TxAssumption DEF TypeOK
  <2> USE DEF device, ring, xmit, irqs
  <2>1. CASE UNCHANGED vars
    BY <2>1 DEF vars
  <2>2. ASSUME NEW f \in Frames, XmitTooLong(f) PROVE TypeOK'
    BY <2>2 DEF XmitTooLong
  <2>3. ASSUME NEW f \in Frames, XmitRefuse(f) PROVE TypeOK'
    BY <2>3, NewIdType DEF XmitRefuse
  <2>4. ASSUME NEW f \in Frames, XmitAlloc(f) PROVE TypeOK'
    BY <2>4, NewIdType, NextDescType DEF XmitAlloc
  <2>5. CASE XmitSaveSkb
    BY <2>5 DEF XmitSaveSkb
  <2>6. CASE XmitSaveId
    BY <2>6 DEF XmitSaveId
  <2>7. CASE XmitFire
    BY <2>7 DEF XmitFire
  <2>8. CASE NicIrq
    BY <2>8 DEF NicIrq
  <2>9. CASE TxLoopEnd
    BY <2>9 DEF TxLoopEnd
  <2>10. CASE TxLoopKeep
    BY <2>10, NextDescType DEF TxLoopKeep
  <2>11. CASE TxLoopTake
    BY <2>11 DEF TxLoopTake, LoopEnds
  <2>12. CASE TxLoopFree
    BY <2>12, NextDescType DEF TxLoopFree
  <2>13. CASE TxAck
    BY <2>13 DEF TxAck
  <2>14. CASE TsMiss
    BY <2>14 DEF TsMiss
  <2>15. CASE TsMatch
    BY <2>15 DEF TsMatch, Matching
  <2>16. CASE TsGrab
    BY <2>16 DEF TsGrab
  <2>17. CASE TsFree
    BY <2>17 DEF TsFree
  <2>18. CASE HwSend
    <3> USE <2>18 DEF HwSend
    <3>1. hwTail' \in Desc
      BY NextDescType
    <3>2. txd[hwTail] \in [frame : Frames \cup {NoSkb}, id : Ids, ts : BOOLEAN]
      OBVIOUS
    <3>3. owed' \in SUBSET Ids
      BY <3>2
    <3>4. wire' \in Seq(Frames)
      BY <3>2
    <3>5. ready' \in [Desc -> BOOLEAN] /\ \A d \in Desc : ready'[d] => txd'[d].frame \in Frames
      OBVIOUS
    <3>6. QED
      BY <3>1, <3>3, <3>4, <3>5
  <2>19. CASE HwStampEarly
    BY <2>19 DEF HwStampEarly
  <2>20. ASSUME NEW i \in Ids, HwStampLate(i) PROVE TypeOK'
    BY <2>20 DEF HwStampLate
  <2>21. ASSUME NEW i \in Ids, HwStampLost(i) PROVE TypeOK'
    BY <2>21 DEF HwStampLost
  <2>22. QED
    BY <2>1, <2>2, <2>3, <2>4, <2>5, <2>6, <2>7, <2>8, <2>9, <2>10, <2>11, <2>12,
       <2>13, <2>14, <2>15, <2>16, <2>17, <2>18, <2>19, <2>20, <2>21
       DEF Next, Xmit, Irq, Hw
<1>3. QED
  BY <1>1, <1>2, PTL DEF Spec

-----------------------------------------------------------------------------
(***************************************************************************)
(* Freeing.  Neither NoDoubleFree nor NoDanglingSlot is inductive.  What   *)
(* carries them is that a socket buffer has one owner among the callers    *)
(* that could still free it: the stack, wrn_start_xmit before it fills the *)
(* slot, one slot of skb_desc, or the handler that took it out.            *)
(***************************************************************************)

Unreferenced(f) == f # irqSkb /\ \A d \in Desc : skb[d] # f

OneSlotEach ==
  \A d, e \in Desc : skb[d] # NoSkb /\ skb[d] = skb[e] => d = e

NewIsUnreferenced ==
  \A f \in Frames : stat[f] = "new" => freed[f] = 0 /\ Unreferenced(f)

HeldIsUnreferenced ==
  /\ pc # "idle" => stat[cur] = "held"
  /\ pc = "skb" => freed[cur] = 0 /\ Unreferenced(cur)

\* The slot that the running handler is about to clear.
HandSlot == IF irq = "free" THEN tail ELSE irqDesc

InHandIsInNoOtherSlot ==
  /\ irq \in {"free", "stamp"} =>
       /\ freed[irqSkb] = 0
       /\ \A d \in Desc : skb[d] = irqSkb => d = HandSlot
  /\ irq \notin {"free", "stamp"} => irqSkb = NoSkb

FreeInv ==
  /\ TypeOK
  /\ NoDoubleFree
  /\ NoDanglingSlot
  /\ OneSlotEach
  /\ NewIsUnreferenced
  /\ HeldIsUnreferenced
  /\ InHandIsInNoOtherSlot

(* Nothing is in a slot or freed at the start.                             *)
LEMMA FreeInvInit == Init => FreeInv
  BY TxAssumption DEF Init, FreeInv, TypeOK, Desc, Ids, Empty, NoDoubleFree, NoDanglingSlot,
     OneSlotEach, NewIsUnreferenced, HeldIsUnreferenced, InHandIsInNoOtherSlot, Unreferenced

(* No step of the stack, the handlers or the device breaks FreeInv.        *)
LEMMA FreeInvStep == FreeInv /\ TypeOK' /\ [Next]_vars => FreeInv'
<1> SUFFICES ASSUME FreeInv, TypeOK', [Next]_vars PROVE FreeInv'
  OBVIOUS
<1> USE TxAssumption DEF FreeInv, TypeOK, NoDoubleFree, NoDanglingSlot, OneSlotEach,
      NewIsUnreferenced, HeldIsUnreferenced, InHandIsInNoOtherSlot, Unreferenced, HandSlot
<1> USE DEF device, ring, xmit, irqs
<1>1. CASE UNCHANGED vars
  BY <1>1 DEF vars
<1>2. ASSUME NEW f \in Frames, XmitTooLong(f) PROVE FreeInv'
  BY <1>2 DEF XmitTooLong
<1>3. ASSUME NEW f \in Frames, XmitRefuse(f) PROVE FreeInv'
  BY <1>3 DEF XmitRefuse
<1>4. ASSUME NEW f \in Frames, XmitAlloc(f) PROVE FreeInv'
  BY <1>4 DEF XmitAlloc
<1>5. CASE XmitSaveSkb
  BY <1>5 DEF XmitSaveSkb
<1>6. CASE XmitSaveId
  BY <1>6 DEF XmitSaveId
<1>7. CASE XmitFire
  BY <1>7 DEF XmitFire
<1>8. CASE NicIrq \/ TxLoopEnd \/ TxAck
  BY <1>8 DEF NicIrq, TxLoopEnd, TxAck
<1>9. CASE TxLoopKeep
  BY <1>9 DEF TxLoopKeep
<1>10. CASE TxLoopTake
  BY <1>10 DEF TxLoopTake, LoopEnds
<1>11. CASE TxLoopFree
  BY <1>11 DEF TxLoopFree
<1>12. CASE TsMiss
  BY <1>12 DEF TsMiss
<1>13. CASE TsMatch
  BY <1>13 DEF TsMatch, Matching
<1>14. CASE TsGrab
  BY <1>14 DEF TsGrab
<1>15. CASE TsFree
  BY <1>15 DEF TsFree
<1>16. CASE Hw
  BY <1>16 DEF Hw, HwSend, HwStampEarly, HwStampLate, HwStampLost
<1>17. QED
  BY <1>1, <1>2, <1>3, <1>4, <1>5, <1>6, <1>7, <1>8, <1>9, <1>10, <1>11, <1>12,
     <1>13, <1>14, <1>15, <1>16
     DEF Next, Xmit, Irq

(* A socket buffer is freed at most once, whatever the interleaving of the *)
(* unlocked wrn_start_xmit with the two interrupt handlers.                *)
THEOREM FreedOnce == Spec => []NoDoubleFree
<1>1. FreeInv => NoDoubleFree
  BY DEF FreeInv
<1>2. QED
  BY <1>1, FreeInvInit, FreeInvStep, TypeCorrect, PTL DEF Spec

(* No slot of skb_desc points to a socket buffer that was freed.           *)
THEOREM NothingDangles == Spec => []NoDanglingSlot
<1>1. FreeInv => NoDanglingSlot
  BY DEF FreeInv
<1>2. QED
  BY <1>1, FreeInvInit, FreeInvStep, TypeCorrect, PTL DEF Spec

-----------------------------------------------------------------------------
(***************************************************************************)
(* Ownership of the descriptors.  The descriptor wrn_start_xmit works on   *)
(* was free when it was allocated and stays so until it is fired: the      *)
(* device only ever clears READY.                                          *)
(***************************************************************************)

AllocatedIsFree == pc # "idle" => ~ready[curDesc]

(* No step gives the device the descriptor wrn_start_xmit works on.        *)
LEMMA AllocatedIsFreeStep ==
  TypeOK /\ AllocatedIsFree /\ [Next]_vars => AllocatedIsFree'
  BY DEF TypeOK, AllocatedIsFree, Next, vars, device, ring, xmit, irqs,
     Xmit, XmitTooLong, XmitRefuse, XmitAlloc, XmitSaveSkb, XmitSaveId, XmitFire,
     Irq, NicIrq, TxLoopEnd, TxLoopKeep, TxLoopTake, TxLoopFree, TxAck,
     TsMiss, TsMatch, TsGrab, TsFree,
     Hw, HwSend, HwStampEarly, HwStampLate, HwStampLost

(* wrn_start_xmit never rewrites a descriptor whose READY bit is set.      *)
THEOREM DeviceKeepsItsDescriptors == Spec => DeviceOwnsReady
<1>1. Init => AllocatedIsFree
  BY DEF Init, AllocatedIsFree
<1>2. TypeOK /\ AllocatedIsFree /\ [Next]_vars =>
        [\A d \in Desc : ready[d] => txd'[d] = txd[d]]_vars
  BY DEF TypeOK, AllocatedIsFree, Next, vars, device, ring, xmit, irqs,
     Xmit, XmitTooLong, XmitRefuse, XmitAlloc, XmitSaveSkb, XmitSaveId, XmitFire,
     Irq, NicIrq, TxLoopEnd, TxLoopKeep, TxLoopTake, TxLoopFree, TxAck,
     TsMiss, TsMatch, TsGrab, TsFree,
     Hw, HwSend, HwStampEarly, HwStampLate, HwStampLost
<1>3. QED
  BY <1>1, <1>2, AllocatedIsFreeStep, TypeCorrect, PTL DEF Spec, DeviceOwnsReady

-----------------------------------------------------------------------------
(***************************************************************************)
(* The link.  The frames in flight are read off the ring from hwTail on,   *)
(* so the argument is about where the READY descriptors are: they are      *)
(* consecutive, and end where wrn_start_xmit works.                        *)
(***************************************************************************)

\* The descriptor k after t, and how far d is after t.
After(t, k) == IF t + k < NDesc THEN t + k ELSE t + k - NDesc
Ahead(t, d) == IF d >= t THEN d - t ELSE d - t + NDesc

\* Steps around the ring, by cases of whether they wrap.
LEMMA AfterIs ==
  /\ \A t \in Desc, k \in 0 .. NDesc : (t + k) % NDesc = After(t, k) /\ After(t, k) \in Desc
  /\ \A t \in Desc : NextDesc(t) = After(t, 1)
<1>1. NDesc \in Nat \ {0}
      BY TxAssumption
<1>2. ASSUME NEW t \in Desc, NEW k \in 0 .. NDesc
      PROVE  (t + k) % NDesc = After(t, k) /\ After(t, k) \in Desc
  <2>1. CASE t + k < NDesc
        BY <1>1, <2>1 DEF After, Desc
  <2>2. CASE ~(t + k < NDesc)
        BY <1>1, <2>2 DEF After, Desc
  <2>. QED BY <2>1, <2>2
<1>3. \A t \in Desc : NextDesc(t) = After(t, 1)
      BY <1>1, <1>2 DEF NextDesc
<1>. QED BY <1>2, <1>3

\* The READY descriptors are those from hwTail on, in the order of the ring, and the
\* one that wrn_start_xmit fills is the next.
RingInv ==
  /\ InFlight \in 0 .. NDesc
  /\ \A d \in Desc : ready[d] <=> Ahead(hwTail, d) < InFlight
  /\ pc = "idle" => head = After(hwTail, InFlight)
  /\ pc # "idle" => /\ InFlight < NDesc
                    /\ curDesc = After(hwTail, InFlight) /\ head = After(hwTail, InFlight + 1)

\* The descriptors the device owns.
Ready == {d \in Desc : ready[d]}

\* The descriptors that are READY are finitely many.
LEMMA ReadyCount ==
  /\ InFlight = Cardinality(Ready) /\ IsFiniteSet(Ready) /\ InFlight \in Nat
  /\ InFlight' = Cardinality(Ready') /\ IsFiniteSet(Ready') /\ InFlight' \in Nat
<1>1. IsFiniteSet(Desc)
      BY TxAssumption, FS_Interval DEF Desc
<1>2. Ready \subseteq Desc /\ Ready' \subseteq Desc
      BY DEF Ready
<1>3. IsFiniteSet(Ready) /\ IsFiniteSet(Ready')
      BY <1>1, <1>2, FS_Subset
<1>4. Cardinality(Ready) \in Nat /\ Cardinality(Ready') \in Nat
      BY <1>3, FS_CardinalityType
<1>. QED BY <1>3, <1>4 DEF InFlight, Ready

\* The ring is empty at the start.
LEMMA RingInit == Init => RingInv
<1> SUFFICES ASSUME Init PROVE RingInv
    OBVIOUS
<1>1. Ready = {} /\ hwTail = 0 /\ head = 0 /\ pc = "idle" /\ \A d \in Desc : ~ready[d]
      BY DEF Init, Ready
<1>2. InFlight = 0
      BY <1>1, ReadyCount, FS_EmptySet
<1>3. NDesc \in Nat \ {0}
      BY TxAssumption
<1>. QED BY <1>1, <1>2, <1>3 DEF RingInv, After, Ahead, Desc

\* XmitFire makes the descriptor at the end READY, ...
LEMMA FireRing ==
  ASSUME TypeOK, RingInv, XmitFire
  PROVE  InFlight' = InFlight + 1 /\ RingInv'
<1>1. /\ pc # "idle" /\ pc' = "idle" /\ hwTail' = hwTail /\ head' = head
      /\ ready' = [ready EXCEPT ![curDesc] = TRUE]
      BY DEF XmitFire, ring
<1>2. /\ NDesc \in Nat \ {0} /\ hwTail \in Desc /\ curDesc \in Desc /\ ready \in [Desc -> BOOLEAN]
      BY TxAssumption DEF TypeOK
<1>3. /\ InFlight < NDesc /\ curDesc = After(hwTail, InFlight) /\ head = After(hwTail, InFlight + 1)
      /\ InFlight \in 0 .. NDesc
      BY <1>1 DEF RingInv
<1>4. Ahead(hwTail, curDesc) = InFlight /\ ~ready[curDesc]
  <2>1. Ahead(hwTail, curDesc) = InFlight
        BY <1>2, <1>3 DEF After, Ahead, Desc
  <2>. QED BY <1>2, <1>3, <2>1 DEF RingInv
<1>5. Ready' = Ready \cup {curDesc} /\ curDesc \notin Ready
      BY <1>1, <1>2, <1>4 DEF Ready
<1>6. InFlight' = InFlight + 1
      BY <1>5, ReadyCount, FS_AddElement
<1>7. ASSUME NEW d \in Desc PROVE ready'[d] <=> Ahead(hwTail, d) < InFlight + 1
  <2>1. CASE d = curDesc
        BY <1>1, <1>2, <1>3, <1>4, <2>1
  <2>2. CASE d # curDesc
    <3>1. Ahead(hwTail, d) # InFlight /\ Ahead(hwTail, d) \in Nat
          BY <1>2, <1>3, <2>2 DEF After, Ahead, Desc
    <3>2. ready'[d] = ready[d]
          BY <1>1, <1>2, <2>2
    <3>. QED BY <1>3, <3>1, <3>2 DEF RingInv
  <2>. QED BY <2>1, <2>2
<1>8. InFlight + 1 \in 0 .. NDesc
      BY <1>2, <1>3
<1>. QED BY <1>1, <1>3, <1>6, <1>7, <1>8 DEF RingInv

\* ... and HwSend takes the one at the beginning.
LEMMA SendRing ==
  ASSUME TypeOK, RingInv, HwSend
  PROVE  InFlight > 0 /\ InFlight' = InFlight - 1 /\ RingInv'
<1>1. /\ UNCHANGED <<pc, curDesc, head>> /\ hwTail' = NextDesc(hwTail)
      /\ ready[hwTail] /\ ready' = [ready EXCEPT ![hwTail] = FALSE]
      BY DEF HwSend, ring, xmit
<1>2. /\ NDesc \in Nat \ {0} /\ hwTail \in Desc /\ ready \in [Desc -> BOOLEAN]
      BY TxAssumption DEF TypeOK
<1>3. hwTail' = After(hwTail, 1) /\ hwTail' \in Desc
  <2>1. 1 \in 0 .. NDesc
        BY <1>2
  <2>. QED BY <1>1, <1>2, <2>1, AfterIs
<1>4. InFlight \in 0 .. NDesc /\ \A d \in Desc : ready[d] <=> Ahead(hwTail, d) < InFlight
      BY DEF RingInv
<1>5. Ahead(hwTail, hwTail) = 0 /\ InFlight > 0
  <2>1. Ahead(hwTail, hwTail) = 0
        BY <1>2 DEF Ahead, Desc
  <2>. QED BY <1>1, <1>2, <1>4, <2>1
<1>6. Ready' = Ready \ {hwTail} /\ hwTail \in Ready
      BY <1>1, <1>2 DEF Ready
<1>7. InFlight' = InFlight - 1
      BY <1>6, ReadyCount, FS_RemoveElement
<1>8. ASSUME NEW d \in Desc PROVE ready'[d] <=> Ahead(hwTail', d) < InFlight - 1
  <2>1. CASE d = hwTail
    <3>1. Ahead(hwTail', d) = NDesc - 1
          BY <1>2, <1>3, <2>1 DEF After, Ahead, Desc
    <3>. QED BY <1>1, <1>2, <1>4, <2>1, <3>1
  <2>2. CASE d # hwTail
    <3>1. Ahead(hwTail', d) = Ahead(hwTail, d) - 1 /\ Ahead(hwTail, d) \in Nat
          BY <1>2, <1>3, <2>2 DEF After, Ahead, Desc
    <3>2. ready'[d] = ready[d]
          BY <1>1, <1>2, <2>2
    <3>. QED BY <1>4, <3>1, <3>2
  <2>. QED BY <2>1, <2>2
<1>9. /\ After(hwTail', InFlight - 1) = After(hwTail, InFlight)
      /\ InFlight < NDesc => After(hwTail', InFlight) = After(hwTail, InFlight + 1)
      BY <1>2, <1>3, <1>4, <1>5 DEF After, Desc
<1>10. (InFlight - 1) + 1 = InFlight /\ InFlight - 1 \in 0 .. NDesc /\ InFlight - 1 < NDesc
       BY <1>2, <1>4, <1>5
<1>. QED BY <1>1, <1>5, <1>7, <1>8, <1>9, <1>10 DEF RingInv

\* wrn_start_xmit takes a descriptor when one is free.
LEMMA AllocRing ==
  ASSUME TypeOK, RingInv, NEW f \in Frames, XmitAlloc(f)
  PROVE  RingInv'
<1>1. /\ pc = "idle" /\ pc' # "idle" /\ UNCHANGED <<ready, hwTail>> /\ ~ready[head]
      /\ head' = NextDesc(head) /\ curDesc' = head
      BY DEF XmitAlloc, device
<1>2. /\ NDesc \in Nat \ {0} /\ hwTail \in Desc /\ head \in Desc
      BY TxAssumption DEF TypeOK
<1>3. /\ InFlight \in 0 .. NDesc /\ head = After(hwTail, InFlight)
      /\ \A d \in Desc : ready[d] <=> Ahead(hwTail, d) < InFlight
      BY <1>1 DEF RingInv
<1>4. InFlight' = InFlight
      BY <1>1 DEF InFlight
<1>5. InFlight < NDesc
  <2>1. InFlight = NDesc => Ahead(hwTail, head) = 0
        BY <1>2, <1>3 DEF After, Ahead, Desc
  <2>. QED BY <1>1, <1>2, <1>3, <2>1
<1>6. head' = After(head, 1) /\ After(head, 1) = After(hwTail, InFlight + 1)
  <2>1. 1 \in 0 .. NDesc
        BY <1>2
  <2>2. head' = After(head, 1)
        BY <1>1, <1>2, <2>1, AfterIs
  <2>. QED BY <1>2, <1>3, <1>5, <2>2 DEF After, Desc
<1>. QED BY <1>1, <1>3, <1>4, <1>5, <1>6 DEF RingInv

\* Every step keeps the READY descriptors together, from hwTail on.
LEMMA RingStep == TypeOK /\ RingInv /\ [Next]_vars => RingInv'
<1> SUFFICES ASSUME TypeOK, RingInv, [Next]_vars PROVE RingInv'
    OBVIOUS
<1>1. ASSUME UNCHANGED <<ready, hwTail, pc, head, curDesc>> PROVE RingInv'
      BY <1>1 DEF RingInv, InFlight
<1> USE DEF device, ring, xmit, irqs
<1>2. CASE UNCHANGED vars
      BY <1>1, <1>2 DEF vars
<1>3. ASSUME NEW f \in Frames, XmitTooLong(f) \/ XmitRefuse(f) PROVE RingInv'
      BY <1>1, <1>3 DEF XmitTooLong, XmitRefuse
<1>4. CASE XmitSaveSkb \/ XmitSaveId
  <2>1. UNCHANGED <<ready, hwTail, head, curDesc>> /\ pc # "idle" /\ pc' # "idle"
        BY <1>4 DEF XmitSaveSkb, XmitSaveId
  <2>2. InFlight' = InFlight
        BY <2>1 DEF InFlight
  <2>. QED BY <2>1, <2>2 DEF RingInv
<1>5. CASE Irq
      BY <1>1, <1>5 DEF Irq, NicIrq, TxLoopEnd, TxLoopKeep, TxLoopTake, TxLoopFree, TxAck, TsMiss,
         TsMatch, TsGrab, TsFree
<1>6. CASE HwStampEarly \/ \E i \in Ids : HwStampLate(i) \/ HwStampLost(i)
      BY <1>1, <1>6 DEF HwStampEarly, HwStampLate, HwStampLost
<1>. QED BY <1>2, <1>3, <1>4, <1>5, <1>6, FireRing, SendRing, AllocRing DEF Next, Xmit, Hw

\* The frames in flight, oldest first: what the link's variable is mapped to.
Flight == [k \in 1 .. InFlight |-> txd[(hwTail + k - 1) % NDesc].frame]

\* As many frames are in flight as descriptors are READY.
LEMMA FlightType == TypeOK /\ RingInv => Flight \in Seq(Frames) /\ Len(Flight) = InFlight
<1> SUFFICES ASSUME TypeOK, RingInv PROVE Flight \in Seq(Frames) /\ Len(Flight) = InFlight
    OBVIOUS
<1>1. NDesc \in Nat \ {0} /\ hwTail \in Desc /\ InFlight \in 0 .. NDesc
      BY TxAssumption DEF TypeOK, RingInv
<1>2. ASSUME NEW k \in 1 .. InFlight PROVE txd[(hwTail + k - 1) % NDesc].frame \in Frames
  <2>1. k - 1 \in 0 .. NDesc
        BY <1>1
  <2>2. (hwTail + k - 1) % NDesc = After(hwTail, k - 1) /\ After(hwTail, k - 1) \in Desc
        BY <1>1, <2>1, AfterIs
  <2>3. Ahead(hwTail, After(hwTail, k - 1)) = k - 1
        BY <1>1 DEF After, Ahead, Desc
  <2>4. ready[After(hwTail, k - 1)]
        BY <1>1, <2>2, <2>3 DEF RingInv
  <2>. QED BY <2>2, <2>4 DEF TypeOK
<1>3. InFlight \in Nat
      BY <1>1
<1>. QED BY <1>2, <1>3 DEF Flight

\* The same after a step.
LEMMA FlightTypeNext ==
  TypeOK' /\ RingInv' => Flight' \in Seq(Frames) /\ Len(Flight') = InFlight'
<1>1. TypeOK' /\ RingInv' => (Flight \in Seq(Frames) /\ Len(Flight) = InFlight)'
      BY FlightType, PTL
<1>. QED BY <1>1

\* What wrn_start_xmit fires, the link accepts.
LEMMA LinkFires ==
  ASSUME TypeOK, TypeOK', RingInv, XmitFire
  PROVE  Len(Flight) < NDesc /\ Flight' = Append(Flight, cur)
<1>1. /\ pc # "idle" /\ hwTail' = hwTail
      /\ txd' = [txd EXCEPT ![curDesc] = [frame |-> cur, id |-> curId, ts |-> cur \in Stamped]]
      BY DEF XmitFire
<1>2. /\ NDesc \in Nat \ {0} /\ hwTail \in Desc /\ curDesc \in Desc /\ InFlight \in 0 .. NDesc
      /\ DOMAIN txd = Desc
      BY TxAssumption DEF TypeOK, RingInv
<1>3. InFlight < NDesc /\ curDesc = After(hwTail, InFlight)
      BY <1>1 DEF RingInv
<1>4. InFlight' = InFlight + 1
      BY FireRing
<1>5. Flight' = [k \in 1 .. InFlight + 1 |-> txd'[(hwTail + k - 1) % NDesc].frame]
      BY <1>1, <1>4 DEF Flight
<1>6. ASSUME NEW k \in 1 .. InFlight + 1
      PROVE  txd'[(hwTail + k - 1) % NDesc].frame =
               IF k = InFlight + 1 THEN cur ELSE txd[(hwTail + k - 1) % NDesc].frame
  <2>1. k - 1 \in 0 .. NDesc
        BY <1>2, <1>3
  <2>2. (hwTail + k - 1) % NDesc = After(hwTail, k - 1) /\ After(hwTail, k - 1) \in Desc
        BY <1>2, <2>1, AfterIs
  <2>3. CASE k = InFlight + 1
    <3>1. After(hwTail, k - 1) = curDesc
          BY <1>2, <1>3, <2>3
    <3>. QED BY <1>1, <1>2, <2>2, <2>3, <3>1
  <2>4. CASE k # InFlight + 1
    <3>1. After(hwTail, k - 1) # curDesc
          BY <1>2, <1>3, <2>4 DEF After, Desc
    <3>. QED BY <1>1, <1>2, <2>2, <2>4, <3>1
  <2>. QED BY <2>3, <2>4
<1>7. Flight \in Seq(Frames) /\ Len(Flight) = InFlight
      BY FlightType
<1>8. \A k \in 1 .. InFlight : Flight[k] = txd[(hwTail + k - 1) % NDesc].frame
      BY DEF Flight
<1>9. TypeOK' /\ RingInv' => Flight' \in Seq(Frames) /\ Len(Flight') = InFlight'
      BY FlightTypeNext
<1>10. cur \in Frames
       BY <1>1 DEF TypeOK
<1>11. /\ Append(Flight, cur) \in Seq(Frames) /\ Len(Append(Flight, cur)) = InFlight + 1
       /\ \A k \in 1 .. InFlight + 1 :
            Append(Flight, cur)[k] = IF k = InFlight + 1 THEN cur ELSE Flight[k]
  <2>. HIDE DEF Flight
  <2>. QED BY <1>2, <1>7, <1>10
<1>12. \A k \in 1 .. InFlight + 1 : k # InFlight + 1 => k \in 1 .. InFlight
       BY <1>2
<1>13. \A k \in 1 .. InFlight + 1 : Flight'[k] = Append(Flight, cur)[k]
       BY <1>5, <1>6, <1>8, <1>11, <1>12
<1>14. Flight' = Append(Flight, cur)
  <2>. HIDE DEF Flight
  <2>. QED BY <1>4, <1>9, <1>11, <1>13, FireRing, SeqEqual
<1>. QED BY <1>3, <1>7, <1>14

\* The device delivers the oldest frame.
LEMMA LinkSends ==
  ASSUME TypeOK, TypeOK', RingInv, HwSend
  PROVE  Flight # <<>> /\ Flight' = Tail(Flight) /\ wire' = Append(wire, Head(Flight))
<1>1. txd' = txd /\ hwTail' = NextDesc(hwTail) /\ wire' = Append(wire, txd[hwTail].frame)
      BY DEF HwSend
<1>2. NDesc \in Nat \ {0} /\ hwTail \in Desc /\ InFlight \in 0 .. NDesc
      BY TxAssumption DEF TypeOK, RingInv
<1>3. InFlight > 0 /\ InFlight' = InFlight - 1
      BY SendRing
<1>4. Flight' = [k \in 1 .. InFlight - 1 |-> txd[(hwTail' + k - 1) % NDesc].frame]
      BY <1>1, <1>3 DEF Flight
<1>5. ASSUME NEW k \in 1 .. InFlight - 1
      PROVE  (hwTail' + k - 1) % NDesc = (hwTail + (k + 1) - 1) % NDesc
  <2>1. hwTail' = After(hwTail, 1) /\ hwTail' \in Desc
    <3>1. 1 \in 0 .. NDesc
          BY <1>2
    <3>. QED BY <1>1, <1>2, <3>1, AfterIs
  <2>2. k - 1 \in 0 .. NDesc /\ (k + 1) - 1 = k /\ k \in 0 .. NDesc
        BY <1>2
  <2>3. (hwTail' + k - 1) % NDesc = After(hwTail', k - 1)
        BY <2>1, <2>2, AfterIs
  <2>4. (hwTail + (k + 1) - 1) % NDesc = After(hwTail, k)
        BY <1>2, <2>2, AfterIs
  <2>5. After(hwTail', k - 1) = After(hwTail, k)
        BY <1>2, <2>1 DEF After, Desc
  <2>. QED BY <2>3, <2>4, <2>5
<1>6. Flight \in Seq(Frames) /\ Len(Flight) = InFlight
      BY FlightType
<1>7. \A k \in 1 .. InFlight : Flight[k] = txd[(hwTail + k - 1) % NDesc].frame
      BY DEF Flight
<1>8. Head(Flight) = txd[hwTail].frame
  <2>1. 1 \in 1 .. InFlight /\ 0 \in 0 .. NDesc /\ 1 - 1 = 0
        BY <1>2, <1>3
  <2>2. (hwTail + 1 - 1) % NDesc = After(hwTail, 0) /\ After(hwTail, 0) = hwTail
    <3>1. After(hwTail, 0) = hwTail
          BY <1>2 DEF After, Desc
    <3>. QED BY <1>2, <2>1, <3>1, AfterIs
  <2>. QED BY <1>6, <1>7, <2>1, <2>2
<1>9. /\ Tail(Flight) \in Seq(Frames) /\ Len(Tail(Flight)) = InFlight - 1
      /\ \A k \in 1 .. InFlight - 1 : Tail(Flight)[k] = Flight[k + 1]
  <2>. HIDE DEF Flight
  <2>1. Flight # <<>>
        BY <1>3, <1>6
  <2>. QED BY <1>6, <2>1, HeadTailProperties
<1>10. \A k \in 1 .. InFlight - 1 : k + 1 \in 1 .. InFlight
       BY <1>2
<1>11. Flight' = Tail(Flight)
  <2>1. TypeOK' /\ RingInv' => Flight' \in Seq(Frames) /\ Len(Flight') = InFlight'
        BY FlightTypeNext
  <2>2. \A k \in 1 .. InFlight - 1 : Flight'[k] = Tail(Flight)[k]
        BY <1>1, <1>4, <1>5, <1>7, <1>9, <1>10
  <2>. HIDE DEF Flight
  <2>. QED BY <1>3, <1>9, <2>1, <2>2, SendRing, SeqEqual
<1>12. Flight # <<>>
       BY <1>3, <1>6
<1>. QED BY <1>1, <1>8, <1>11, <1>12

\* wrn_start_xmit gives a frame back only when every descriptor is READY.
LEMMA LinkRefuses ==
  ASSUME TypeOK, RingInv, NEW f \in Frames, XmitRefuse(f)
  PROVE  Len(Flight) = NDesc
<1>1. /\ NDesc \in Nat \ {0} /\ hwTail \in Desc /\ head \in Desc /\ InFlight \in 0 .. NDesc
      /\ ready[head]
      BY TxAssumption DEF TypeOK, RingInv, XmitRefuse
<1>2. head = After(hwTail, InFlight) /\ Ahead(hwTail, head) < InFlight
      BY <1>1 DEF RingInv, XmitRefuse
<1>3. InFlight = NDesc
      BY <1>1, <1>2 DEF After, Ahead, Desc
<1>. QED BY <1>3, FlightType

\* The link's frames are in the registers of the device alone.
LEMMA FlightKept == UNCHANGED <<ready, txd, hwTail>> => Flight' = Flight
BY DEF Flight, InFlight

\* The frames for which wrn_start_xmit returned -ENOMEM.
Refused == {f \in Frames : stat[f] = "refused"}

\* Every step of the driver and the device is one of the link, or none.
LEMMA LinkStep ==
  ASSUME TypeOK, TypeOK', RingInv, HeldIsUnreferenced, [Next]_vars
  PROVE  \/ \E f \in Frames :
              \/ Len(Flight) < NDesc /\ Flight' = Append(Flight, f) /\ UNCHANGED <<wire, Refused>>
              \/ /\ Len(Flight) = NDesc /\ Refused' = Refused \cup {f}
                 /\ UNCHANGED <<Flight, wire>>
         \/ /\ Flight # <<>> /\ Flight' = Tail(Flight)
            /\ wire' = Append(wire, Head(Flight)) /\ UNCHANGED Refused
         \/ UNCHANGED <<Flight, wire, Refused>>
<1>1. stat \in [Frames -> {"new", "toolong", "refused", "held", "accepted"}]
      BY DEF TypeOK
<1>2. ASSUME NEW f \in Frames, stat[f] # "refused",
             NEW s, s # "refused", stat' = [stat EXCEPT ![f] = s]
      PROVE  Refused' = Refused
      BY <1>1, <1>2 DEF Refused
<1>3. ASSUME UNCHANGED <<ready, txd, hwTail, wire, stat>> PROVE UNCHANGED <<Flight, wire, Refused>>
      BY <1>3, FlightKept DEF Refused
<1> USE DEF device, ring, xmit, irqs
<1>4. ASSUME NEW f \in Frames, XmitTooLong(f) \/ XmitAlloc(f)
      PROVE  UNCHANGED <<Flight, wire, Refused>>
  <2>1. UNCHANGED <<ready, txd, hwTail, wire>> /\ stat[f] = "new"
        /\ \E s \in {"toolong", "held"} : stat' = [stat EXCEPT ![f] = s]
        BY <1>4 DEF XmitTooLong, XmitAlloc
  <2>. QED BY <1>2, <2>1, FlightKept
<1>5. ASSUME NEW f \in Frames, XmitRefuse(f)
      PROVE  /\ Len(Flight) = NDesc /\ Refused' = Refused \cup {f}
             /\ UNCHANGED <<Flight, wire>>
  <2>1. UNCHANGED <<ready, txd, hwTail, wire>> /\ stat' = [stat EXCEPT ![f] = "refused"]
        BY <1>5 DEF XmitRefuse
  <2>. QED BY <1>1, <1>5, <2>1, FlightKept, LinkRefuses DEF Refused
<1>6. CASE XmitSaveSkb \/ XmitSaveId \/ UNCHANGED vars
      BY <1>3, <1>6 DEF XmitSaveSkb, XmitSaveId, vars
<1>7. CASE XmitFire
  <2>1. cur \in Frames /\ stat' = [stat EXCEPT ![cur] = "accepted"] /\ wire' = wire
        BY <1>7 DEF XmitFire, TypeOK
  <2>2. stat[cur] # "refused"
        BY <1>7 DEF XmitFire, HeldIsUnreferenced
  <2>. QED BY <1>2, <1>7, <2>1, <2>2, LinkFires
<1>8. CASE HwSend
  <2>1. Refused' = Refused
        BY <1>8 DEF HwSend, Refused
  <2>. QED BY <1>8, <2>1, LinkSends
<1>9. CASE Irq
      BY <1>3, <1>9 DEF Irq, NicIrq, TxLoopEnd, TxLoopKeep, TxLoopTake, TxLoopFree, TxAck, TsMiss,
         TsMatch, TsGrab, TsFree
<1>10. CASE HwStampEarly \/ \E i \in Ids : HwStampLate(i) \/ HwStampLost(i)
       BY <1>3, <1>10 DEF HwStampEarly, HwStampLate, HwStampLost
<1>. QED BY <1>4, <1>5, <1>6, <1>7, <1>8, <1>9, <1>10 DEF Next, Xmit, Hw

\* The ring of descriptors is a bounded first-in first-out link: the safety part of
\* IsALink.
THEOREM RingIsALink == Spec => Link!LinkInit /\ [][Link!LinkNext]_(Link!linkVars)
<1>1. Init => Link!LinkInit
  <2> SUFFICES ASSUME Init PROVE Link!LinkInit
      OBVIOUS
  <2>1. Flight = <<>>
    <3>1. Ready = {}
          BY DEF Init, Ready
    <3>2. InFlight = 0
          BY <3>1, ReadyCount, FS_EmptySet
    <3>. QED BY <3>2 DEF Flight
  <2>2. Refused = {} /\ wire = <<>>
        BY DEF Init, Refused
  <2>. QED BY <2>1, <2>2 DEF Link!LinkInit, Flight, Refused
<1>2. TypeOK /\ TypeOK' /\ RingInv /\ HeldIsUnreferenced /\ [Next]_vars
        => [Link!LinkNext]_(Link!linkVars)
  <2> SUFFICES ASSUME TypeOK, TypeOK', RingInv, HeldIsUnreferenced, [Next]_vars
               PROVE  [Link!LinkNext]_(Link!linkVars)
      OBVIOUS
  <2>. QED BY LinkStep DEF Link!LinkNext, Link!Accept, Link!Refuse, Link!Deliver, Link!linkVars,
              Flight, Refused
<1>3. FreeInv => HeldIsUnreferenced
      BY DEF FreeInv
<1>. QED BY <1>1, <1>2, <1>3, RingInit, RingStep, FreeInvInit, FreeInvStep, TypeCorrect, PTL
         DEF Spec
=============================================================================
