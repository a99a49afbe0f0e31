----------------------------- MODULE WrnRxProofs -----------------------------
(***************************************************************************)
(* What holds of WrnRx for every ring size and any number of frames: type  *)
(* correctness, that no received frame and no masked interrupt is          *)
(* forgotten, and that frames are handled in the device's order.           *)
(* WakeupPending and MaskedForAWhile are inductive together with TypeOK,   *)
(* as they stand; the order needs to know where in the ring each frame is. *)
(* The last part is about PpsTime, how such a frame gets its seconds: its  *)
(* readings name the right second, for any number of cycles in a second,   *)
(* any width of the low word and any bound.                                *)
(***************************************************************************)
EXTENDS WrnRx, PpsTime, TLAPS

\* The ring index stays inside the descriptor table.
LEMMA NextDescType ==
  ASSUME NEW d \in Desc PROVE NextDesc(d) \in Desc
BY RxAssumption DEF NextDesc, Desc

-----------------------------------------------------------------------------
\* Every step of the receive path keeps every variable in its type, the two
\* ring indices inside the descriptor tables included.
LEMMA TypeStep == TypeOK /\ [Next]_vars => TypeOK'
<1> SUFFICES ASSUME TypeOK, [Next]_vars PROVE TypeOK'
    OBVIOUS
<1> USE DEF TypeOK
<1>1. ASSUME NEW k \in Kinds, HwStore(k) PROVE TypeOK'
  <2>1. NextDesc(hwRx) \in Desc
        BY NextDescType
  <2>2. stored' \in Seq(Frame)
        BY <1>1 DEF HwStore, Frame
  <2>. QED BY <1>1, <2>1, <2>2 DEF HwStore
<1>2. ASSUME HwDrop PROVE TypeOK'
      BY <1>2 DEF HwDrop, intr
<1>3. ASSUME HwTxDone PROVE TypeOK'
      BY <1>3 DEF HwTxDone, device
<1>4. ASSUME Irq PROVE TypeOK'
      BY <1>4 DEF Irq, IrqEnter, IrqAck, IrqMask, IrqSchedule, IrqUnchanged, device
<1>5. ASSUME TaskStart \/ RxEmpty \/ RxUnmask PROVE TypeOK'
      BY <1>5 DEF TaskStart, RxEmpty, RxUnmask, device, intr
<1>6. ASSUME RxRead PROVE TypeOK'
      BY <1>6 DEF RxRead, device, intr
<1>7. ASSUME RxDrop PROVE TypeOK'
  <2>1. NextDesc(nextRx) \in Desc
        BY NextDescType
  <2>2. handled' \in Seq(Frame)
        BY <1>7 DEF RxDrop, Frame, Kinds
  <2>. QED BY <1>7, <2>1, <2>2 DEF RxDrop, intr
<1>8. ASSUME RxCopy \/ RxRelease PROVE TypeOK'
      BY <1>8 DEF RxCopy, RxRelease, device, intr
<1>9. ASSUME RxDeliver PROVE TypeOK'
  <2>1. NextDesc(nextRx) \in Desc
        BY NextDescType
  <2>2. handled' \in Seq(Frame)
        BY <1>9 DEF RxDeliver, Frame, Kinds
  <2>. QED BY <1>9, <2>1, <2>2 DEF RxDeliver, device, intr
<1>10. ASSUME UNCHANGED vars PROVE TypeOK'
       BY <1>10 DEF vars, device, intr
<1>. QED BY <1>1, <1>2, <1>3, <1>4, <1>5, <1>6, <1>7, <1>8, <1>9, <1>10
         DEF Next, Hw, Tasklet

\* The receive path keeps its types and stays inside the descriptor tables.
THEOREM TypeCorrect == Spec => []TypeOK
<1>1. Init => TypeOK
      BY RxAssumption DEF Init, TypeOK, Desc, Kinds
<1>. QED BY <1>1, TypeStep, PTL DEF Spec

-----------------------------------------------------------------------------
\* A step leaves a waiting frame with someone who will look at it.  Only the
\* tasklet takes the promise away, at its last look at the ring, and then the
\* ring is empty.
LEMMA WakeupStep == TypeOK /\ WakeupPending /\ [Next]_vars => WakeupPending'
<1> SUFFICES ASSUME TypeOK, WakeupPending, [Next]_vars PROVE WakeupPending'
    OBVIOUS
<1> USE DEF WakeupPending
<1>1. ASSUME Hw PROVE WakeupPending'
      BY <1>1 DEF Hw, HwStore, HwDrop, HwTxDone, device, intr
<1>2. ASSUME Irq PROVE WakeupPending'
      BY <1>2 DEF Irq, IrqEnter, IrqAck, IrqMask, IrqSchedule, IrqUnchanged, device
<1>3. ASSUME TaskStart \/ RxEmpty \/ RxUnmask PROVE WakeupPending'
      BY <1>3 DEF TaskStart, RxEmpty, RxUnmask, device, intr
<1>4. ASSUME RxRead \/ RxDrop \/ RxCopy \/ RxRelease \/ RxDeliver PROVE WakeupPending'
      BY <1>4 DEF RxRead, RxDrop, RxCopy, RxRelease, RxDeliver, device, intr
<1>5. ASSUME UNCHANGED vars PROVE WakeupPending'
      BY <1>5 DEF vars, device, intr
<1>. QED BY <1>1, <1>2, <1>3, <1>4, <1>5 DEF Next, Tasklet

\* Whoever masks RCOMP, or takes its wake-up, leads to one that unmasks it.
LEMMA MaskedStep == TypeOK /\ MaskedForAWhile /\ [Next]_vars => MaskedForAWhile'
<1> SUFFICES ASSUME TypeOK, MaskedForAWhile, [Next]_vars PROVE MaskedForAWhile'
    OBVIOUS
<1> USE DEF MaskedForAWhile
<1>1. ASSUME Hw PROVE MaskedForAWhile'
      BY <1>1 DEF Hw, HwStore, HwDrop, HwTxDone, device, intr
<1>2. ASSUME Irq PROVE MaskedForAWhile'
      BY <1>2 DEF Irq, IrqEnter, IrqAck, IrqMask, IrqSchedule, IrqUnchanged, device
<1>3. ASSUME TaskStart \/ RxEmpty \/ RxUnmask PROVE MaskedForAWhile'
      BY <1>3 DEF TaskStart, RxEmpty, RxUnmask, device, intr
<1>4. ASSUME RxRead \/ RxDrop \/ RxCopy \/ RxRelease \/ RxDeliver PROVE MaskedForAWhile'
      BY <1>4 DEF RxRead, RxDrop, RxCopy, RxRelease, RxDeliver, device, intr
<1>5. ASSUME UNCHANGED vars PROVE MaskedForAWhile'
      BY <1>5 DEF vars, device, intr
<1>. QED BY <1>1, <1>2, <1>3, <1>4, <1>5 DEF Next, Tasklet

\* A received frame is never left in the ring without a wake-up for the
\* tasklet, whatever the handler and the tasklet of the receive path are doing.
THEOREM NoFrameForgotten == Spec => []WakeupPending
<1>1. Init => WakeupPending
      BY RxAssumption DEF Init, WakeupPending, Desc
<1>. QED BY <1>1, TypeCorrect, WakeupStep, PTL DEF Spec

\* RCOMP is masked only while someone is bound to unmask it.
THEOREM NeverMaskedForGood == Spec => []MaskedForAWhile
<1>1. Init => MaskedForAWhile
      BY DEF Init, MaskedForAWhile
<1>. QED BY <1>1, TypeCorrect, MaskedStep, PTL DEF Spec

-----------------------------------------------------------------------------
(***************************************************************************)
(* The order of frames.  The k-th frame that the device stores (from 0)    *)
(* goes to the descriptor Pos(k), and the tasklet takes the k-th from      *)
(* there.  Those stored and not given back yet fill consecutive positions, *)
(* never more of them than there are descriptors.                          *)
(***************************************************************************)

Pos(k) == k % NDesc

\* What a remainder is.
Splits(x, q, r) == x = NDesc * q + r

\* A number that splits so has that remainder.
LEMMA Remainder ==
  ASSUME NEW x \in Nat, NEW q \in Int, NEW r \in 0 .. NDesc - 1, Splits(x, q, r)
  PROVE  Pos(x) = r
<1> USE DEF Splits, Pos
<1> DEFINE p == x \div NDesc  m == x % NDesc
<1>1. p \in Int /\ m \in 0 .. NDesc - 1 /\ x = NDesc * p + m
      BY RxAssumption
<1> HIDE DEF p, m
<1>2. NDesc * (q - p) = m - r
      BY <1>1, RxAssumption
<1>3. CASE q - p >= 1
  <2>1. NDesc * (q - p) >= NDesc
        BY <1>1, <1>3, RxAssumption
  <2>. QED BY <1>1, <1>2, <2>1, RxAssumption
<1>4. CASE p - q >= 1
  <2>1. NDesc * (p - q) >= NDesc
        BY <1>1, <1>4, RxAssumption
  <2>2. NDesc * (p - q) = r - m
        BY <1>1, RxAssumption
  <2>. QED BY <1>1, <2>1, <2>2, RxAssumption
<1>5. CASE q = p
      BY <1>1, <1>2, <1>5, RxAssumption DEF m
<1>. QED BY <1>1, <1>3, <1>4, <1>5

\* A whole turn leads back to the same descriptor, a step to the next one.
LEMMA PosTurn ==
  /\ Pos(0) = 0
  /\ \A k \in Nat : Pos(k) \in Desc /\ Pos(k + NDesc) = Pos(k) /\ NextDesc(Pos(k)) = Pos(k + 1)
<1>1. Pos(0) = 0
      BY RxAssumption DEF Pos
<1>2. SUFFICES ASSUME NEW k \in Nat
      PROVE Pos(k) \in Desc /\ Pos(k + NDesc) = Pos(k) /\ NextDesc(Pos(k)) = Pos(k + 1)
      BY <1>1
<1> DEFINE p == k \div NDesc
<1>3. p \in Int /\ Pos(k) \in 0 .. NDesc - 1
      BY RxAssumption DEF Pos
<1>4. Splits(k, p, Pos(k))
      BY RxAssumption DEF Pos, Splits
<1> HIDE DEF p
<1>5. Pos(k) \in Desc
      BY <1>3 DEF Desc
<1>6. Pos(k + NDesc) = Pos(k)
  <2>1. Splits(k + NDesc, p + 1, Pos(k))
        BY <1>3, <1>4, RxAssumption DEF Splits
  <2>2. k + NDesc \in Nat /\ p + 1 \in Int
        BY <1>3, RxAssumption
  <2>. QED BY <2>1, <2>2, <1>3, Remainder
<1>7. NextDesc(Pos(k)) = Pos(Pos(k) + 1)
      BY DEF NextDesc, Pos
<1>8. /\ k + 1 \in Nat /\ Pos(k) + 1 \in Nat /\ p + 1 \in Int
      /\ 0 \in Int /\ 1 \in Int /\ 0 \in 0 .. NDesc - 1
      BY <1>3, RxAssumption
<1>9. CASE Pos(k) + 1 \in 0 .. NDesc - 1
  <2>1. Splits(Pos(k) + 1, 0, Pos(k) + 1) /\ Splits(k + 1, p, Pos(k) + 1)
        BY <1>3, <1>4, RxAssumption DEF Splits
  <2>2. Pos(Pos(k) + 1) = Pos(k) + 1
        BY <2>1, <1>8, <1>3, <1>9, Remainder
  <2>3. Pos(k + 1) = Pos(k) + 1
        BY <2>1, <1>8, <1>3, <1>9, Remainder
  <2>. QED BY <1>5, <1>6, <1>7, <2>2, <2>3
<1>10. CASE Pos(k) + 1 = NDesc
  <2>1. Splits(Pos(k) + 1, 1, 0) /\ Splits(k + 1, p + 1, 0)
        BY <1>3, <1>4, <1>10, RxAssumption DEF Splits
  <2>2. Pos(Pos(k) + 1) = 0
        BY <2>1, <1>8, Remainder
  <2>3. Pos(k + 1) = 0
        BY <2>1, <1>8, Remainder
  <2>. QED BY <1>5, <1>6, <1>7, <2>2, <2>3
<1>. QED BY <1>3, <1>5, <1>6, <1>9, <1>10, RxAssumption

\* One turn of the ring visits each descriptor once.
LEMMA PosDistinct ==
  ASSUME NEW j \in Nat, NEW k \in Nat, j < k, k < j + NDesc PROVE Pos(j) # Pos(k)
<1> SUFFICES ASSUME Pos(j) = Pos(k) PROVE FALSE
    OBVIOUS
<1> DEFINE p == j \div NDesc  q == k \div NDesc
<1>1. p \in Int /\ q \in Int /\ j = NDesc * p + Pos(j) /\ k = NDesc * q + Pos(k)
      BY RxAssumption DEF Pos
<1>2. Pos(j) \in 0 .. NDesc - 1
      BY RxAssumption DEF Pos
<1> HIDE DEF p, q
<1>3. k - j = NDesc * (q - p)
      BY <1>1, <1>2, RxAssumption
<1>4. CASE q - p <= 0
  <2>1. NDesc * (q - p) <= 0
        BY <1>1, <1>4, RxAssumption
  <2>. QED BY <1>3, <2>1
<1>5. CASE q - p >= 1
  <2>1. NDesc * (q - p) >= NDesc
        BY <1>1, <1>5, RxAssumption
  <2>. QED BY <1>3, <2>1, RxAssumption
<1>. QED BY <1>1, <1>4, <1>5

\* How many frames have left the ring: those handled, and the one in hand once
\* its descriptor was given back.
Left == Len(handled) + (IF pc = "deliver" THEN 1 ELSE 0)

RingInv ==
  /\ nextRx = Pos(Len(handled)) /\ hwRx = Pos(Len(stored))
  /\ Left <= Len(stored) /\ Len(stored) <= Left + NDesc
  \* The frames in the ring are where the tasklet will look for them, ...
  /\ \A k \in Left .. Len(stored) - 1 :
       ~empty[Pos(k)] /\ stored[k + 1] = [n |-> buf[Pos(k)], kind |-> regs[Pos(k)]]
  \* ... and no others are.
  /\ \A d \in Desc : ~empty[d] => \E k \in Left .. Len(stored) - 1 : d = Pos(k)
  \* The one in hand is the next to be handled.
  /\ pc \in {"drop", "copy", "release"} => Left < Len(stored) /\ r1 = stored[Left + 1].kind
  /\ pc = "drop" => r1 = "error"
  /\ pc \in {"copy", "release"} => r1 = "good"
  /\ pc = "release" => skb = stored[Left + 1].n
  /\ pc = "deliver" => stored[Left] = [n |-> skb, kind |-> "good"]

OrderInv == TypeOK /\ HandledInOrder /\ RingInv

\* The order holds of an empty ring, ...
LEMMA OrderInit == Init => OrderInv
<1> SUFFICES ASSUME Init PROVE OrderInv
    OBVIOUS
<1>1. TypeOK
      BY RxAssumption DEF Init, TypeOK, Desc, Kinds
<1>2. Len(stored) = 0 /\ Len(handled) = 0 /\ Left = 0 /\ Pos(0) = 0
      BY PosTurn DEF Init, Left
<1>3. HandledInOrder
      BY <1>2 DEF Init, HandledInOrder
<1>4. RingInv
      BY <1>2, RxAssumption DEF Init, RingInv
<1>. QED BY <1>1, <1>3, <1>4 DEF OrderInv

\* The device stores into a descriptor that no frame waits in: there are fewer
\* frames in the ring than descriptors.
LEMMA StoreKeepsOrder ==
  ASSUME OrderInv, TypeOK', NEW kind \in Kinds, HwStore(kind) PROVE OrderInv'
<1> DEFINE S == Len(stored)
<1>1. /\ Left \in Nat /\ S \in Nat /\ Left <= S /\ S <= Left + NDesc
      /\ Left' = Left /\ Len(handled) <= Left
      /\ NDesc \in Nat /\ hwRx = Pos(S) /\ empty[hwRx]
      BY RxAssumption DEF OrderInv, TypeOK, HwStore, RingInv, Left
<1>2. /\ Len(stored') = S + 1
      /\ \A i \in 1 .. S : stored'[i] = stored[i]
      /\ stored'[S + 1] = [n |-> arrived', kind |-> kind]
      BY DEF OrderInv, TypeOK, HwStore, Frame
<1>3. /\ empty' = [empty EXCEPT ![Pos(S)] = FALSE]
      /\ regs' = [regs EXCEPT ![Pos(S)] = kind] /\ buf' = [buf EXCEPT ![Pos(S)] = arrived']
      /\ Pos(S) \in Desc /\ hwRx' = Pos(S + 1)
      BY <1>1, PosTurn DEF HwStore
<1>4. S < Left + NDesc
  <2>1. SUFFICES ASSUME S = Left + NDesc PROVE FALSE
        BY <1>1
  <2>2. Left \in Left .. S - 1
        BY <1>1, <2>1, RxAssumption
  <2>3. ~empty[Pos(Left)]
        BY <2>2 DEF OrderInv, RingInv
  <2>4. Pos(Left) = Pos(S)
        BY <1>1, <2>1, PosTurn
  <2>. QED BY <1>1, <2>3, <2>4
<1>5. \A k \in Left .. S - 1 : Pos(k) \in Desc /\ Pos(k) # Pos(S)
  <2>1. ASSUME NEW k \in Left .. S - 1 PROVE Pos(k) \in Desc /\ Pos(k) # Pos(S)
    <3>1. k \in Nat /\ k < S /\ S < k + NDesc
          BY <1>1, <1>4, <2>1
    <3>. QED BY <1>1, <3>1, PosDistinct, PosTurn
  <2>. QED BY <2>1
<1>6. \A k \in Left .. S :
        ~empty'[Pos(k)] /\ stored'[k + 1] = [n |-> buf'[Pos(k)], kind |-> regs'[Pos(k)]]
  <2>1. ASSUME NEW k \in Left .. S - 1
        PROVE ~empty'[Pos(k)] /\ stored'[k + 1] = [n |-> buf'[Pos(k)], kind |-> regs'[Pos(k)]]
    <3>1. k + 1 \in 1 .. S
          BY <1>1
    <3>. QED BY <1>2, <1>3, <1>5, <3>1 DEF OrderInv, TypeOK, RingInv
  <2>2. ~empty'[Pos(S)] /\ stored'[S + 1] = [n |-> buf'[Pos(S)], kind |-> regs'[Pos(S)]]
        BY <1>2, <1>3 DEF OrderInv, TypeOK
  <2>. QED BY <1>1, <2>1, <2>2
<1>7. \A d \in Desc : ~empty'[d] => \E k \in Left .. S : d = Pos(k)
  <2>1. ASSUME NEW d \in Desc, ~empty'[d] PROVE \E k \in Left .. S : d = Pos(k)
    <3>1. CASE d = Pos(S)
          BY <1>1, <3>1
    <3>2. CASE d # Pos(S)
          BY <1>1, <1>3, <2>1, <3>2 DEF OrderInv, TypeOK, RingInv
    <3>. QED BY <3>1, <3>2
  <2>. QED BY <2>1
<1>8. HandledInOrder'
      BY <1>1, <1>2 DEF OrderInv, TypeOK, HandledInOrder, HwStore
<1>9. RingInv'
  <2>1. nextRx' = Pos(Len(handled')) /\ hwRx' = Pos(Len(stored'))
        BY <1>2, <1>3 DEF HwStore, OrderInv, RingInv
  <2>2. Left' <= Len(stored') /\ Len(stored') <= Left' + NDesc
        BY <1>1, <1>2, <1>4
  <2>3. Len(stored') - 1 = S
        BY <1>1, <1>2
  <2>4. /\ pc' \in {"drop", "copy", "release"} =>
             Left' < Len(stored') /\ r1' = stored'[Left' + 1].kind
        /\ pc' = "drop" => r1' = "error"
        /\ pc' \in {"copy", "release"} => r1' = "good"
        /\ pc' = "release" => skb' = stored'[Left' + 1].n
        BY <1>1, <1>2 DEF HwStore, OrderInv, RingInv
  <2>5. pc' = "deliver" => stored'[Left'] = [n |-> skb', kind |-> "good"]
        BY <1>1, <1>2 DEF HwStore, OrderInv, RingInv, Left, TypeOK
  <2>. QED BY <1>1, <1>6, <1>7, <2>1, <2>2, <2>3, <2>4, <2>5 DEF RingInv
<1>. QED BY <1>8, <1>9 DEF OrderInv

\* The tasklet takes the frame at next_rx, which is the next one stored.
LEMMA ReadKeepsOrder == ASSUME OrderInv, TypeOK', RxRead PROVE OrderInv'
<1>1. Left = Len(handled) /\ Left' = Left /\ Left \in Nat /\ Len(stored) \in Nat
      BY DEF OrderInv, TypeOK, RxRead, Left
<1>2. PICK k \in Left .. Len(stored) - 1 : nextRx = Pos(k)
      BY DEF OrderInv, TypeOK, RingInv, RxRead
<1>3. Left < Len(stored) /\ Left \in Left .. Len(stored) - 1
      BY <1>1, <1>2
<1>4. stored[Left + 1].kind = regs[nextRx]
  <2>1. stored[Left + 1] = [n |-> buf[Pos(Left)], kind |-> regs[Pos(Left)]]
        BY <1>3 DEF OrderInv, RingInv
  <2>2. nextRx = Pos(Left)
        BY <1>1 DEF OrderInv, RingInv
  <2>. QED BY <2>1, <2>2
<1>. QED BY <1>1, <1>3, <1>4, RxAssumption
         DEF OrderInv, TypeOK, HandledInOrder, RingInv, RxRead, Left, device, intr, Kinds

\* The frames in the ring are those of the next positions, and no others.
InRing(l, n, e) ==
  /\ \A k \in l .. n - 1 : ~e[Pos(k)]
  /\ \A d \in Desc : ~e[d] => \E k \in l .. n - 1 : d = Pos(k)

\* A descriptor that is given back takes the oldest frame out of the ring and
\* no other.
LEMMA GivenBack ==
  ASSUME OrderInv, pc \in {"drop", "release"}, empty' = [empty EXCEPT ![nextRx] = TRUE]
  PROVE  /\ Left = Len(handled) /\ Left \in Nat /\ Left < Len(stored)
         /\ stored[Left + 1] = [n |-> buf[nextRx], kind |-> r1]
         /\ InRing(Left + 1, Len(stored), empty')
<1>1. /\ Left = Len(handled) /\ Left \in Nat /\ Len(stored) \in Nat
      /\ Left < Len(stored) /\ Len(stored) <= Left + NDesc /\ nextRx = Pos(Left)
      BY DEF OrderInv, TypeOK, RingInv, Left
<1>2. stored[Left + 1] = [n |-> buf[nextRx], kind |-> r1]
  <2>1. Left \in Left .. Len(stored) - 1
        BY <1>1
  <2>2. stored[Left + 1] = [n |-> buf[Pos(Left)], kind |-> regs[Pos(Left)]]
        BY <2>1 DEF OrderInv, RingInv
  <2>. QED BY <1>1, <2>2 DEF OrderInv, RingInv
<1>3. ASSUME NEW k \in Left + 1 .. Len(stored) - 1 PROVE ~empty'[Pos(k)]
  <2>1. k \in Nat /\ Left < k /\ k < Left + NDesc /\ k \in Left .. Len(stored) - 1
        BY <1>1, RxAssumption
  <2>2. Pos(k) # nextRx /\ Pos(k) \in Desc
        BY <1>1, <2>1, PosDistinct, PosTurn
  <2>. QED BY <2>1, <2>2 DEF OrderInv, TypeOK, RingInv
<1>4. ASSUME NEW d \in Desc, ~empty'[d]
      PROVE  \E k \in Left + 1 .. Len(stored) - 1 : d = Pos(k)
  <2>1. d # nextRx /\ ~empty[d]
        BY <1>4 DEF OrderInv, TypeOK
  <2>2. PICK k \in Left .. Len(stored) - 1 : d = Pos(k)
        BY <2>1 DEF OrderInv, RingInv
  <2>3. k # Left
        BY <1>1, <2>1, <2>2
  <2>. QED BY <1>1, <2>2, <2>3
<1>. QED BY <1>1, <1>2, <1>3, <1>4 DEF InRing

\* A frame with an error is handled where it is.
LEMMA DropKeepsOrder == ASSUME OrderInv, TypeOK', RxDrop PROVE OrderInv'
<1>1. /\ Left = Len(handled) /\ Left \in Nat /\ Left < Len(stored)
      /\ stored[Left + 1] = [n |-> buf[nextRx], kind |-> "error"]
      /\ InRing(Left + 1, Len(stored), empty')
      BY GivenBack DEF RxDrop, OrderInv, RingInv
<1>2. /\ Left' = Left + 1 /\ Len(handled') = Left + 1
      /\ \A i \in DOMAIN handled : handled'[i] = handled[i]
      /\ handled'[Left + 1] = stored[Left + 1] /\ DOMAIN handled' = 1 .. Left + 1
      BY <1>1 DEF RxDrop, Left, OrderInv, TypeOK, Frame
<1>3. HandledInOrder'
      BY <1>1, <1>2 DEF OrderInv, TypeOK, HandledInOrder, RxDrop
<1>4. nextRx' = Pos(Len(handled'))
      BY <1>1, <1>2, PosTurn DEF RxDrop, OrderInv, RingInv
<1>5. RingInv'
      BY <1>1, <1>2, <1>4, RxAssumption DEF RxDrop, OrderInv, TypeOK, RingInv, InRing
<1>. QED BY <1>3, <1>5 DEF OrderInv

\* A good frame leaves the ring with its bytes in the skb.
LEMMA CopyKeepsOrder == ASSUME OrderInv, TypeOK', RxCopy PROVE OrderInv'
<1>1. /\ Left = Len(handled) /\ Left' = Left /\ Left \in Nat /\ Len(stored) \in Nat
      /\ Left < Len(stored) /\ nextRx = Pos(Left)
      BY DEF OrderInv, TypeOK, RingInv, RxCopy, Left
<1>2. Left \in Left .. Len(stored) - 1
      BY <1>1
<1>3. stored[Left + 1] = [n |-> buf[nextRx], kind |-> regs[nextRx]]
      BY <1>1, <1>2 DEF OrderInv, RingInv
<1>. QED BY <1>1, <1>3 DEF OrderInv, TypeOK, HandledInOrder, RingInv, RxCopy, device, intr

\* ... when a descriptor is given back, ...
LEMMA ReleaseKeepsOrder == ASSUME OrderInv, TypeOK', RxRelease PROVE OrderInv'
<1>1. /\ Left = Len(handled) /\ Left \in Nat /\ Left < Len(stored)
      /\ stored[Left + 1] = [n |-> buf[nextRx], kind |-> "good"]
      /\ InRing(Left + 1, Len(stored), empty')
      BY GivenBack DEF RxRelease, OrderInv, RingInv
<1>2. Left' = Left + 1 /\ skb = stored[Left + 1].n
      BY <1>1 DEF RxRelease, Left, OrderInv, RingInv
<1>3. HandledInOrder'
      BY DEF RxRelease, OrderInv, HandledInOrder
<1>4. \A k \in Left' .. Len(stored') - 1 :
        ~empty'[Pos(k)] /\ stored'[k + 1] = [n |-> buf'[Pos(k)], kind |-> regs'[Pos(k)]]
      BY <1>1, <1>2 DEF RxRelease, OrderInv, TypeOK, RingInv, InRing
<1>5. \A d \in Desc : ~empty'[d] => \E k \in Left' .. Len(stored') - 1 : d = Pos(k)
      BY <1>1, <1>2 DEF RxRelease, InRing
<1>6. pc' = "deliver" /\ stored'[Left'] = [n |-> skb', kind |-> "good"]
      BY <1>1, <1>2 DEF RxRelease
<1>7. Left' <= Len(stored') /\ Len(stored') <= Left' + NDesc
      BY <1>1, <1>2, RxAssumption DEF RxRelease, OrderInv, TypeOK, RingInv
<1>8. RingInv'
      BY <1>4, <1>5, <1>6, <1>7 DEF RxRelease, OrderInv, RingInv
<1>. QED BY <1>3, <1>8 DEF OrderInv

\* ... when its frame is delivered, ...
LEMMA DeliverKeepsOrder == ASSUME OrderInv, TypeOK', RxDeliver PROVE OrderInv'
<1>1. /\ Left = Len(handled) + 1 /\ Left' = Left /\ Len(handled) \in Nat
      /\ Len(handled') = Left /\ Left <= Len(stored)
      /\ stored[Left] = [n |-> skb, kind |-> "good"]
      BY DEF OrderInv, TypeOK, RingInv, RxDeliver, Left, Frame
<1>2. /\ \A i \in DOMAIN handled : handled'[i] = handled[i]
      /\ handled'[Left] = stored[Left] /\ DOMAIN handled' = 1 .. Left
  <2>1. [n |-> skb, kind |-> "good"] \in Frame
        BY DEF OrderInv, TypeOK, Frame, Kinds
  <2>. QED BY <1>1, <2>1 DEF RxDeliver, OrderInv, TypeOK
<1>3. HandledInOrder'
      BY <1>1, <1>2 DEF OrderInv, TypeOK, HandledInOrder, RxDeliver, device
<1>4. nextRx' = Pos(Len(handled'))
      BY <1>1, PosTurn DEF RxDeliver, OrderInv, RingInv
<1>5. RingInv'
      BY <1>1, <1>4 DEF RxDeliver, OrderInv, TypeOK, RingInv, device
<1>. QED BY <1>3, <1>5 DEF OrderInv

\* ... and after any other step.
LEMMA OrderStep == OrderInv /\ TypeOK' /\ [Next]_vars => OrderInv'
<1> SUFFICES ASSUME OrderInv, TypeOK', [Next]_vars PROVE OrderInv'
    OBVIOUS
<1>1. ASSUME NEW kind \in Kinds, HwStore(kind) PROVE OrderInv'
      BY <1>1, StoreKeepsOrder
<1>2. CASE HwDrop \/ HwTxDone
      BY <1>2 DEF HwDrop, HwTxDone, OrderInv, HandledInOrder, RingInv, Left, device, intr
<1>3. CASE Irq
      BY <1>3 DEF Irq, IrqEnter, IrqAck, IrqMask, IrqSchedule, IrqUnchanged,
                  OrderInv, HandledInOrder, RingInv, Left, device
<1>4. CASE TaskStart \/ RxEmpty \/ RxUnmask
      BY <1>4 DEF TaskStart, RxEmpty, RxUnmask, OrderInv, HandledInOrder, RingInv, Left,
                  device, intr
<1>5. CASE RxRead \/ RxDrop \/ RxCopy \/ RxRelease \/ RxDeliver
      BY <1>5, ReadKeepsOrder, DropKeepsOrder, CopyKeepsOrder, ReleaseKeepsOrder,
         DeliverKeepsOrder
<1>6. CASE UNCHANGED vars
      BY <1>6 DEF vars, OrderInv, HandledInOrder, RingInv, Left, device, intr
<1>. QED BY <1>1, <1>2, <1>3, <1>4, <1>5, <1>6 DEF Next, Hw, Tasklet

\* The tasklet handles the frames in the order in which the device stored them,
\* each once, with the bytes and the verdict of the device.
THEOREM InOrder == Spec => []HandledInOrder
<1>1. OrderInv => HandledInOrder
      BY DEF OrderInv
<1>. QED BY <1>1, OrderInit, OrderStep, TypeCorrect, PTL DEF Spec

-----------------------------------------------------------------------------
(* The two words of a number of seconds give it back (CNTR_UTCLO and       *)
(* CNTR_UTCHI), and each is what its register can hold.                    *)
LEMMA WordsOfSeconds ==
  \A s \in Nat : Hi(s) \in Nat /\ Lo(s) \in 0 .. LoMod - 1 /\ Hi(s) * LoMod + Lo(s) = s
  BY PpsAssumption DEF Hi, Lo

-----------------------------------------------------------------------------
(* What is known of a reading of wrn_ppsg_read_time at each of its steps.  *)

\* The frame passed the port before now.
Passed == sec > tsec \/ (sec = tsec /\ cnt >= tcnt)

\* <<s, c>> is a moment between the frame's passing and now.
Moment(s, c) ==
  /\ s > tsec \/ (s = tsec /\ c >= tcnt)
  /\ s < sec \/ (s = sec /\ c <= cnt)

\* utc1 and the cycles belong together if the second has not rolled over since;
\* if it has, only utc2 and the cycles read after it may.
StampInv ==
  job = "stamp" =>
    /\ Passed
    /\ step \in {"idle", "cnt", "utc2", "cnt2", "done"}
    /\ step \in {"cnt", "utc2"} => tsec <= first /\ first <= sec
    /\ step = "utc2" /\ sec = first => Moment(first, fine)
    /\ step = "cnt2" => tsec < utc /\ utc <= sec
    /\ step = "done" => Moment(utc, fine) \/ sec > tsec + 1

-----------------------------------------------------------------------------
(* What is known of the 40-bit reading of wrn_dio_cmd_pulse, as long as    *)
(* the second rolled over at most once since it began.                     *)

NowInv ==
  /\ job = "now" => step \in {"lo", "hi2", "lo2", "done"} /\ start <= sec
  /\ job = "none" => step = "idle"
  /\ job = "now" /\ step \in {"lo", "hi2"} => first = Hi(start)
  /\ job = "now" /\ sec <= start + 1 =>
       /\ step = "hi2" => lo = Lo(start) \/ (sec = start + 1 /\ lo = Lo(sec))
       /\ step = "lo2" => sec = start + 1 /\ hi = Hi(sec)
       /\ step = "done" => \E s \in {start, start + 1} : hi = Hi(s) /\ lo = Lo(s)

PpsInv == PpsTypeOK /\ StampInv /\ NowInv

\* It holds before anything is read.
LEMMA PpsInvInit == PpsInit => PpsInv
  BY PpsAssumption DEF PpsInit, PpsInv, PpsTypeOK, StampInv, NowInv, Passed, Moment

(* One step for each register read, and one for the clock.                 *)
LEMMA PpsInvStep == PpsInv /\ [PpsNext]_ppsVars => PpsInv'
<1> SUFFICES ASSUME PpsInv, [PpsNext]_ppsVars PROVE PpsInv'
  OBVIOUS
<1> USE PpsAssumption DEF PpsInv, PpsTypeOK, StampInv, NowInv, Passed, Moment, clock
<1>1. CASE UNCHANGED ppsVars
  BY <1>1 DEF ppsVars
<1>2. CASE Tick
  BY <1>2 DEF Tick
<1>3. CASE Latch
  BY <1>3 DEF Latch
<1>4. CASE ReadUtc1
  BY <1>4 DEF ReadUtc1
<1>5. CASE ReadCnt
  BY <1>5 DEF ReadCnt
<1>6. CASE ReadUtc2
  BY <1>6 DEF ReadUtc2
<1>7. CASE ReadCnt2
  BY <1>7 DEF ReadCnt2
<1>8. CASE ReadHi1
  BY <1>8, WordsOfSeconds DEF ReadHi1
<1>9. CASE ReadLo
  BY <1>9, WordsOfSeconds DEF ReadLo
<1>10. CASE ReadHi2
  BY <1>10, WordsOfSeconds DEF ReadHi2
<1>11. CASE ReadLo2
  BY <1>11, WordsOfSeconds DEF ReadLo2
<1>12. CASE Use
  BY <1>12 DEF Use
<1>13. QED
  BY <1>1, <1>2, <1>3, <1>4, <1>5, <1>6, <1>7, <1>8, <1>9, <1>10, <1>11, <1>12 DEF PpsNext

(* The registers and locals have their types.                              *)
THEOREM PpsTypeCorrect == PpsSpec => []PpsTypeOK
<1>1. PpsInv => PpsTypeOK
  BY DEF PpsInv
<1>2. QED
  BY <1>1, PpsInvInit, PpsInvStep, PTL DEF PpsSpec

(* A frame that passed the port less than a second before its time is read *)
(* gets the second in which it passed, whenever the clock rolls over.      *)
THEOREM FramesGetTheirSecond == PpsSpec => []StampNamesItsSecond
<1>1. PpsInv => StampNamesItsSecond
  BY PpsAssumption DEF PpsInv, PpsTypeOK, StampInv, Moment, StampNamesItsSecond, WithinASecond, StampSec
<1>2. QED
  BY <1>1, PpsInvInit, PpsInvStep, PTL DEF PpsSpec

(* The current seconds of a relative pulse are not torn by a carry from    *)
(* the low to the high word.                                               *)
THEOREM NowIsNotTorn == PpsSpec => []NowIsCurrent
<1>1. PpsInv => NowIsCurrent
  BY WordsOfSeconds DEF PpsInv, PpsTypeOK, NowInv, NowIsCurrent, NowSec
<1>2. QED
  BY <1>1, PpsInvInit, PpsInvStep, PTL DEF PpsSpec
=============================================================================
