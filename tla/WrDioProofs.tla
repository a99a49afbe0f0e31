----------------------------- MODULE WrDioProofs -----------------------------
(***************************************************************************)
(* The time stamps and the pulses of the mezzanine, for any channels,      *)
(* users, calls and sizes of the rings.  On one processor or several, the  *)
(* types hold, hw_lock keeps the pulses of the interrupt handler and of    *)
(* the ioctls apart, and a loop that has its channel for itself ends where *)
(* it was asked to.  On one processor the stamps are read in order; on     *)
(* several they are not, since the handler publishes a slot before it      *)
(* fills it.                                                               *)
(***************************************************************************)
EXTENDS WrDio, FiniteSetTheorems, WellFoundedInduction, TLAPS

\* A set of naturals with an element has a least one.
LEMMA MinOf ==
  ASSUME NEW S, S \subseteq Nat, S # {}
  PROVE  Min(S) \in S
<1>1. PICK x \in S : \A y \in S : ~(<<y, x>> \in OpToRel(<, Nat))
      BY WFMin, NatLessThanWellFounded, Zenon
<1>2. \A y \in S : ~(y < x)
      BY <1>1 DEF OpToRel
<1>3. \A y \in S : x =< y
      BY <1>2
<1>. QED BY <1>3 DEF Min

\* A finite set of naturals with an element has a greatest one.
LEMMA MaxOf ==
  ASSUME NEW S, S \subseteq Nat, S # {}, IsFiniteSet(S)
  PROVE  Max(S) \in S
<1>. DEFINE HasMax(U) == \E x \in U : \A y \in U : x >= y
            Odd == {U \in SUBSET S : U # {} /\ ~HasMax(U)}
<1>1. ASSUME Odd # {} PROVE FALSE
  <2>1. Odd \subseteq FiniteSubsetsOf(S)
        BY FS_Subset DEF FiniteSubsetsOf
  <2>2. PICK U \in Odd : \A V \in Odd : ~(<<V, U>> \in StrictSubsetOrdering(S))
    <3>. HIDE DEF Odd
    <3>. QED BY <1>1, <2>1, FS_StrictSubsetOrderingWellFounded, WFMin
  <2>3. PICK e \in U : TRUE
        OBVIOUS
  <2>4. U \ {e} \notin Odd
        BY <2>2, <2>3 DEF StrictSubsetOrdering
  <2>5. CASE U = {e}
        BY <2>5
  <2>6. CASE U # {e}
    <3>1. PICK m \in U \ {e} : \A y \in U \ {e} : m >= y
          BY <2>4, <2>6, <2>3
    <3>. QED BY <2>3, <3>1
  <2>. QED BY <2>5, <2>6
<1>2. HasMax(S)
      BY <1>1
<1>. QED BY <1>2 DEF Max

-----------------------------------------------------------------------------
(* The types.                                                              *)

\* Where a CMD_PULSE call is on its way.
Pulsing == {"width", "loop", "latch"}

\* What the types rest on: the handler publishes a slot for a stamp it has not
\* yet popped, a reader copies only what its buffer has room for, and a pulse is
\* programmed for a call that was issued.
Grounded ==
  /\ irq \in {"bump", "fill"} => fifo[ch] # <<>>
  /\ \A u \in Users :
       /\ upc[u] = "copy" => n[u] < NStamp
       /\ upc[u] \in Pulsing => pulse[u] # 0

TypeInv == TypeOK /\ Grounded

\* The mezzanine starts with every variable in its type.
LEMMA TypeInvInit == Init => TypeInv
<1>1. Min(Channels) \in Channels
      BY DioAssumption, MinOf
<1>2. NoPulse \in Setpoints /\ 0 \in Calls /\ 0 \in Slots
      BY DioAssumption DEF NoPulse, Setpoints, Calls, Slots
<1>3. NoCall \in StampCalls \cup {NoCall} /\ <<>> \in Seq(Nat) /\ 0 \in 0 .. NStamp
      BY DioAssumption
<1> SUFFICES ASSUME Init PROVE TypeInv
    OBVIOUS
<1>4. /\ fifo \in [Channels -> Seq(Nat)] /\ given \in [Channels -> Seq(Nat)]
      /\ n \in [Users -> 0 .. NStamp] /\ call \in [Users -> StampCalls \cup {NoCall}]
      BY <1>3 DEF Init
<1>5. TypeOK
  <2>1. /\ isr \subseteq Channels /\ armed \in [Channels -> SUBSET Setpoints]
        /\ todo \in [Users -> SUBSET Channels]
        /\ pend \in [Users -> SUBSET {"count", "prevts", "delay"}]
        BY DEF Init
  <2>2. /\ cycle \in [Channels -> Setpoints] /\ prevts \in [Channels -> Setpoints]
        /\ newts \in Setpoints /\ delay \in [Channels -> Calls] /\ made \in [Calls -> Nat]
        /\ pulse \in [Users -> Calls] /\ issued \in Calls
        BY <1>2 DEF Init
  <2>3. /\ taken \in [Channels -> Nat] /\ tsbuf \in [Channels -> [Slots -> Nat]]
        /\ bhead \in [Channels -> Slots] /\ btail \in [Channels -> Slots] /\ h \in Slots
        /\ count \in [Channels -> Int] /\ seenTail \in [Users -> Slots]
        BY <1>2 DEF Init
  <2>4. /\ upc \in [Users -> {"out"}] /\ sig \in [Users -> BOOLEAN]
        /\ dropped \in [Channels -> BOOLEAN] /\ uch \in [Users -> Channels]
        /\ mask \subseteq Channels /\ ch \in Channels /\ got \in BOOLEAN /\ positive \in BOOLEAN
        BY <1>1 DEF Init
  <2>5. irq = "idle" /\ hwLock = Nobody /\ rtnl = Nobody
        BY DEF Init
  <2>. QED BY <1>4, <2>1, <2>2, <2>3, <2>4, <2>5 DEF TypeOK
<1>6. Grounded
      BY DEF Init, Grounded, Pulsing
<1>. QED BY <1>5, <1>6 DEF TypeInv

\* The next slot of a ring is a slot.
LEMMA NextSlotType == \A s \in Slots : NextSlot(s) \in Slots
BY DioAssumption DEF NextSlot, Slots

\* The handler keeps the types: it fills only slots of its ring and pops only stamps.
LEMMA IrqTypes == TypeInv /\ Irq => TypeInv'
<1> SUFFICES ASSUME TypeInv, Irq PROVE TypeInv'
    OBVIOUS
<1> USE DEF hw, ring, loop, handler, reader, writer, history
<1>1. CASE IrqEnter
      BY <1>1 DEF IrqEnter, TypeInv, TypeOK, Grounded, Pulsing
<1>2. CASE IrqLock
      BY <1>2 DEF IrqLock, TypeInv, TypeOK, Grounded, Pulsing
<1>3. CASE IrqNext
      BY <1>3, MinOf, DioAssumption DEF IrqNext, TypeInv, TypeOK, Grounded, Pulsing
<1>4. CASE IrqReturn
      BY <1>4 DEF IrqReturn, TypeInv, TypeOK, Grounded, Pulsing
<1>5. CASE IrqPublish
      BY <1>5, NextSlotType DEF IrqPublish, TypeInv, TypeOK, Grounded, Pulsing
<1>6. CASE IrqBump
      BY <1>6, NextSlotType DEF IrqBump, TypeInv, TypeOK, Grounded, Pulsing
<1>7. CASE IrqFill
  <2>1. /\ fifo \in [Channels -> Seq(Nat)] /\ ch \in Channels /\ fifo[ch] # <<>>
        /\ tsbuf \in [Channels -> [Slots -> Nat]] /\ h \in Slots
        BY <1>7 DEF IrqFill, TypeInv, TypeOK, Grounded
  <2>2. Head(fifo[ch]) \in Nat /\ Tail(fifo[ch]) \in Seq(Nat)
        BY <2>1
  <2>3. tsbuf' \in [Channels -> [Slots -> Nat]] /\ fifo' \in [Channels -> Seq(Nat)]
        BY <1>7, <2>1, <2>2 DEF IrqFill
  <2>. QED BY <1>7, <2>3 DEF IrqFill, TypeInv, TypeOK, Grounded, Pulsing
<1>8. CASE IrqSeeEmpty
      BY <1>8 DEF IrqSeeEmpty, TypeInv, TypeOK, Grounded, Pulsing
<1>9. CASE IrqAck
      BY <1>9 DEF IrqAck, TypeInv, TypeOK, Grounded, Pulsing
<1>10. CASE IrqTrig
  <2>1. newts' \in Setpoints
    <3>1. /\ delay \in [Channels -> Calls] /\ prevts \in [Channels -> Calls \X Nat]
          /\ ch \in Channels
          BY DEF TypeInv, TypeOK, Setpoints
    <3>2. 0 \in Calls
          BY DioAssumption DEF Calls
    <3>. QED BY <1>10, <3>1, <3>2 DEF IrqTrig, Setpoints
  <2>. QED BY <1>10, <2>1 DEF IrqTrig, TypeInv, TypeOK, Grounded, Pulsing
<1>11. CASE IrqSetpoint
      BY <1>11 DEF IrqSetpoint, TypeInv, TypeOK, Grounded, Pulsing
<1>12. CASE IrqLatch
  <2>1. /\ newts \in Setpoints /\ cycle \in [Channels -> Setpoints] /\ ch \in Channels
        /\ armed \in [Channels -> SUBSET Setpoints] /\ made \in [Calls -> Nat]
        BY DEF TypeInv, TypeOK
  <2>2. newts[1] \in Calls
        BY <2>1 DEF Setpoints
  <2>3. armed' \in [Channels -> SUBSET Setpoints] /\ made' \in [Calls -> Nat]
        BY <1>12, <2>1, <2>2 DEF IrqLatch
  <2>. QED BY <1>12, <2>3 DEF IrqLatch, TypeInv, TypeOK, Grounded, Pulsing
<1>13. CASE IrqCountRead
  <2>1. positive' \in BOOLEAN
    <3>1. positive' = (count[ch] > 0)
          BY <1>13 DEF IrqCountRead
    <3>. QED BY <3>1
  <2>. QED BY <1>13, <2>1 DEF IrqCountRead, TypeInv, TypeOK, Grounded, Pulsing
<1>14. CASE IrqCount
  <2>1. count' \in [Channels -> Int]
    <3>1. count \in [Channels -> Int]
          BY DEF TypeInv, TypeOK
    <3>2. CASE positive
      <4>1. count[ch] - 1 \in Int
            BY <3>1 DEF TypeInv, TypeOK
      <4>2. count' = [count EXCEPT ![ch] = count[ch] - 1]
            BY <1>14, <3>2, Zenon DEF IrqCount
      <4>. QED BY <3>1, <4>1, <4>2
    <3>3. CASE ~positive
          BY <1>14, <3>1, <3>3 DEF IrqCount
    <3>. QED BY <3>2, <3>3
  <2>. QED BY <1>14, <2>1 DEF IrqCount, TypeInv, TypeOK, Grounded, Pulsing
<1>15. CASE IrqWake
      BY <1>15 DEF IrqWake, TypeInv, TypeOK, Grounded, Pulsing
<1>. QED BY <1>1, <1>2, <1>3, <1>4, <1>5, <1>6, <1>7, <1>8, <1>9, <1>10, <1>11, <1>12, <1>13, <1>14, <1>15 DEF Irq

\* So does CMD_STAMP: it copies no more stamps than its buffer has room for.
LEMMA ReadTypes ==
  ASSUME TypeInv, NEW u \in Users,
         Read(u) \/ StampSignal(u) \/ \E c \in StampCalls : StampStart(u, c)
  PROVE  TypeInv'
<1> USE DEF hw, ring, loop, handler, reader, writer, history,
      At, Goto, Return
<1>1. ASSUME NEW c \in StampCalls, StampStart(u, c) PROVE TypeInv'
  <2>1. c.channels \subseteq Channels /\ 0 \in 0 .. NStamp
        BY DioAssumption
  <2>2. /\ call' \in [Users -> StampCalls \cup {NoCall}] /\ todo' \in [Users -> SUBSET Channels]
        /\ n' \in [Users -> 0 .. NStamp] /\ sig' \in [Users -> BOOLEAN]
        BY <1>1, <2>1 DEF StampStart, TypeInv, TypeOK
  <2>3. TypeOK'
        BY <1>1, <2>2 DEF StampStart, TypeInv, TypeOK
  <2>4. Grounded'
        BY <1>1 DEF StampStart, TypeInv, TypeOK, Grounded, Pulsing
  <2>. QED BY <2>3, <2>4 DEF TypeInv
<1>2. CASE StampSignal(u)
      BY <1>2 DEF StampSignal, TypeInv, TypeOK, Grounded, Pulsing
<1>3. CASE StampChannel(u)
      BY <1>3, MinOf, DioAssumption DEF StampChannel, TypeInv, TypeOK, Grounded, Pulsing
<1>4. CASE StampEmpty(u)
      BY <1>4 DEF StampEmpty, TypeInv, TypeOK, Grounded, Pulsing
<1>5. CASE StampLook(u)
  <2>1. n[u] \in 0 .. NStamp /\ NStamp \in Nat
        BY DioAssumption DEF TypeInv, TypeOK
  <2>2. n[u] # NStamp => n[u] < NStamp
        BY <2>1
  <2>. QED BY <1>5, <2>2 DEF StampLook, TypeInv, TypeOK, Grounded, Pulsing
<1>6. CASE StampCopy(u)
  <2>1. tsbuf[uch[u]][btail[uch[u]]] \in Nat /\ btail[uch[u]] \in Slots /\ uch[u] \in Channels
        BY DEF TypeInv, TypeOK
  <2>3. n[u] \in Nat /\ n[u] < NStamp /\ NStamp \in Nat
        BY <1>6, DioAssumption DEF StampCopy, TypeInv, TypeOK, Grounded
  <2>2. /\ given' \in [Channels -> Seq(Nat)] /\ seenTail' \in [Users -> Slots]
        /\ n' \in [Users -> 0 .. NStamp]
    <3>1. /\ given \in [Channels -> Seq(Nat)] /\ seenTail \in [Users -> Slots]
          /\ n \in [Users -> 0 .. NStamp]
          BY DEF TypeInv, TypeOK
    <3>2. Append(given[uch[u]], tsbuf[uch[u]][btail[uch[u]]]) \in Seq(Nat)
          BY <2>1, <3>1
    <3>. QED BY <1>6, <2>1, <2>3, <3>1, <3>2 DEF StampCopy
  <2>. QED BY <1>6, <2>2 DEF StampCopy, TypeInv, TypeOK, Grounded, Pulsing
<1>7. CASE StampBump(u)
  <2>1. btail' \in [Channels -> Slots]
    <3>1. seenTail[u] \in Slots /\ btail \in [Channels -> Slots] /\ uch[u] \in Channels
          BY DEF TypeInv, TypeOK
    <3>. QED BY <1>7, <3>1, NextSlotType DEF StampBump
  <2>. QED BY <1>7, <2>1 DEF StampBump, TypeInv, TypeOK, Grounded, Pulsing
<1>8. CASE StampNone(u)
      BY <1>8 DEF StampNone, TypeInv, TypeOK, Grounded, Pulsing
<1>9. CASE StampWait(u)
  <2>1. Max(Channels) \in Channels
        BY MaxOf, DioAssumption
  <2>2. uch' \in [Users -> Channels]
        BY <1>9, <2>1 DEF StampWait, TypeInv, TypeOK
  <2>. QED BY <1>9, <2>2 DEF StampWait, TypeInv, TypeOK, Grounded, Pulsing
<1>10. CASE StampSleep(u)
      BY <1>10 DEF StampSleep, TypeInv, TypeOK, Grounded, Pulsing
<1>11. CASE StampInterrupted(u)
      BY <1>11 DEF StampInterrupted, TypeInv, TypeOK, Grounded, Pulsing
<1>12. CASE StampAgain(u)
  <2>1. call[u].channels \subseteq Channels
    <3>1. call[u] \in StampCalls \cup {NoCall}
          BY DEF TypeInv, TypeOK
    <3>. QED BY <3>1, DioAssumption DEF NoCall
  <2>2. todo' \in [Users -> SUBSET Channels]
        BY <1>12, <2>1 DEF StampAgain, TypeInv, TypeOK
  <2>. QED BY <1>12, <2>2 DEF StampAgain, TypeInv, TypeOK, Grounded, Pulsing
<1>. QED BY <1>1, <1>2, <1>3, <1>4, <1>5, <1>6, <1>7, <1>8, <1>9, <1>10, <1>11, <1>12 DEF Read

\* The call of a user that is in CMD_PULSE.
LEMMA PulseTypes ==
  ASSUME TypeInv, NEW u \in Users, upc[u] \in Pulsing
  PROVE  /\ pulse[u] \in 1 .. Len(PulseCalls)
         /\ Pulse(u).ch \in Channels /\ Pulse(u).value \in Int /\ <<pulse[u], 0>> \in Setpoints
<1>1. pulse[u] \in 0 .. Len(PulseCalls) /\ pulse[u] # 0
      BY DEF TypeInv, TypeOK, Grounded, Calls
<1>2. pulse[u] \in 1 .. Len(PulseCalls)
      BY <1>1, DioAssumption
<1>3. PulseCalls[pulse[u]] \in [ch : Channels, kind : {"now", "at", "loop"}, value : Int]
  <2>. DEFINE PulseCall == [ch : Channels, kind : {"now", "at", "loop"}, value : Int]
  <2>1. PulseCalls \in Seq(PulseCall)
        BY DioAssumption
  <2>2. PulseCalls[pulse[u]] \in PulseCall
    <3>. HIDE DEF PulseCall
    <3>. QED BY <1>2, <2>1
  <2>. QED BY <2>2
<1>. QED BY <1>1, <1>2, <1>3 DEF Pulse, Setpoints, Calls

\* So does CMD_PULSE, ...
LEMMA WriteTypes ==
  ASSUME TypeInv, NEW u \in Users, PulseStart(u) \/ Write(u)
  PROVE  TypeInv'
<1> USE DEF hw, ring, loop, handler, reader, writer, history,
      At, Goto, Return
<1>1. CASE PulseStart(u)
  <2>1. Len(PulseCalls) \in Nat
        BY DioAssumption
  <2>2. issued' \in Calls /\ pulse' \in [Users -> Calls] /\ pulse'[u] # 0
    <3>1. issued \in 0 .. Len(PulseCalls) /\ pulse \in [Users -> Calls]
          BY DEF TypeInv, TypeOK, Calls
    <3>2. issued' \in Calls /\ issued' # 0
          BY <1>1, <2>1, <3>1 DEF PulseStart, Calls
    <3>. QED BY <1>1, <3>1, <3>2 DEF PulseStart
  <2>. QED BY <1>1, <2>2 DEF PulseStart, TypeInv, TypeOK, Grounded, Pulsing
<1>2. ASSUME NEW w \in pend[u], PulseLoop(u, w) PROVE TypeInv'
  <2>1. Pulse(u).ch \in Channels /\ Pulse(u).value \in Int /\ <<pulse[u], 0>> \in Setpoints
        BY <1>2, PulseTypes DEF PulseLoop, Pulsing
  <2>2. LoopCount(Pulse(u).value) \in Int
        BY <2>1 DEF LoopCount
  <2>3. /\ count' \in [Channels -> Int] /\ prevts' \in [Channels -> Setpoints]
        /\ delay' \in [Channels -> Calls]
        BY <1>2, <2>1, <2>2 DEF PulseLoop, TypeInv, TypeOK
  <2>4. pend' \in [Users -> SUBSET {"count", "prevts", "delay"}]
        BY <1>2 DEF PulseLoop, TypeInv, TypeOK
  <2>. QED BY <1>2, <2>3, <2>4 DEF PulseLoop, TypeInv, TypeOK, Grounded, Pulsing
<1>3. CASE PulseNow(u)
  <2>1. Pulse(u).ch \in Channels /\ <<pulse[u], 0>> \in Setpoints
        BY <1>3, PulseTypes DEF PulseNow, Pulsing
  <2>2. armed' \in [Channels -> SUBSET Setpoints] /\ made' \in [Calls -> Nat]
    <3>1. /\ armed \in [Channels -> SUBSET Setpoints] /\ made \in [Calls -> Nat]
          /\ cycle \in [Channels -> Setpoints] /\ pulse[u] \in Calls
          BY DEF TypeInv, TypeOK
    <3>. QED BY <1>3, <2>1, <3>1 DEF PulseNow
  <2>. QED BY <1>3, <2>2 DEF PulseNow, TypeInv, TypeOK, Grounded, Pulsing
<1>4. CASE PulseWidth(u)
      BY <1>4 DEF PulseWidth, TypeInv, TypeOK, Grounded, Pulsing
<1>5. CASE PulseProgram(u)
  <2>1. Pulse(u).ch \in Channels /\ <<pulse[u], 0>> \in Setpoints
        BY <1>5, PulseTypes DEF PulseProgram, Pulsing
  <2>2. cycle' \in [Channels -> Setpoints]
        BY <1>5, <2>1 DEF PulseProgram, TypeInv, TypeOK
  <2>. QED BY <1>5, <2>2 DEF PulseProgram, TypeInv, TypeOK, Grounded, Pulsing
<1>6. CASE PulseLatch(u)
  <2>1. Pulse(u).ch \in Channels /\ <<pulse[u], 0>> \in Setpoints
        BY <1>6, PulseTypes DEF PulseLatch, Pulsing
  <2>2. armed' \in [Channels -> SUBSET Setpoints] /\ made' \in [Calls -> Nat]
    <3>1. /\ armed \in [Channels -> SUBSET Setpoints] /\ made \in [Calls -> Nat]
          /\ cycle \in [Channels -> Setpoints] /\ pulse[u] \in Calls
          BY DEF TypeInv, TypeOK
    <3>. QED BY <1>6, <2>1, <3>1 DEF PulseLatch
  <2>. QED BY <1>6, <2>2 DEF PulseLatch, TypeInv, TypeOK, Grounded, Pulsing
<1>. QED BY <1>1, <1>2, <1>3, <1>4, <1>5, <1>6 DEF Write

\* ... and so does the hardware.
LEMMA HwTypes == TypeInv /\ Hw => TypeInv'
<1> SUFFICES ASSUME TypeInv, NEW c \in Channels, HwEdge(c) \/ HwPulse(c) PROVE TypeInv'
    BY DEF Hw
<1> USE DEF HwEdge, HwPulse, Stamp, HwUnchanged, ring, loop, handler,
      reader, writer, history
<1>1. fifo' \in [Channels -> Seq(Nat)] /\ (fifo[ch] # <<>> => fifo'[ch] # <<>>)
  <2>1. fifo \in [Channels -> Seq(Nat)] /\ ch \in Channels /\ taken \in [Channels -> Nat]
        BY DEF TypeInv, TypeOK
  <2>2. fifo' = [fifo EXCEPT ![c] = Append(@, taken[c] + 1)]
        OBVIOUS
  <2>3. Append(fifo[c], taken[c] + 1) \in Seq(Nat) /\ Append(fifo[c], taken[c] + 1) # <<>>
    <3>1. fifo[c] \in Seq(Nat) /\ taken[c] + 1 \in Nat
          BY <2>1
    <3>. QED BY <3>1
  <2>. QED BY <2>1, <2>2, <2>3
<1>2. taken' \in [Channels -> Nat] /\ armed' \in [Channels -> SUBSET Setpoints]
  <2>1. taken \in [Channels -> Nat] /\ armed \in [Channels -> SUBSET Setpoints]
        BY DEF TypeInv, TypeOK
  <2>. QED BY <2>1
<1>. QED BY <1>1, <1>2 DEF TypeInv, TypeOK, Grounded, Pulsing

\* Every step keeps the types.
LEMMA TypeStep == TypeInv /\ [Next]_vars => TypeInv'
<1> SUFFICES ASSUME TypeInv, [Next]_vars PROVE TypeInv'
    OBVIOUS
<1>1. CASE UNCHANGED vars
      BY <1>1 DEF vars, hw, ring, loop, handler, reader, writer, history, TypeInv, TypeOK,
                  Grounded, Pulsing
<1>2. CASE Hw
      BY <1>2, HwTypes
<1>3. CASE Irq
      BY <1>3, IrqTypes
<1>4. ASSUME NEW u \in Users, User(u) PROVE TypeInv'
      BY <1>4, ReadTypes, WriteTypes DEF User
<1>. QED BY <1>1, <1>2, <1>3, <1>4 DEF Next

\* Every variable keeps its type, whatever the handler and the ioctls do.
THEOREM TypeCorrect == Spec => []TypeOK
<1>1. TypeInv => TypeOK
      BY DEF TypeInv
<1>. QED BY <1>1, TypeInvInit, TypeStep, PTL DEF Spec

-----------------------------------------------------------------------------
(* The stamps are read in order.                                           *)

\* How many stamps the handler has published after the one in slot s, if b is
\* the slot it publishes next.
Ago(b, s) == IF s < b THEN b - 1 - s ELSE b - 1 - s + RingLen

\* The handler has published a slot it has not filled.
Publishing(c) == irq \in {"bump", "fill"} /\ ch = c

\* How many stamps of a channel were published, which is done before they are
\* popped from the FIFO.
Published(c) == taken[c] - Len(fifo[c]) + (IF Publishing(c) THEN 1 ELSE 0)

\* The stamp slot s of the ring holds, if it is positive.
InSlot(c, s) == Published(c) - Ago(bhead[c], s)

\* The ring is empty; when the handler has just published, equal ends mean full.
Empty(c) == bhead[c] = btail[c] /\ ~(irq = "bump" /\ ch = c)

\* How many stamps of a channel were read or lost.
Passed(c) == IF Empty(c) THEN Published(c) ELSE InSlot(c, btail[c]) - 1

\* The FIFO has the stamps in the order they were taken.
FifoInOrder ==
  \A c \in Channels :
    /\ Len(fifo[c]) =< taken[c]
    /\ \A i \in 1 .. Len(fifo[c]) : fifo[c][i] = taken[c] - Len(fifo[c]) + i

\* The handler fills the slot it published, and every other slot has its stamp.
SlotsFilled ==
  /\ irq \in {"bump", "fill"} => bhead[ch] = NextSlot(h)
  /\ \A c \in Channels, s \in Slots :
       InSlot(c, s) > 0 /\ ~(Publishing(c) /\ s = h) => tsbuf[c][s] = InSlot(c, s)

\* The steps of a call that run under rtnl, which one user holds.
Locked == {"scan", "look", "copy", "bump", "width", "loop", "latch"}
Exclusive == \A u \in Users : upc[u] \in Locked => rtnl = u

\* A reader on its way from a stamp to the next has the ring non-empty.
ReaderHasStamp ==
  \A u \in Users : upc[u] \in {"copy", "bump"} => ~Empty(uch[u]) /\ RingLen > 1

\* A reader has copied the stamp at the tail and not moved the tail yet.
Bumping(c) == \E u \in Users : upc[u] = "bump" /\ uch[u] = c
Copied(c) == IF Bumping(c) THEN 1 ELSE 0

\* What was given is behind the ring, ...
GivenPassed ==
  \A c \in Channels :
    /\ Passed(c) >= 0
    /\ \A i \in DOMAIN given[c] : given[c][i] =< Passed(c) + Copied(c)
    /\ ~dropped[c] => Len(given[c]) = Passed(c) + Copied(c)

\* ... also where a reader that copied a stamp is about to move the tail to.
TailSeen ==
  \A u \in Users : upc[u] = "bump" =>
    /\ \A i \in DOMAIN given[uch[u]] : given[uch[u]][i] =< InSlot(uch[u], seenTail[u])
    /\ InSlot(uch[u], seenTail[u]) >= 0
    /\ ~dropped[uch[u]] => seenTail[u] = btail[uch[u]]

OrderInv == FifoInOrder /\ SlotsFilled /\ Exclusive /\ ReaderHasStamp
            /\ GivenPassed /\ TailSeen /\ ReadInOrder

\* The slot after the last is the first.
LEMMA NextSlotIs == \A s \in Slots : NextSlot(s) = IF s + 1 = RingLen THEN 0 ELSE s + 1
<1> SUFFICES ASSUME NEW s \in Slots PROVE NextSlot(s) = IF s + 1 = RingLen THEN 0 ELSE s + 1
    OBVIOUS
<1>1. RingLen \in Nat \ {0} /\ s \in 0 .. RingLen - 1
      BY DioAssumption DEF Slots
<1>2. CASE s + 1 = RingLen
      BY <1>1, <1>2 DEF NextSlot
<1>3. CASE s + 1 # RingLen
      BY <1>1, <1>3 DEF NextSlot
<1>. QED BY <1>2, <1>3

\* The ages of the slots when the next one is published, and of a slot's
\* successor.
LEMMA AgoFacts ==
  ASSUME NEW b \in Slots, NEW s \in Slots
  PROVE  /\ Ago(b, s) \in 0 .. RingLen - 1
         /\ s = b => Ago(b, s) = RingLen - 1
         /\ Ago(NextSlot(b), s) = IF s = b THEN 0 ELSE Ago(b, s) + 1
         /\ NextSlot(s) = b <=> Ago(b, s) = 0
         /\ NextSlot(s) # b => Ago(b, NextSlot(s)) = Ago(b, s) - 1
<1>1. RingLen \in Nat \ {0} /\ s \in 0 .. RingLen - 1 /\ b \in 0 .. RingLen - 1
      BY DioAssumption DEF Slots
<1>. QED BY <1>1, NextSlotIs DEF Ago, Slots

\* rtnl keeps the ioctls apart: a step of a call that needs it is its holder's.
LEMMA ExclusiveStep == TypeInv /\ Exclusive /\ [Next]_vars => Exclusive'
<1> SUFFICES ASSUME TypeInv, Exclusive, [Next]_vars PROVE Exclusive'
    OBVIOUS
<1> USE DEF hw, ring, loop, handler, reader, writer, history, Exclusive, Locked
<1>1. upc \in [Users -> {"out", "scan", "look", "copy", "bump", "wait", "sleep", "awake",
                         "width", "loop", "latch"}] /\ Nobody \notin Users
      BY DioAssumption DEF TypeInv, TypeOK
<1>2. CASE Hw \/ UNCHANGED vars
      BY <1>2 DEF Hw, HwEdge, HwPulse, Stamp, HwUnchanged, vars
<1>3. CASE Irq
      BY <1>1, <1>3 DEF Irq, IrqEnter, IrqLock, IrqNext, IrqReturn, IrqPublish, IrqBump, IrqFill,
         IrqSeeEmpty, IrqAck, IrqTrig, IrqSetpoint, IrqLatch, IrqCountRead, IrqCount, IrqWake
<1>4. ASSUME NEW u \in Users, User(u) PROVE Exclusive'
  <2> USE DEF At, Goto, Return
  <2>1. ASSUME NEW c \in StampCalls, StampStart(u, c) PROVE Exclusive'
        BY <1>1, <2>1 DEF StampStart
  <2>2. CASE PulseStart(u) \/ StampSignal(u)
        BY <1>1, <2>2 DEF PulseStart, StampSignal
  <2>3. CASE Read(u)
        BY <1>1, <2>3 DEF Read, StampChannel, StampEmpty, StampLook, StampCopy, StampBump,
           StampNone, StampWait, StampSleep, StampInterrupted, StampAgain
  <2>4. CASE Write(u)
        BY <1>1, <2>4 DEF Write, PulseNow, PulseWidth, PulseLoop, PulseProgram, PulseLatch
  <2>. QED BY <1>4, <2>1, <2>2, <2>3, <2>4 DEF User
<1>. QED BY <1>2, <1>3, <1>4 DEF Next

\* What readers were given are numbers of stamps.
LEMMA GivenType == TypeInv => \A c \in Channels : \A i \in DOMAIN given[c] : given[c][i] \in Nat
<1> SUFFICES ASSUME TypeInv, NEW c \in Channels, NEW i \in DOMAIN given[c] PROVE given[c][i] \in Nat
    OBVIOUS
<1>1. given[c] \in Seq(Nat)
      BY DEF TypeInv, TypeOK
<1>. QED BY <1>1

\* Nothing was taken, stored or given at the start.
LEMMA OrderInit == Init => OrderInv
BY DioAssumption DEF Init, OrderInv, FifoInOrder, SlotsFilled, Exclusive, Locked, ReaderHasStamp,
   GivenPassed, TailSeen, ReadInOrder, Bumping, Copied, Passed, Empty, Published, Publishing, InSlot, Ago, Slots

\* A step that leaves the FIFOs, the rings and what was given alone, between two
\* stamps of the handler, and takes no reader between copying and moving the tail.
LEMMA FrameStep ==
  ASSUME TypeInv, OrderInv, Exclusive',
         UNCHANGED <<taken, fifo, tsbuf, bhead, btail, given, dropped>>,
         irq \notin {"bump", "fill"}, irq' \notin {"bump", "fill"},
         \A u \in Users : upc'[u] = "bump" <=> upc[u] = "bump",
         \A u \in Users : upc[u] = "bump" => uch'[u] = uch[u] /\ seenTail'[u] = seenTail[u],
         \A u \in Users : upc'[u] = "copy" => bhead[uch'[u]] # btail[uch'[u]] /\ RingLen > 1
  PROVE  OrderInv'
<1> USE DEF OrderInv
<1>1. ASSUME NEW c PROVE /\ Published(c)' = Published(c) /\ ~Publishing(c) /\ ~Publishing(c)'
                         /\ Empty(c)' = Empty(c) /\ Empty(c) = (bhead[c] = btail[c])
                         /\ Passed(c)' = Passed(c)
      BY DEF Published, Publishing, Empty, Passed, InSlot
<1>2. ASSUME NEW c, NEW t PROVE InSlot(c, t)' = InSlot(c, t)
      BY <1>1 DEF InSlot
<1>3. ASSUME NEW c PROVE Copied(c)' = Copied(c)
      BY DEF Copied, Bumping
<1>4. FifoInOrder'
      BY DEF FifoInOrder
<1>5. SlotsFilled'
      BY <1>1, <1>2 DEF SlotsFilled
<1>6. ReaderHasStamp'
      BY <1>1 DEF ReaderHasStamp
<1>7. GivenPassed'
      BY <1>1, <1>3 DEF GivenPassed
<1>8. TailSeen'
      BY <1>2 DEF TailSeen
<1>9. ReadInOrder'
      BY DEF ReadInOrder
<1>. QED BY <1>4, <1>5, <1>6, <1>7, <1>8, <1>9

\* The handler publishes a slot: the ring holds one stamp more, and its age is
\* the oldest there can be if it was the ring's last free slot.
LEMMA PublishStep ==
  ASSUME TypeInv, OrderInv, Exclusive', IrqPublish
  PROVE  OrderInv'
<1> USE DEF OrderInv, IrqPublish, hw, loop, handler, reader, writer, history
<1>1. /\ bhead \in [Channels -> Slots] /\ btail \in [Channels -> Slots] /\ ch \in Channels
      /\ taken \in [Channels -> Nat] /\ fifo \in [Channels -> Seq(Nat)]
      /\ bhead' \in [Channels -> Slots]
      BY NextSlotType DEF TypeInv, TypeOK
<1>2. ASSUME NEW c \in Channels, c # ch, NEW t PROVE
        /\ Published(c)' = Published(c) /\ ~Publishing(c) /\ ~Publishing(c)'
        /\ Empty(c)' = Empty(c) /\ InSlot(c, t)' = InSlot(c, t) /\ Passed(c)' = Passed(c)
      BY <1>1, <1>2 DEF Published, Publishing, Empty, Passed, InSlot
<1>3. /\ Published(ch)' = Published(ch) + 1 /\ Published(ch) \in Int
      /\ ~Publishing(ch) /\ ~Empty(ch)'
      BY <1>1 DEF Published, Publishing, Empty
<1>4. ASSUME NEW t \in Slots PROVE
        /\ InSlot(ch, t)' = IF t = bhead[ch] THEN Published(ch) + 1 ELSE InSlot(ch, t)
        /\ InSlot(ch, t) \in Int /\ InSlot(ch, t) =< Published(ch)
  <2>1. bhead'[ch] = NextSlot(bhead[ch]) /\ bhead[ch] \in Slots
        BY <1>1
  <2>2. InSlot(ch, t)' = (Published(ch) + 1) - Ago(NextSlot(bhead[ch]), t)
    <3>1. InSlot(ch, t)' = Published(ch)' - Ago(bhead'[ch], t)
          BY DEF InSlot, Ago
    <3>. QED BY <1>3, <2>1, <3>1
  <2>3. InSlot(ch, t) = Published(ch) - Ago(bhead[ch], t)
        BY DEF InSlot
  <2>4. /\ Ago(bhead[ch], t) \in Nat
        /\ Ago(NextSlot(bhead[ch]), t) = IF t = bhead[ch] THEN 0 ELSE Ago(bhead[ch], t) + 1
        BY <2>1, AgoFacts, DioAssumption
  <2>. QED BY <1>3, <2>2, <2>3, <2>4
<1>5. Passed(ch)' = Passed(ch)
  <2>1. Passed(ch)' = InSlot(ch, btail[ch])' - 1
        BY <1>3 DEF Passed
  <2>2. Empty(ch) <=> bhead[ch] = btail[ch]
        BY DEF Empty
  <2>3. btail[ch] \in Slots
        BY <1>1
  <2>. QED BY <1>3, <1>4, <2>1, <2>2, <2>3 DEF Passed
<1>6. ASSUME NEW c PROVE Copied(c)' = Copied(c)
      BY DEF Copied, Bumping
<1>7. FifoInOrder'
      BY DEF FifoInOrder
<1>8. SlotsFilled'
  <2>1. bhead'[ch'] = NextSlot(h')
        BY <1>1
  <2>2. ASSUME NEW c \in Channels, NEW t \in Slots, InSlot(c, t)' > 0, ~(Publishing(c)' /\ t = h')
        PROVE  tsbuf'[c][t] = InSlot(c, t)'
    <3>1. CASE c # ch
          BY <1>2, <2>2, <3>1 DEF SlotsFilled
    <3>2. CASE c = ch
      <4>1. t # bhead[ch]
            BY <2>2, <3>2 DEF Publishing
      <4>. QED BY <1>3, <1>4, <2>2, <3>2, <4>1 DEF SlotsFilled
    <3>. QED BY <3>1, <3>2
  <2>. QED BY <2>1, <2>2 DEF SlotsFilled
<1>9. ReaderHasStamp'
      BY <1>2, <1>3 DEF ReaderHasStamp, TypeInv, TypeOK
<1>10. GivenPassed'
  <2>1. \A c \in Channels : Passed(c)' = Passed(c)
        BY <1>2, <1>5
  <2>. QED BY <2>1, <1>6 DEF GivenPassed
<1>11. TailSeen'
  <2> SUFFICES ASSUME NEW u \in Users, upc[u] = "bump" PROVE
         /\ \A i \in DOMAIN given[uch[u]] : given[uch[u]][i] =< InSlot(uch[u], seenTail[u])'
         /\ InSlot(uch[u], seenTail[u])' >= 0
         /\ ~dropped[uch[u]] => seenTail[u] = btail[uch[u]]
      BY DEF TailSeen
  <2>1. uch[u] \in Channels /\ seenTail[u] \in Slots
        BY DEF TypeInv, TypeOK
  <2>2. CASE uch[u] # ch
        BY <1>2, <2>1, <2>2 DEF TailSeen
  <2>3. CASE uch[u] = ch
    <3>1. /\ InSlot(ch, seenTail[u])' \in Int /\ InSlot(ch, seenTail[u]) \in Int
          /\ InSlot(ch, seenTail[u])' >= InSlot(ch, seenTail[u])
          BY <1>3, <1>4, <2>1
    <3>2. \A i \in DOMAIN given[ch] : given[ch][i] \in Nat
          BY <1>1, GivenType
    <3>3. /\ \A i \in DOMAIN given[ch] : given[ch][i] =< InSlot(ch, seenTail[u])
          /\ InSlot(ch, seenTail[u]) >= 0
          /\ ~dropped[ch] => seenTail[u] = btail[ch]
          BY <2>3 DEF TailSeen
    <3>4. \A i \in DOMAIN given[ch] : given[ch][i] =< InSlot(ch, seenTail[u])'
          BY <3>1, <3>2, <3>3
    <3>5. InSlot(ch, seenTail[u])' >= 0
          BY <3>1, <3>3
    <3>. QED BY <2>3, <3>3, <3>4, <3>5
  <2>. QED BY <2>2, <2>3
<1>12. ReadInOrder'
      BY DEF ReadInOrder
<1>. QED BY <1>7, <1>8, <1>9, <1>10, <1>11, <1>12

\* The handler drops the oldest stamp if the ring was full.
LEMMA BumpStep ==
  ASSUME TypeInv, OrderInv, Exclusive', IrqBump
  PROVE  OrderInv'
<1> USE DEF OrderInv, IrqBump, hw, loop, handler, reader, writer, history
<1>1. /\ bhead \in [Channels -> Slots] /\ btail \in [Channels -> Slots] /\ ch \in Channels
      /\ taken \in [Channels -> Nat] /\ fifo \in [Channels -> Seq(Nat)]
      /\ dropped \in [Channels -> BOOLEAN]
      /\ RingLen \in Nat \ {0}
      BY DioAssumption DEF TypeInv, TypeOK
<1>2. ASSUME NEW c \in Channels, NEW t PROVE
        /\ Published(c)' = Published(c) /\ Publishing(c)' = Publishing(c)
        /\ InSlot(c, t)' = InSlot(c, t) /\ Copied(c)' = Copied(c)
      BY <1>1 DEF Published, Publishing, Empty, Passed, InSlot, Copied, Bumping
<1>3. ASSUME NEW c \in Channels, c # ch \/ bhead[ch] # btail[ch] PROVE
        Empty(c)' = Empty(c) /\ Passed(c)' = Passed(c) /\ btail'[c] = btail[c] /\ dropped'[c] = dropped[c]
      BY <1>1, <1>2, <1>3 DEF Empty, Passed
<1>4. ASSUME bhead[ch] = btail[ch] PROVE
        /\ RingLen > 1 => ~Empty(ch)'
        /\ Passed(ch)' = Passed(ch) + 1 /\ dropped'[ch] /\ Passed(ch) \in Int
  <2>1. Passed(ch) = InSlot(ch, btail[ch]) - 1
        BY <1>4 DEF Passed, Empty
  <2>2. /\ btail'[ch] = NextSlot(btail[ch])
        /\ Empty(ch)' <=> bhead[ch] = NextSlot(btail[ch])
        BY <1>1, <1>4 DEF Empty
  <2>8. dropped'[ch]
    <3>1. dropped'[ch] = (dropped[ch] \/ bhead[ch] = btail[ch])
          BY <1>1
    <3>. QED BY <1>4, <3>1
  <2>3. Ago(bhead[ch], btail[ch]) = RingLen - 1
        BY <1>1, <1>4, AgoFacts
  <2>4. Published(ch) \in Int
        BY <1>1 DEF Published
  <2>5. InSlot(ch, btail[ch]) = Published(ch) - (RingLen - 1)
        BY <2>3 DEF InSlot
  <2>6. CASE bhead[ch] = NextSlot(btail[ch])
    <3>1. RingLen = 1
          BY <1>1, <2>3, <2>6, AgoFacts
    <3>2. Passed(ch)' = Published(ch)
          BY <1>2, <2>2, <2>6, <1>1 DEF Passed
    <3>. QED BY <2>1, <2>4, <2>5, <2>8, <3>1, <3>2
  <2>7. CASE bhead[ch] # NextSlot(btail[ch])
    <3>1. Ago(bhead[ch], NextSlot(btail[ch])) = RingLen - 1 - 1
          BY <1>1, <2>3, <2>7, AgoFacts
    <3>2. InSlot(ch, NextSlot(btail[ch])) = Published(ch) - (RingLen - 1 - 1)
          BY <3>1 DEF InSlot
    <3>3. Passed(ch)' = InSlot(ch, NextSlot(btail[ch])) - 1
      <4>1. Passed(ch)' = Published(ch)' - Ago(bhead'[ch], btail'[ch]) - 1
            BY <2>2, <2>7 DEF Passed, InSlot
      <4>2. Published(ch)' = Published(ch) /\ bhead'[ch] = bhead[ch]
            BY <1>2, <1>1
      <4>. QED BY <2>2, <4>1, <4>2 DEF InSlot
    <3>. QED BY <1>1, <2>1, <2>2, <2>4, <2>5, <2>7, <2>8, <3>2, <3>3
  <2>. QED BY <2>6, <2>7
<1>5. FifoInOrder'
      BY DEF FifoInOrder
<1>6. SlotsFilled'
      BY <1>2 DEF SlotsFilled
<1>7. ReaderHasStamp'
  <2>1. \A u \in Users : uch[u] \in Channels
        BY DEF TypeInv, TypeOK
  <2>2. \A c \in Channels : ~Empty(c) /\ RingLen > 1 => ~Empty(c)'
        BY <1>3, <1>4
  <2>. QED BY <2>1, <2>2 DEF ReaderHasStamp
<1>8. GivenPassed'
  <2> SUFFICES ASSUME NEW c \in Channels
               PROVE  /\ Passed(c)' >= 0
                      /\ \A i \in DOMAIN given[c] : given[c][i] =< Passed(c)' + Copied(c)
                      /\ ~dropped'[c] => Len(given[c]) = Passed(c)' + Copied(c)
      BY <1>2 DEF GivenPassed
  <2>1. CASE c # ch \/ bhead[ch] # btail[ch]
        BY <2>1, <1>3 DEF GivenPassed
  <2>2. CASE c = ch /\ bhead[ch] = btail[ch]
    <3>1. Passed(c)' = Passed(c) + 1 /\ Passed(c) \in Int /\ dropped'[c]
          BY <2>2, <1>4
    <3>2. Copied(c) \in Int /\ \A i \in DOMAIN given[c] : given[c][i] \in Nat
          BY GivenType DEF Copied
    <3>3. \A i \in DOMAIN given[c] : given[c][i] =< Passed(c) + Copied(c)
          BY DEF GivenPassed
    <3>4. Passed(c) >= 0
          BY DEF GivenPassed
    <3>. QED BY <3>1, <3>2, <3>3, <3>4
  <2>. QED BY <2>1, <2>2
<1>9. TailSeen'
  <2>1. ASSUME NEW u \in Users PROVE uch[u] \in Channels
        BY DEF TypeInv, TypeOK
  <2>2. \A c \in Channels : ~dropped'[c] => ~dropped[c] /\ btail'[c] = btail[c]
        BY <1>3, <1>4
  <2>. QED BY <1>2, <2>1, <2>2 DEF TailSeen
<1>10. ReadInOrder'
  <2>1. \A c \in Channels : ~dropped'[c] => ~dropped[c]
        BY <1>3, <1>4
  <2>. QED BY <2>1 DEF ReadInOrder
<1>. QED BY <1>5, <1>6, <1>7, <1>8, <1>9, <1>10

\* The handler fills the slot it published with the stamp it pops.
LEMMA FillStep ==
  ASSUME TypeInv, OrderInv, Exclusive', IrqFill
  PROVE  OrderInv'
<1> USE DEF OrderInv, IrqFill, hw, loop, handler, reader, writer, history
<1>1. /\ bhead \in [Channels -> Slots] /\ btail \in [Channels -> Slots] /\ ch \in Channels
      /\ taken \in [Channels -> Nat] /\ fifo \in [Channels -> Seq(Nat)] /\ h \in Slots
      /\ tsbuf \in [Channels -> [Slots -> Nat]] /\ fifo[ch] # <<>>
      BY DEF TypeInv, TypeOK, Grounded
<1>2. /\ Len(fifo'[ch]) = Len(fifo[ch]) - 1 /\ Len(fifo[ch]) \in Nat \ {0}
      /\ \A i \in 1 .. Len(fifo'[ch]) : fifo'[ch][i] = fifo[ch][i + 1]
      BY <1>1
<1>3. \A c \in Channels : c # ch => fifo'[c] = fifo[c]
      BY <1>1
<1>4. ASSUME NEW c \in Channels, NEW t PROVE
        /\ Published(c)' = Published(c) /\ ~Publishing(c)' /\ Empty(c)' = Empty(c)
        /\ InSlot(c, t)' = InSlot(c, t) /\ Passed(c)' = Passed(c) /\ Copied(c)' = Copied(c)
  <2>1. Published(c)' = Published(c) /\ ~Publishing(c)'
    <3>1. CASE c # ch
          BY <1>3, <3>1 DEF Published, Publishing
    <3>2. CASE c = ch
      <4>1. Published(c) = taken[ch] - Len(fifo[ch]) + 1
            BY <3>2 DEF Published, Publishing
      <4>2. Published(c)' = taken[ch] - Len(fifo'[ch]) + 0
            BY <3>2 DEF Published, Publishing
      <4>3. taken[ch] \in Nat
            BY <1>1
      <4>. QED BY <1>2, <4>1, <4>2, <4>3 DEF Publishing
    <3>. QED BY <3>1, <3>2
  <2>2. Empty(c)' = Empty(c) /\ Copied(c)' = Copied(c)
        BY DEF Empty, Copied, Bumping
  <2>. QED BY <2>1, <2>2 DEF InSlot, Passed
<1>5. FifoInOrder'
  <2> SUFFICES ASSUME NEW c \in Channels
               PROVE  /\ Len(fifo'[c]) =< taken[c]
                      /\ \A i \in 1 .. Len(fifo'[c]) : fifo'[c][i] = taken[c] - Len(fifo'[c]) + i
      BY DEF FifoInOrder
  <2>1. CASE c # ch
        BY <1>3, <2>1 DEF FifoInOrder
  <2>2. CASE c = ch
    <3>1. Len(fifo[ch]) =< taken[ch] /\ taken[ch] \in Nat
          BY <1>1 DEF FifoInOrder
    <3>2. ASSUME NEW i \in 1 .. Len(fifo'[ch]) PROVE fifo'[ch][i] = taken[ch] - Len(fifo'[ch]) + i
      <4>1. i + 1 \in 1 .. Len(fifo[ch])
            BY <1>2
      <4>2. fifo[ch][i + 1] = taken[ch] - Len(fifo[ch]) + (i + 1)
            BY <1>1, <4>1 DEF FifoInOrder
      <4>. QED BY <1>2, <3>1, <4>2
    <3>. QED BY <1>2, <2>2, <3>1, <3>2
  <2>. QED BY <2>1, <2>2
<1>6. SlotsFilled'
  <2>1. tsbuf'[ch][h] = InSlot(ch, h)
    <3>1. tsbuf'[ch][h] = fifo[ch][1]
          BY <1>1
    <3>2. fifo[ch][1] = taken[ch] - Len(fifo[ch]) + 1
          BY <1>1, <1>2 DEF FifoInOrder
    <3>3. Published(ch) = taken[ch] - Len(fifo[ch]) + 1
          BY DEF Published, Publishing
    <3>4. Ago(bhead[ch], h) = 0
          BY <1>1, AgoFacts DEF SlotsFilled
    <3>5. InSlot(ch, h) = Published(ch) - 0 /\ Published(ch) \in Int
          BY <1>1, <3>3, <3>4 DEF InSlot
    <3>. QED BY <3>1, <3>2, <3>3, <3>5
  <2>2. ASSUME NEW c \in Channels, NEW t \in Slots, InSlot(c, t)' > 0
        PROVE  tsbuf'[c][t] = InSlot(c, t)'
    <3>1. CASE c = ch /\ t = h
          BY <1>4, <2>1, <3>1
    <3>2. CASE ~(c = ch /\ t = h)
      <4>1. tsbuf'[c][t] = tsbuf[c][t]
            BY <1>1, <3>2
      <4>. QED BY <1>4, <2>2, <3>2, <4>1 DEF SlotsFilled, Publishing
    <3>. QED BY <3>1, <3>2
  <2>. QED BY <2>2 DEF SlotsFilled
<1>7. ReaderHasStamp'
      BY <1>4 DEF ReaderHasStamp, TypeInv, TypeOK
<1>8. GivenPassed'
      BY <1>4 DEF GivenPassed
<1>9. TailSeen'
      BY <1>4 DEF TailSeen, TypeInv, TypeOK
<1>10. ReadInOrder'
      BY DEF ReadInOrder
<1>. QED BY <1>5, <1>6, <1>7, <1>8, <1>9, <1>10

\* A reader copies the oldest stamp of the ring.
LEMMA CopyStep ==
  ASSUME TypeInv, OrderInv, Exclusive', irq = "idle", NEW u \in Users, StampCopy(u)
  PROVE  OrderInv'
<1> USE DEF OrderInv, StampCopy, At, Goto, hw, ring, loop, handler, reader, writer, history
<1>0. PICK d \in Channels : d = uch[u]
      BY DEF TypeInv, TypeOK
<1>1. /\ d \in Channels /\ uch[u] = d /\ upc[u] = "copy" /\ upc'[u] = "bump" /\ uch' = uch
      /\ bhead[d] \in Slots /\ btail[d] \in Slots
      /\ taken[d] \in Nat /\ fifo[d] \in Seq(Nat) /\ given[d] \in Seq(Nat)
      /\ tsbuf[d][btail[d]] \in Nat /\ seenTail'[u] = btail[d]
      BY <1>0 DEF TypeInv, TypeOK
<1>2. ASSUME NEW c \in Channels, NEW t PROVE
        /\ ~Publishing(c) /\ ~Publishing(c)' /\ Published(c)' = Published(c)
        /\ Empty(c)' = Empty(c) /\ InSlot(c, t)' = InSlot(c, t) /\ Passed(c)' = Passed(c)
      BY DEF Published, Publishing, Empty, InSlot, Passed
<1>3. \A w \in Users : w # u => upc[w] # "bump" /\ upc'[w] # "bump"
      BY <1>1 DEF Exclusive, Locked, TypeInv, TypeOK
<1>4. Copied(d) = 0 /\ Copied(d)' = 1
      BY <1>1, <1>3 DEF Copied, Bumping
<1>5. ASSUME NEW c \in Channels, c # d PROVE Copied(c) = 0 /\ Copied(c)' = 0
      BY <1>1, <1>3, <1>5 DEF Copied, Bumping
<1>6. ~Empty(d) /\ bhead[d] # btail[d]
      BY <1>1 DEF ReaderHasStamp, Empty
<1>7. Passed(d) = InSlot(d, btail[d]) - 1 /\ InSlot(d, btail[d]) \in Int
  <2>1. Ago(bhead[d], btail[d]) \in Int /\ Published(d) \in Int
        BY <1>1, AgoFacts DEF Published
  <2>. QED BY <1>6, <2>1 DEF Passed, InSlot
<1>8. tsbuf[d][btail[d]] = Passed(d) + 1 /\ Passed(d) \in Nat
  <2>1. Passed(d) >= 0
        BY <1>1 DEF GivenPassed
  <2>. QED BY <1>1, <1>2, <1>7, <2>1 DEF SlotsFilled
<1>9. /\ \A c \in Channels : c # d => given'[c] = given[c]
      /\ given'[d] = Append(given[d], Passed(d) + 1) /\ dropped' = dropped
      BY <1>1, <1>8 DEF TypeInv, TypeOK
<1>10. /\ DOMAIN given'[d] = 1 .. Len(given[d]) + 1 /\ DOMAIN given[d] = 1 .. Len(given[d])
       /\ Len(given'[d]) = Len(given[d]) + 1 /\ Len(given[d]) \in Nat
       /\ given'[d][Len(given[d]) + 1] = Passed(d) + 1
       /\ \A i \in 1 .. Len(given[d]) : given'[d][i] = given[d][i] /\ given[d][i] \in Nat
      BY <1>1, <1>8, <1>9
<1>11. /\ \A i \in 1 .. Len(given[d]) : given[d][i] =< Passed(d)
       /\ ~dropped[d] => Len(given[d]) = Passed(d)
      BY <1>1, <1>4, <1>8, <1>10 DEF GivenPassed
<1>12. FifoInOrder' /\ SlotsFilled'
      BY <1>2 DEF FifoInOrder, SlotsFilled
<1>13. ReaderHasStamp'
  <2>1. \A w \in Users : upc'[w] \in {"copy", "bump"} => upc[w] \in {"copy", "bump"} /\ uch[w] \in Channels
        BY <1>1 DEF TypeInv, TypeOK
  <2>. QED BY <1>1, <1>2, <2>1 DEF ReaderHasStamp
<1>14. \A i \in DOMAIN given'[d] : given'[d][i] =< Passed(d) + 1
      BY <1>8, <1>10, <1>11
<1>15. GivenPassed'
  <2> SUFFICES ASSUME NEW c \in Channels
               PROVE  /\ Passed(c) >= 0
                      /\ \A i \in DOMAIN given'[c] : given'[c][i] =< Passed(c) + Copied(c)'
                      /\ ~dropped[c] => Len(given'[c]) = Passed(c) + Copied(c)'
      BY <1>2, <1>9 DEF GivenPassed
  <2>1. CASE c # d
        BY <1>5, <1>9, <2>1 DEF GivenPassed
  <2>2. CASE c = d
    <3>1. ~dropped[d] => Len(given'[d]) = Passed(d) + 1
          BY <1>8, <1>10, <1>11
    <3>. QED BY <1>4, <1>8, <1>14, <2>2, <3>1
  <2>. QED BY <2>1, <2>2
<1>16. TailSeen'
  <2> SUFFICES /\ \A i \in DOMAIN given'[d] : given'[d][i] =< InSlot(d, btail[d])
               /\ InSlot(d, btail[d]) >= 0
    <3>1. ASSUME NEW w \in Users, upc'[w] = "bump" PROVE w = u
          BY <1>3, <3>1
    <3>2. InSlot(d, btail[d])' = InSlot(d, btail[d])
          BY DEF InSlot, Published, Publishing
    <3>3. uch'[u] = d /\ seenTail'[u] = btail[d] /\ btail' = btail
          BY <1>1
    <3>4. InSlot(uch[u], seenTail[u])' = InSlot(d, btail[d])
          BY <3>2, <3>3 DEF InSlot, Published, Publishing
    <3>. QED BY <3>1, <3>3, <3>4 DEF TailSeen
  <2>1. InSlot(d, btail[d]) = Passed(d) + 1
        BY <1>7
  <2>. QED BY <1>8, <1>14, <2>1
<1>17. ReadInOrder'
  <2> SUFFICES ASSUME NEW c \in Channels
               PROVE  /\ \A i, j \in DOMAIN given'[c] : i < j => given'[c][i] < given'[c][j]
                      /\ ~dropped[c] => \A i \in DOMAIN given'[c] : given'[c][i] = i
      BY <1>9 DEF ReadInOrder
  <2>1. CASE c # d
        BY <1>9, <2>1 DEF ReadInOrder
  <2>2. CASE c = d
    <3>1. /\ \A i, j \in 1 .. Len(given[d]) : i < j => given[d][i] < given[d][j]
          /\ ~dropped[d] => \A i \in 1 .. Len(given[d]) : given[d][i] = i
          BY <1>1, <1>10 DEF ReadInOrder
    <3>2. ASSUME NEW i \in DOMAIN given'[d], NEW j \in DOMAIN given'[d], i < j
          PROVE  given'[d][i] < given'[d][j]
      <4>1. CASE j = Len(given[d]) + 1
            BY <1>8, <1>10, <1>11, <3>2, <4>1
      <4>2. CASE j # Len(given[d]) + 1
            BY <1>10, <3>1, <3>2, <4>2
      <4>. QED BY <4>1, <4>2
    <3>3. ASSUME ~dropped[d], NEW i \in DOMAIN given'[d] PROVE given'[d][i] = i
      <4>1. CASE i = Len(given[d]) + 1
            BY <1>10, <1>11, <3>3, <4>1
      <4>2. CASE i # Len(given[d]) + 1
            BY <1>10, <3>1, <3>3, <4>2
      <4>. QED BY <4>1, <4>2
    <3>. QED BY <2>2, <3>2, <3>3
  <2>. QED BY <2>1, <2>2
<1>. QED BY <1>12, <1>13, <1>15, <1>16, <1>17

\* A reader moves the tail past the stamp it copied, or past the one that has
\* become the oldest since.
LEMMA TailStep ==
  ASSUME TypeInv, OrderInv, Exclusive', irq = "idle", NEW u \in Users, StampBump(u)
  PROVE  OrderInv'
<1> USE DEF OrderInv, At, Goto, hw, ring, loop, handler, reader, writer, history
<1>0. PICK d \in Channels : d = uch[u]
      BY DEF TypeInv, TypeOK
<1>1. /\ d \in Channels /\ uch[u] = d /\ upc[u] = "bump" /\ upc'[u] = "look" /\ uch' = uch /\ seenTail' = seenTail
      /\ bhead[d] \in Slots /\ btail[d] \in Slots /\ seenTail[u] \in Slots
      /\ taken[d] \in Nat /\ fifo[d] \in Seq(Nat) /\ given[d] \in Seq(Nat) /\ dropped' = dropped
      /\ irq' = irq /\ ch' = ch /\ taken' = taken /\ fifo' = fifo /\ bhead' = bhead /\ given' = given
      /\ tsbuf' = tsbuf /\ h' = h
      BY <1>0 DEF TypeInv, TypeOK, StampBump
<1>2. PICK t \in {seenTail[u], btail[d]} : btail' = [btail EXCEPT ![d] = NextSlot(t)]
      BY <1>0 DEF StampBump
<1>3. ASSUME NEW c \in Channels, NEW v PROVE
        /\ ~Publishing(c) /\ ~Publishing(c)' /\ Published(c)' = Published(c)
        /\ InSlot(c, v)' = InSlot(c, v)
      BY <1>1 DEF Published, Publishing, InSlot
<1>4. \A w \in Users : (w # u => upc[w] # "bump" /\ upc[w] # "copy") /\ upc'[w] # "bump" /\ upc'[w] # "copy"
      BY <1>1 DEF Exclusive, Locked, TypeInv, TypeOK, StampBump
<1>5. Copied(d) = 1 /\ \A c \in Channels : Copied(c)' = 0 /\ (c # d => Copied(c) = 0)
      BY <1>1, <1>4 DEF Copied, Bumping
<1>6. ~Empty(d) /\ bhead[d] # btail[d]
      BY <1>1 DEF ReaderHasStamp, Empty
<1>7. Published(d) \in Int /\ t \in Slots /\ Ago(bhead[d], t) \in Nat
  <2>1. t \in Slots
        BY <1>1, <1>2
  <2>2. Ago(bhead[d], t) \in 0 .. RingLen - 1
        BY <1>1, <2>1, AgoFacts
  <2>. QED BY <1>1, <2>1, <2>2, DioAssumption DEF Published
<1>8. Passed(d)' = InSlot(d, t) /\ InSlot(d, t) \in Int
  <2>1. btail'[d] = NextSlot(t)
        BY <1>1, <1>2 DEF TypeInv, TypeOK
  <2>2. Empty(d)' <=> bhead[d] = NextSlot(t)
        BY <1>1, <2>1 DEF Empty
  <2>3. CASE bhead[d] = NextSlot(t)
    <3>1. Ago(bhead[d], t) = 0
          BY <1>1, <1>7, <2>3, AgoFacts
    <3>2. Passed(d)' = Published(d)
          BY <1>1, <1>3, <2>2, <2>3 DEF Passed
    <3>. QED BY <1>7, <3>1, <3>2 DEF InSlot
  <2>4. CASE bhead[d] # NextSlot(t)
    <3>1. Ago(bhead[d], NextSlot(t)) = Ago(bhead[d], t) - 1
          BY <1>1, <1>7, <2>4, AgoFacts
    <3>2. Passed(d)' = Published(d)' - Ago(bhead'[d], btail'[d]) - 1
          BY <1>1, <2>2, <2>4 DEF Passed, InSlot
    <3>3. Passed(d)' = Published(d) - Ago(bhead[d], NextSlot(t)) - 1
          BY <1>1, <1>3, <2>1, <3>2
    <3>. QED BY <1>7, <3>1, <3>3 DEF InSlot
  <2>. QED BY <2>3, <2>4
<1>9. Passed(d) = InSlot(d, btail[d]) - 1 /\ InSlot(d, btail[d]) \in Int
  <2>1. Ago(bhead[d], btail[d]) \in Int
        BY <1>1, AgoFacts
  <2>. QED BY <1>6, <1>7, <2>1 DEF Passed, InSlot
<1>10. /\ \A i \in DOMAIN given[d] : given[d][i] =< InSlot(d, t)
       /\ InSlot(d, t) >= 0
       /\ ~dropped[d] => Len(given[d]) = InSlot(d, t)
  <2>1. /\ Passed(d) >= 0
        /\ \A i \in DOMAIN given[d] : given[d][i] =< Passed(d) + 1
        /\ ~dropped[d] => Len(given[d]) = Passed(d) + 1
        BY <1>1, <1>5 DEF GivenPassed
  <2>2. CASE t = btail[d]
        BY <1>9, <2>1, <2>2
  <2>3. CASE t # btail[d]
    <3>1. t = seenTail[u]
          BY <2>3
    <3>2. /\ \A i \in DOMAIN given[d] : given[d][i] =< InSlot(d, seenTail[u])
          /\ InSlot(d, seenTail[u]) >= 0
          /\ ~dropped[d] => seenTail[u] = btail[d]
          BY <1>1 DEF TailSeen
    <3>. QED BY <2>3, <3>1, <3>2
  <2>. QED BY <2>2, <2>3
<1>11. FifoInOrder' /\ SlotsFilled'
      BY <1>1, <1>3 DEF FifoInOrder, SlotsFilled
<1>12. ReaderHasStamp' /\ TailSeen'
      BY <1>4 DEF ReaderHasStamp, TailSeen
<1>13. GivenPassed'
  <2> SUFFICES ASSUME NEW c \in Channels
               PROVE  /\ Passed(c)' >= 0
                      /\ \A i \in DOMAIN given[c] : given[c][i] =< Passed(c)' + Copied(c)'
                      /\ ~dropped[c] => Len(given[c]) = Passed(c)' + Copied(c)'
      BY <1>1 DEF GivenPassed
  <2>1. CASE c # d
    <3>1. btail'[c] = btail[c]
          BY <1>2, <2>1 DEF TypeInv, TypeOK
    <3>2. Passed(c)' = Passed(c)
          BY <1>1, <1>3, <3>1 DEF Passed, Empty, InSlot
    <3>. QED BY <1>5, <2>1, <3>2 DEF GivenPassed
  <2>2. CASE c = d
    <3>1. Copied(c)' = 0 /\ Passed(c)' = InSlot(d, t)
          BY <1>5, <1>8, <2>2
    <3>2. \A i \in DOMAIN given[d] : given[d][i] =< InSlot(d, t) + 0
          BY <1>8, <1>10, GivenType, <1>1
    <3>. QED BY <1>8, <1>10, <2>2, <3>1, <3>2
  <2>. QED BY <2>1, <2>2
<1>14. ReadInOrder'
      BY <1>1 DEF ReadInOrder
<1>. QED BY <1>11, <1>12, <1>13, <1>14

\* A stamp comes into a FIFO.
LEMMA StampStep ==
  ASSUME TypeInv, OrderInv, Exclusive', Hw
  PROVE  OrderInv'
<1>1. PICK c \in Channels : HwEdge(c) \/ HwPulse(c)
      BY DEF Hw
<1>2. /\ taken' = [taken EXCEPT ![c] = @ + 1]
      /\ fifo' = [fifo EXCEPT ![c] = Append(@, taken[c] + 1)]
      /\ UNCHANGED <<tsbuf, bhead, btail, irq, ch, h, upc, uch, seenTail, given, dropped>>
      BY <1>1 DEF HwEdge, HwPulse, Stamp, HwUnchanged, ring, handler, reader, history
<1>3. /\ taken \in [Channels -> Nat] /\ fifo \in [Channels -> Seq(Nat)]
      BY DEF TypeInv, TypeOK
<1>4. /\ Len(fifo'[c]) = Len(fifo[c]) + 1 /\ Len(fifo[c]) \in Nat /\ taken'[c] = taken[c] + 1
      /\ \A i \in 1 .. Len(fifo[c]) : fifo'[c][i] = fifo[c][i]
      /\ fifo'[c][Len(fifo[c]) + 1] = taken[c] + 1
      /\ \A e \in Channels : e # c => fifo'[e] = fifo[e] /\ taken'[e] = taken[e]
      BY <1>2, <1>3
<1>5. FifoInOrder'
  <2> SUFFICES ASSUME NEW e \in Channels
               PROVE  /\ Len(fifo'[e]) =< taken'[e]
                      /\ \A i \in 1 .. Len(fifo'[e]) : fifo'[e][i] = taken'[e] - Len(fifo'[e]) + i
      BY DEF FifoInOrder
  <2>1. CASE e # c
        BY <1>4, <2>1 DEF OrderInv, FifoInOrder
  <2>2. CASE e = c
    <3>1. /\ Len(fifo[c]) =< taken[c] /\ taken[c] \in Nat
          /\ \A i \in 1 .. Len(fifo[c]) : fifo[c][i] = taken[c] - Len(fifo[c]) + i
          BY <1>3 DEF OrderInv, FifoInOrder
    <3>2. ASSUME NEW i \in 1 .. Len(fifo'[c]) PROVE fifo'[c][i] = taken'[c] - Len(fifo'[c]) + i
      <4>1. CASE i = Len(fifo[c]) + 1
            BY <1>4, <3>1, <4>1
      <4>2. CASE i # Len(fifo[c]) + 1
        <5>1. i \in 1 .. Len(fifo[c])
              BY <1>4, <4>2
        <5>. QED BY <1>4, <3>1, <5>1
      <4>. QED BY <4>1, <4>2
    <3>3. Len(fifo'[c]) =< taken'[c]
          BY <1>4, <3>1
    <3>. QED BY <2>2, <3>2, <3>3
  <2>. QED BY <2>1, <2>2
<1>6. \A e \in Channels : taken'[e] - Len(fifo'[e]) = taken[e] - Len(fifo[e])
  <2>1. \A e \in Channels : taken[e] \in Nat /\ Len(fifo[e]) \in Nat
        BY <1>3
  <2>2. taken'[c] - Len(fifo'[c]) = taken[c] - Len(fifo[c])
        BY <1>4, <2>1
  <2>. QED BY <1>4, <2>2
<1>7. ASSUME NEW e \in Channels PROVE
        /\ Published(e)' = Published(e) /\ Publishing(e)' = Publishing(e)
        /\ Empty(e)' = Empty(e) /\ Copied(e)' = Copied(e)
      BY <1>2, <1>6 DEF Published, Publishing, Empty, Copied, Bumping
<1>8. ASSUME NEW e \in Channels, NEW t PROVE InSlot(e, t)' = InSlot(e, t)
      BY <1>2, <1>7 DEF InSlot
<1>9. ASSUME NEW e \in Channels PROVE Passed(e)' = Passed(e)
      BY <1>2, <1>7 DEF Passed, InSlot
<1>10. SlotsFilled'
      BY <1>2, <1>7, <1>8 DEF OrderInv, SlotsFilled
<1>11. \A u \in Users : uch[u] \in Channels
      BY DEF TypeInv, TypeOK
<1>12. ReaderHasStamp' /\ TailSeen'
      BY <1>2, <1>7, <1>8, <1>11 DEF OrderInv, ReaderHasStamp, TailSeen
<1>13. GivenPassed' /\ ReadInOrder'
      BY <1>2, <1>7, <1>9 DEF OrderInv, GivenPassed, ReadInOrder
<1>. QED BY <1>5, <1>10, <1>12, <1>13 DEF OrderInv

\* The other steps of the handler.
LEMMA HandlerFrame ==
  ASSUME TypeInv, OrderInv, Exclusive', Irq, ~IrqPublish, ~IrqBump, ~IrqFill
  PROVE  OrderInv'
<1>1. /\ UNCHANGED <<taken, fifo, tsbuf, bhead, btail, given, dropped>>
      /\ irq \notin {"bump", "fill"} /\ irq' \notin {"bump", "fill"}
      /\ uch' = uch /\ seenTail' = seenTail
      /\ upc' = upc \/ upc' = [u \in Users |-> IF upc[u] = "sleep" /\ uch[u] = ch THEN "wait" ELSE upc[u]]
  <2> USE DEF hw, ring, loop, handler, reader, writer, history
  <2>1. CASE IrqEnter \/ IrqLock \/ IrqNext \/ IrqReturn \/ IrqSeeEmpty
        BY <2>1 DEF IrqEnter, IrqLock, IrqNext, IrqReturn, IrqSeeEmpty
  <2>2. CASE IrqAck
        BY <2>2 DEF IrqAck
  <2>3. CASE IrqTrig \/ IrqSetpoint \/ IrqLatch
        BY <2>3 DEF IrqTrig, IrqSetpoint, IrqLatch
  <2>4. CASE IrqCountRead \/ IrqCount
        BY <2>4 DEF IrqCountRead, IrqCount
  <2>5. CASE IrqWake
        BY <2>5 DEF IrqWake
  <2>. QED BY <2>1, <2>2, <2>3, <2>4, <2>5 DEF Irq
<1>2. upc \in [Users -> {"out", "scan", "look", "copy", "bump", "wait", "sleep", "awake",
                         "width", "loop", "latch"}]
      BY DEF TypeInv, TypeOK
<1>3. \A u \in Users : (upc'[u] = "bump" <=> upc[u] = "bump") /\ (upc'[u] = "copy" => upc[u] = "copy")
      BY <1>1, <1>2
<1>4. \A u \in Users : upc'[u] = "copy" => bhead[uch'[u]] # btail[uch'[u]] /\ RingLen > 1
      BY <1>1, <1>3 DEF OrderInv, ReaderHasStamp, Empty
<1>. QED BY <1>1, <1>3, <1>4, FrameStep

\* The other steps of the ioctls.
LEMMA UserFrame ==
  ASSUME TypeInv, OrderInv, Exclusive', irq = "idle", NEW u \in Users, User(u),
         ~StampCopy(u), ~StampBump(u)
  PROVE  OrderInv'
<1>1. upc \in [Users -> {"out", "scan", "look", "copy", "bump", "wait", "sleep", "awake",
                         "width", "loop", "latch"}] /\ uch \in [Users -> Channels]
      /\ bhead \in [Channels -> Slots] /\ btail \in [Channels -> Slots]
      BY DEF TypeInv, TypeOK
<1>2. /\ UNCHANGED <<taken, fifo, tsbuf, bhead, btail, given, dropped, irq>>
      /\ \A w \in Users : w # u => upc'[w] = upc[w] /\ uch'[w] = uch[w] /\ seenTail'[w] = seenTail[w]
      /\ upc[u] # "bump" /\ upc'[u] # "bump"
      /\ upc'[u] = "copy" => uch'[u] = uch[u] /\ bhead[uch[u]] # btail[uch[u]]
  <2> USE DEF hw, ring, loop, handler, reader, writer, history, At, Goto, Return
  <2>1. ASSUME NEW c \in StampCalls, StampStart(u, c) PROVE <1>2!:
        BY <1>1, <2>1 DEF StampStart
  <2>2. CASE PulseStart(u) \/ StampSignal(u)
        BY <1>1, <2>2 DEF PulseStart, StampSignal
  <2>3. CASE StampChannel(u) \/ StampEmpty(u) \/ StampLook(u)
        BY <1>1, <2>3 DEF StampChannel, StampEmpty, StampLook
  <2>4. CASE StampNone(u) \/ StampWait(u) \/ StampSleep(u)
        BY <1>1, <2>4 DEF StampNone, StampWait, StampSleep
  <2>5. CASE StampInterrupted(u) \/ StampAgain(u)
        BY <1>1, <2>5 DEF StampInterrupted, StampAgain
  <2>6. CASE PulseNow(u) \/ PulseWidth(u)
        BY <1>1, <2>6 DEF PulseNow, PulseWidth
  <2>7. ASSUME NEW w \in pend[u], PulseLoop(u, w) PROVE <1>2!:
        BY <1>1, <2>7 DEF PulseLoop
  <2>8. CASE PulseProgram(u) \/ PulseLatch(u)
        BY <1>1, <2>8 DEF PulseProgram, PulseLatch
  <2>. QED BY <2>1, <2>2, <2>3, <2>4, <2>5, <2>6, <2>7, <2>8 DEF User, Read, Write
<1>3. \A c \in Channels : bhead[c] # btail[c] => RingLen > 1
      BY <1>1, DioAssumption DEF Slots
<1>4. \A w \in Users : upc'[w] = "copy" => bhead[uch'[w]] # btail[uch'[w]] /\ RingLen > 1
      BY <1>1, <1>2, <1>3 DEF OrderInv, ReaderHasStamp, Empty
<1>. QED BY <1>2, <1>4, FrameStep

\* On one processor every step keeps the rings and the readers in order.
LEMMA OrderStep ==
  ASSUME OneCpu
  PROVE  TypeInv /\ OrderInv /\ [Next]_vars => OrderInv'
<1> SUFFICES ASSUME TypeInv, OrderInv, [Next]_vars PROVE OrderInv'
    OBVIOUS
<1>1. Exclusive'
      BY ExclusiveStep DEF OrderInv
<1>2. CASE UNCHANGED vars
      BY <1>2 DEF vars, hw, ring, handler, reader, history, OrderInv, FifoInOrder, SlotsFilled,
         Exclusive, ReaderHasStamp, GivenPassed, TailSeen, ReadInOrder, Copied, Bumping, Passed,
         Empty, InSlot, Published, Publishing
<1>3. CASE Hw
      BY <1>1, <1>3, StampStep
<1>4. CASE Irq
      BY <1>1, <1>4, HandlerFrame, PublishStep, BumpStep, FillStep
<1>5. ASSUME NEW u \in Users, User(u) PROVE OrderInv'
  <2>1. irq = "idle"
        BY <1>5 DEF User, Read, Write, StampStart, PulseStart, StampSignal, StampChannel, StampEmpty,
           StampLook, StampCopy, StampBump, StampNone, StampWait, StampSleep, StampInterrupted,
           StampAgain, PulseNow, PulseWidth, PulseLoop, PulseProgram, PulseLatch, At, UserMayRun
  <2>. QED BY <1>1, <1>5, <2>1, UserFrame, CopyStep, TailStep
<1>. QED BY <1>2, <1>3, <1>4, <1>5 DEF Next

\* On one processor the readers of a channel get its stamps in order and none
\* twice, whatever the rings hold, and lose none until a ring overflows.
THEOREM StampsInOrder ==
  ASSUME OneCpu
  PROVE  Spec => []ReadInOrder
<1>1. OrderInv => ReadInOrder
      BY DEF OrderInv
<1>. QED BY <1>1, TypeInvInit, TypeStep, OrderInit, OrderStep, PTL DEF Spec

-----------------------------------------------------------------------------
(* The pulses of one channel are not mixed: hw_lock.                       *)

\* What the argument needs of the types.
Domains ==
  /\ DOMAIN cycle = Channels /\ DOMAIN armed = Channels
  /\ DOMAIN upc = Users /\ DOMAIN pulse = Users

\* Between IrqLock and IrqReturn the handler holds hw_lock; between its two
\* writes to a channel, a user does.
HoldLock ==
  /\ irq \notin {"idle", "lock"} => hwLock = "irq"
  /\ \A u \in Users : upc[u] = "latch" => hwLock = u

\* The cycle register still has what the holder of the lock wrote there when it
\* comes to latch the seconds.
Programmed ==
  /\ irq = "latch" => \A c \in Channels : c = ch => cycle[c] = newts
  /\ \A u \in Users : upc[u] = "latch" =>
       \A c \in Channels : c = Pulse(u).ch => cycle[c] = <<pulse[u], 0>>

LatchInv == Domains /\ HoldLock /\ Programmed /\ LatchedWhole

\* No pulse is armed at the start.
LEMMA LatchInit == Init => LatchInv
  BY DEF Init, LatchInv, Domains, HoldLock, Programmed, LatchedWhole

\* The steps of the handler.  It programs a channel only while it holds the
\* lock, and then no user is between its own two writes.
LEMMA IrqKeepsLatch == LatchInv /\ Irq => LatchInv'
<1> SUFFICES ASSUME LatchInv, Irq PROVE LatchInv'
    OBVIOUS
<1> USE DioAssumption DEF LatchInv, Domains, HoldLock, Programmed, LatchedWhole, Pulse,
      hw, ring, loop, handler, reader, writer, history
<1>1. CASE IrqEnter \/ IrqLock \/ IrqNext \/ IrqReturn
      BY <1>1 DEF IrqEnter, IrqLock, IrqNext, IrqReturn
<1>2. CASE IrqPublish \/ IrqBump \/ IrqFill \/ IrqSeeEmpty \/ IrqAck
      BY <1>2 DEF IrqPublish, IrqBump, IrqFill, IrqSeeEmpty, IrqAck
<1>3. CASE IrqTrig \/ IrqCountRead \/ IrqCount
      BY <1>3 DEF IrqTrig, IrqCountRead, IrqCount
<1>4. CASE IrqSetpoint
      BY <1>4 DEF IrqSetpoint
<1>5. CASE IrqLatch
      BY <1>5 DEF IrqLatch
<1>6. CASE IrqWake
      BY <1>6 DEF IrqWake
<1>. QED BY <1>1, <1>2, <1>3, <1>4, <1>5, <1>6 DEF Irq

\* The steps of CMD_STAMP, which never touches an output.
LEMMA ReadKeepsLatch ==
  ASSUME LatchInv, NEW u \in Users,
         Read(u) \/ StampSignal(u) \/ \E c \in StampCalls : StampStart(u, c)
  PROVE  LatchInv'
<1> USE DioAssumption DEF LatchInv, Domains, HoldLock, Programmed, LatchedWhole, Pulse,
      hw, ring, loop, handler, reader, writer, history, At, Goto, Return
<1>1. ASSUME NEW c \in StampCalls, StampStart(u, c) PROVE LatchInv'
      BY <1>1 DEF StampStart
<1>2. CASE StampChannel(u) \/ StampEmpty(u) \/ StampLook(u)
      BY <1>2 DEF StampChannel, StampEmpty, StampLook
<1>3. CASE StampCopy(u) \/ StampBump(u) \/ StampNone(u)
      BY <1>3 DEF StampCopy, StampBump, StampNone
<1>4. CASE StampWait(u) \/ StampSleep(u) \/ StampSignal(u)
      BY <1>4 DEF StampWait, StampSleep, StampSignal
<1>5. CASE StampInterrupted(u) \/ StampAgain(u)
      BY <1>5 DEF StampInterrupted, StampAgain
<1>. QED BY <1>1, <1>2, <1>3, <1>4, <1>5 DEF Read

\* The steps of CMD_PULSE.
LEMMA WriteKeepsLatch ==
  ASSUME LatchInv, NEW u \in Users, PulseStart(u) \/ Write(u) PROVE LatchInv'
<1> USE DioAssumption DEF LatchInv, Domains, HoldLock, Programmed, LatchedWhole, Pulse,
      hw, ring, loop, handler, reader, writer, history, At, Goto, Return
<1>1. CASE PulseStart(u)
      BY <1>1 DEF PulseStart
<1>2. CASE PulseNow(u)
      BY <1>2 DEF PulseNow
<1>3. CASE PulseWidth(u)
      BY <1>3 DEF PulseWidth
<1>4. ASSUME NEW w \in pend[u], PulseLoop(u, w) PROVE LatchInv'
      BY <1>4 DEF PulseLoop
<1>5. CASE PulseProgram(u)
      BY <1>5 DEF PulseProgram
<1>6. CASE PulseLatch(u)
  <2>1. Domains' /\ HoldLock' /\ Programmed'
        BY <1>6 DEF PulseLatch
  <2>2. ASSUME NEW c \in Channels, NEW p \in armed'[c], NEW q \in armed'[c] PROVE p = q
    <3>1. CASE c = Pulse(u).ch
      <4>1. cycle[c] = <<pulse[u], 0>>
            BY <1>6, <3>1 DEF PulseLatch
      <4>2. armed'[c] = {cycle[c], <<pulse[u], 0>>}
            BY <1>6, <3>1 DEF PulseLatch
      <4>. QED BY <4>1, <4>2
    <3>2. CASE c # Pulse(u).ch
      <4>1. armed'[c] = armed[c]
            BY <1>6, <3>2 DEF PulseLatch
      <4>. QED BY <4>1, <2>2
    <3>. QED BY <3>1, <3>2
  <2>. QED BY <2>1, <2>2
<1>. QED BY <1>1, <1>2, <1>3, <1>4, <1>5, <1>6 DEF Write

\* Every step keeps the channels' registers with the holder of hw_lock.
LEMMA LatchStep == LatchInv /\ [Next]_vars => LatchInv'
<1> SUFFICES ASSUME LatchInv, [Next]_vars PROVE LatchInv'
    OBVIOUS
<1>1. CASE Hw
      BY <1>1 DEF Hw, HwEdge, HwPulse, Stamp, HwUnchanged, LatchInv, Domains, HoldLock,
                  Programmed, LatchedWhole, Pulse, handler, writer
<1>2. CASE Irq
      BY <1>2, IrqKeepsLatch
<1>3. ASSUME NEW u \in Users, User(u) PROVE LatchInv'
      BY <1>3, ReadKeepsLatch, WriteKeepsLatch DEF User
<1>4. CASE UNCHANGED vars
      BY <1>4 DEF vars, hw, handler, writer, LatchInv, Domains, HoldLock, Programmed,
                  LatchedWhole, Pulse
<1>. QED BY <1>1, <1>2, <1>3, <1>4 DEF Next

\* The hardware never arms a pulse with the cycles of one call and the seconds of
\* another, whatever ioctls run while the handler keeps a loop going.
THEOREM PulsesAreWhole == Spec => []LatchedWhole
<1>1. LatchInv => LatchedWhole
      BY DEF LatchInv
<1>. QED BY <1>1, LatchInit, LatchStep, PTL DEF Spec

-----------------------------------------------------------------------------
(* The loops end.                                                          *)

\* A loop that repeats a number of times, and its channel.
IsLoop(m) == PulseCalls[m].kind = "loop"
Wanted(m) == PulseCalls[m].value
ChannelOf(m) == PulseCalls[m].ch

\* The users that are to program the first pulse of call m, and those of them
\* that have not stored the count yet.
Starting(m) == {u \in Users : pulse[u] = m /\ upc[u] \in Pulsing}
Uncounted(m) ==
  {u \in Starting(m) : upc[u] = "width" \/ (upc[u] = "loop" /\ "count" \in pend[u])}

\* What is still to be programmed of call m: the first pulse and the repetitions,
\* but for one the handler has programmed and not counted yet.
First(m) == IF Starting(m) # {} THEN 1 ELSE 0
Rest(m) == IF Uncounted(m) # {} THEN Wanted(m) - 1 ELSE count[ChannelOf(m)]
Uncharged(m) ==
  IF ch = ChannelOf(m) /\ (irq = "read" \/ (irq = "count" /\ positive)) THEN 1 ELSE 0

Numbered ==
  /\ \A u \in Users : pulse[u] =< issued
  /\ \A m \in Calls : m > issued => made[m] = 0

\* What a channel repeats is a loop of that channel.
LoopsAreTheirs ==
  /\ \A c \in Channels : \A m \in {delay[c], prevts[c][1]} : m # 0 => IsLoop(m) /\ ChannelOf(m) = c
  /\ irq \in {"setpoint", "latch"} /\ newts[1] # 0 =>
       IsLoop(newts[1]) /\ ChannelOf(newts[1]) = ch

\* A channel that counts has a loop whose count was stored; the handler triggers
\* only on such a channel.
CountIsStored ==
  /\ \A c \in Channels : count[c] # 0 =>
       \E m \in 1 .. issued : IsLoop(m) /\ ChannelOf(m) = c /\ Uncounted(m) = {}
  /\ irq \in {"trig", "setpoint", "latch", "read", "count"} => count[ch] # 0
  /\ irq = "count" => (positive <=> count[ch] > 0)

Budget ==
  \A m \in 1 .. issued : IsLoop(m) /\ Wanted(m) > 0 =>
    /\ count[ChannelOf(m)] >= 0
    /\ made[m] + First(m) + Rest(m) - Uncharged(m) =< Wanted(m)

\* Only a looping call has stores of F_LOOP to make.
Storing == \A u \in Users : upc[u] = "loop" /\ pend[u] # {} => IsLoop(pulse[u])

LoopInv == Exclusive /\ Storing /\ Numbered /\ LoopsAreTheirs /\ CountIsStored /\ Budget

\* The properties of CMD_PULSE calls are about loops of which no other shares the
\* channel.
LoopsApart ==
  \A l, m \in 1 .. Len(PulseCalls) :
    IsLoop(l) /\ IsLoop(m) /\ ChannelOf(l) = ChannelOf(m) => l = m

\* The handler is about to repeat a pulse.
Trig == {"trig", "setpoint", "latch", "read", "count"}

\* The parameters of a call have their types.
LEMMA CallTypes ==
  ASSUME NEW m \in 1 .. Len(PulseCalls)
  PROVE  ChannelOf(m) \in Channels /\ Wanted(m) \in Int
<1>. DEFINE PulseCall == [ch : Channels, kind : {"now", "at", "loop"}, value : Int]
<1>1. PulseCalls \in Seq(PulseCall)
      BY DioAssumption
<1>2. PulseCalls[m] \in PulseCall
  <2>. HIDE DEF PulseCall
  <2>. QED BY <1>1
<1>. QED BY <1>2 DEF ChannelOf, Wanted

\* What the bookkeeping of the loops counts with are integers.
LEMMA LoopTypes ==
  ASSUME TypeInv
  PROVE  /\ issued \in Nat /\ 1 .. issued \subseteq 1 .. Len(PulseCalls)
         /\ \A m \in 1 .. issued : /\ ChannelOf(m) \in Channels /\ Wanted(m) \in Int
                                   /\ m \in Calls /\ made[m] \in Nat
                                   /\ First(m) \in {0, 1} /\ Rest(m) \in Int
                                   /\ Uncharged(m) \in {0, 1}
         /\ \A c \in Channels : count[c] \in Int
         /\ ch \in Channels
<1>1. issued \in 0 .. Len(PulseCalls) /\ Len(PulseCalls) \in Nat
      BY DioAssumption DEF TypeInv, TypeOK, Calls
<1>2. count \in [Channels -> Int] /\ made \in [Calls -> Nat] /\ ch \in Channels
      BY DEF TypeInv, TypeOK
<1>3. \A m \in 1 .. issued : m \in 1 .. Len(PulseCalls) /\ m \in Calls
      BY <1>1 DEF Calls
<1>4. \A m \in 1 .. issued : ChannelOf(m) \in Channels /\ Wanted(m) \in Int
      BY <1>3, CallTypes
<1>5. \A m \in 1 .. issued : First(m) \in {0, 1} /\ Rest(m) \in Int /\ Uncharged(m) \in {0, 1}
      BY <1>2, <1>4 DEF First, Rest, Uncharged
<1>. QED BY <1>1, <1>2, <1>3, <1>4, <1>5

\* No loop is going at the start.
LEMMA LoopInit == Init => LoopInv
<1> SUFFICES ASSUME Init PROVE LoopInv
    OBVIOUS
<1>1. issued = 0 /\ irq = "idle" /\ \A u \in Users : pulse[u] = 0 /\ upc[u] = "out"
      BY DEF Init
<1>2. \A c \in Channels : count[c] = 0 /\ delay[c] = 0 /\ prevts[c][1] = 0
      BY DEF Init, NoPulse
<1>3. \A m \in Calls : made[m] = 0
      BY DEF Init
<1>. QED BY <1>1, <1>2, <1>3 DEF LoopInv, Exclusive, Locked, Storing, Numbered, LoopsAreTheirs,
         CountIsStored, Budget

\* Steps that program no pulse and touch no counter.
LEMMA LoopFrame ==
  ASSUME TypeInv, LoopInv, Exclusive',
         UNCHANGED <<count, made, issued, delay, prevts, pulse>>,
         \A u \in Users : upc[u] \in Pulsing \/ upc'[u] \in Pulsing =>
                            upc'[u] = upc[u] /\ pend'[u] = pend[u],
         \/ UNCHANGED <<irq, ch, newts, positive>>
         \/ irq \notin Trig /\ irq' \notin Trig
  PROVE  LoopInv'
<1> USE DEF LoopInv
<1>1. ASSUME NEW m PROVE Starting(m)' = Starting(m) /\ Uncounted(m)' = Uncounted(m)
      BY DEF Starting, Uncounted
<1>2. ASSUME NEW m PROVE First(m)' = First(m) /\ Rest(m)' = Rest(m) /\ Uncharged(m)' = Uncharged(m)
      BY <1>1 DEF First, Rest, Uncharged, Trig
<1>3. Numbered' /\ Storing'
      BY DEF Numbered, Storing, Pulsing
<1>4. LoopsAreTheirs'
      BY DEF LoopsAreTheirs, Trig
<1>5. CountIsStored'
      BY <1>1 DEF CountIsStored, Trig
<1>6. Budget'
      BY <1>2 DEF Budget
<1>. QED BY <1>3, <1>4, <1>5, <1>6

\* The handler decides to trigger, computes the next setpoint and writes it.
LEMMA TrigSteps ==
  ASSUME TypeInv, LoopInv, Exclusive', IrqAck \/ IrqTrig \/ IrqSetpoint
  PROVE  LoopInv'
<1> USE DEF LoopInv, hw, ring, loop, handler, reader, writer, history
<1>1. /\ UNCHANGED <<count, made, issued, delay, pulse, upc, pend, ch, positive>>
      /\ irq \notin {"read", "count"} /\ irq' \notin {"read", "count"}
      /\ irq' \in Trig => irq \in Trig \/ count[ch] # 0
      BY DEF IrqAck, IrqTrig, IrqSetpoint, Trig
<1>2. ASSUME NEW m PROVE Starting(m)' = Starting(m) /\ Uncounted(m)' = Uncounted(m)
      BY <1>1 DEF Starting, Uncounted
<1>3. ASSUME NEW m PROVE First(m)' = First(m) /\ Rest(m)' = Rest(m) /\ Uncharged(m)' = Uncharged(m)
      BY <1>1, <1>2 DEF First, Rest, Uncharged
<1>4. Numbered' /\ Storing'
      BY <1>1 DEF Numbered, Storing
<1>5. LoopsAreTheirs'
  <2>0. ch \in Channels /\ prevts \in [Channels -> Setpoints]
        BY DEF TypeInv, TypeOK
  <2>1. CASE IrqAck
        BY <2>1 DEF IrqAck, LoopsAreTheirs
  <2>2. CASE IrqTrig
    <3>1. newts'[1] = (IF delay[ch] = prevts[ch][1] THEN delay[ch] ELSE 0)
          BY <2>2 DEF IrqTrig
    <3>. QED BY <1>1, <2>0, <2>2, <3>1 DEF IrqTrig, LoopsAreTheirs
  <2>3. CASE IrqSetpoint
    <3>1. \A c \in Channels : prevts'[c] = IF c = ch THEN newts ELSE prevts[c]
          BY <2>0, <2>3 DEF IrqSetpoint
    <3>2. newts' = newts /\ irq = "setpoint"
          BY <2>3 DEF IrqSetpoint
    <3>. QED BY <1>1, <3>1, <3>2 DEF LoopsAreTheirs
  <2>. QED BY <2>1, <2>2, <2>3
<1>6. CountIsStored'
      BY <1>1, <1>2 DEF CountIsStored, Trig
<1>7. Budget'
      BY <1>1, <1>3 DEF Budget
<1>. QED BY <1>4, <1>5, <1>6, <1>7

\* The handler programs the pulse, ...
LEMMA LatchCounted ==
  ASSUME LoopsApart, TypeInv, LoopInv, Exclusive', IrqLatch
  PROVE  LoopInv'
<1> USE DEF LoopInv, hw, ring, loop, handler, reader, writer, history
<1>1. /\ UNCHANGED <<count, issued, delay, prevts, pulse, upc, pend, ch, positive>>
      /\ irq = "latch" /\ irq' = "read" /\ made' = [made EXCEPT ![newts[1]] = @ + 1]
      /\ newts' = newts
      BY DEF IrqLatch
<1>2. ASSUME NEW m PROVE Starting(m)' = Starting(m) /\ Uncounted(m)' = Uncounted(m)
      BY <1>1 DEF Starting, Uncounted
<1>3. ASSUME NEW m PROVE /\ First(m)' = First(m) /\ Rest(m)' = Rest(m) /\ Uncharged(m) = 0
                         /\ Uncharged(m)' = IF ch = ChannelOf(m) THEN 1 ELSE 0
      BY <1>1, <1>2 DEF First, Rest, Uncharged
<1>4. made \in [Calls -> Nat] /\ newts[1] \in Calls
      BY DEF TypeInv, TypeOK, Setpoints
<1>5. PICK l \in 1 .. issued : IsLoop(l) /\ ChannelOf(l) = ch
      BY <1>1, LoopTypes DEF CountIsStored
<1>6. newts[1] = l \/ newts[1] = 0
  <2>1. newts[1] # 0 => newts[1] \in 1 .. Len(PulseCalls)
        BY <1>4 DEF Calls
  <2>. QED BY <1>1, <1>5, <2>1, LoopTypes DEF LoopsAreTheirs, LoopsApart
<1>7. Numbered'
  <2> SUFFICES ASSUME NEW m \in Calls, m > issued PROVE made'[m] = 0
      BY <1>1 DEF Numbered
  <2>1. m # newts[1] /\ made[m] = 0
        BY <1>6, LoopTypes DEF Numbered, Calls
  <2>. QED BY <1>1, <1>4, <2>1
<1>8. LoopsAreTheirs' /\ Storing'
      BY <1>1 DEF LoopsAreTheirs, Storing
<1>9. CountIsStored'
      BY <1>1, <1>2 DEF CountIsStored
<1>10. Budget'
  <2> SUFFICES ASSUME NEW m \in 1 .. issued, IsLoop(m), Wanted(m) > 0
               PROVE  /\ count[ChannelOf(m)] >= 0
                      /\ made'[m] + First(m) + Rest(m) - Uncharged(m)' =< Wanted(m)
      BY <1>1, <1>3 DEF Budget
  <2>1. /\ count[ChannelOf(m)] >= 0
        /\ made[m] + First(m) + Rest(m) - 0 =< Wanted(m)
        BY <1>3 DEF Budget
  <2>2. /\ made[m] \in Nat /\ First(m) \in {0, 1} /\ Rest(m) \in Int /\ Wanted(m) \in Int /\ m \in Calls
        BY LoopTypes
  <2>3. CASE m = newts[1]
    <3>1. ChannelOf(m) = ch /\ made'[m] = made[m] + 1
          BY <1>1, <1>4, <1>5, <1>6, <2>2, <2>3, LoopTypes
    <3>. QED BY <1>3, <2>1, <2>2, <3>1
  <2>4. CASE m # newts[1]
    <3>1. made'[m] = made[m]
          BY <1>1, <1>4, <2>2, <2>4
    <3>. QED BY <1>3, <2>1, <2>2, <3>1
  <2>. QED BY <2>3, <2>4
<1>. QED BY <1>7, <1>8, <1>9, <1>10

\* ... sees whether it is to be counted ...
LEMMA CountReadStep ==
  ASSUME TypeInv, LoopInv, Exclusive', IrqCountRead
  PROVE  LoopInv'
<1> USE DEF LoopInv, hw, ring, loop, handler, reader, writer, history
<1>1. /\ UNCHANGED <<count, made, issued, delay, prevts, pulse, upc, pend, ch, newts>>
      /\ irq = "read" /\ irq' = "count" /\ positive' = (count[ch] > 0)
      BY DEF IrqCountRead
<1>2. ASSUME NEW m PROVE Starting(m)' = Starting(m) /\ Uncounted(m)' = Uncounted(m)
      BY <1>1 DEF Starting, Uncounted
<1>3. ASSUME NEW m PROVE First(m)' = First(m) /\ Rest(m)' = Rest(m)
      BY <1>1, <1>2 DEF First, Rest
<1>4. Numbered' /\ LoopsAreTheirs' /\ Storing'
      BY <1>1 DEF Numbered, LoopsAreTheirs, Storing
<1>5. CountIsStored'
      BY <1>1, <1>2 DEF CountIsStored
<1>6. Budget'
  <2> SUFFICES ASSUME NEW m \in 1 .. issued, IsLoop(m), Wanted(m) > 0
               PROVE  Uncharged(m)' = Uncharged(m)
      BY <1>1, <1>3 DEF Budget
  <2>1. CASE ch # ChannelOf(m)
        BY <1>1, <2>1 DEF Uncharged
  <2>2. CASE ch = ChannelOf(m)
    <3>1. count[ch] >= 0 /\ count[ch] # 0 /\ count[ch] \in Int
          BY <1>1, <2>2, LoopTypes DEF Budget, CountIsStored
    <3>2. positive'
      <4>1. count[ch] > 0
            BY <3>1
      <4>. QED BY <1>1, <4>1, Zenon
    <3>. QED BY <1>1, <2>2, <3>2 DEF Uncharged
  <2>. QED BY <2>1, <2>2
<1>. QED BY <1>4, <1>5, <1>6

\* ... and counts it.
LEMMA CountStep ==
  ASSUME LoopsApart, TypeInv, LoopInv, Exclusive', IrqCount
  PROVE  LoopInv'
<1> USE DEF LoopInv, hw, ring, loop, handler, reader, writer, history
<1>1. /\ UNCHANGED <<made, issued, delay, prevts, pulse, upc, pend, ch, newts, positive>>
      /\ irq = "count" /\ irq' = "wake"
      BY DEF IrqCount
<1>2. ASSUME NEW m PROVE Starting(m)' = Starting(m) /\ Uncounted(m)' = Uncounted(m)
      BY <1>1 DEF Starting, Uncounted
<1>3. count \in [Channels -> Int] /\ ch \in Channels
      BY DEF TypeInv, TypeOK
<1>4. /\ \A c \in Channels : c # ch => count'[c] = count[c]
      /\ count'[ch] = IF count[ch] > 0 THEN count[ch] - 1 ELSE count[ch]
  <2>1. CASE positive
    <3>1. count' = [count EXCEPT ![ch] = count[ch] - 1] /\ count[ch] > 0
          BY <1>1, <2>1 DEF IrqCount, CountIsStored
    <3>. QED BY <1>3, <3>1
  <2>2. CASE ~positive
    <3>1. count' = [count EXCEPT ![ch] = count[ch]] /\ ~(count[ch] > 0)
          BY <1>1, <2>2 DEF IrqCount, CountIsStored
    <3>. QED BY <1>3, <3>1
  <2>. QED BY <2>1, <2>2
<1>5. Numbered' /\ LoopsAreTheirs' /\ Storing'
      BY <1>1 DEF Numbered, LoopsAreTheirs, Storing
<1>6. CountIsStored'
  <2>1. \A c \in Channels : count'[c] # 0 => count[c] # 0
        BY <1>3, <1>4
  <2>. QED BY <1>1, <1>2, <2>1 DEF CountIsStored
<1>7. Budget'
  <2> SUFFICES ASSUME NEW m \in 1 .. issued, IsLoop(m), Wanted(m) > 0
               PROVE  /\ count'[ChannelOf(m)] >= 0
                      /\ made[m] + First(m)' + Rest(m)' - Uncharged(m)' =< Wanted(m)
      BY <1>1 DEF Budget
  <2>1. /\ count[ChannelOf(m)] >= 0 /\ count[ChannelOf(m)] \in Int /\ ChannelOf(m) \in Channels
        /\ made[m] + First(m) + Rest(m) - Uncharged(m) =< Wanted(m)
        /\ made[m] \in Nat /\ First(m) \in {0, 1} /\ Rest(m) \in Int /\ Wanted(m) \in Int
        /\ Uncharged(m) \in {0, 1}
        BY LoopTypes DEF Budget
  <2>2. First(m)' = First(m) /\ Uncharged(m)' = 0
        BY <1>1, <1>2 DEF First, Uncharged
  <2>3. CASE ch # ChannelOf(m)
    <3>1. Uncharged(m) = 0 /\ count'[ChannelOf(m)] = count[ChannelOf(m)]
          BY <1>4, <2>1, <2>3 DEF Uncharged
    <3>2. Rest(m)' = Rest(m)
          BY <1>2, <3>1 DEF Rest
    <3>. QED BY <2>1, <2>2, <3>1, <3>2
  <2>4. CASE ch = ChannelOf(m)
    <3>1. count[ch] > 0
          BY <1>1, <2>1, <2>4 DEF CountIsStored
    <3>2. Uncounted(m) = {}
      <4>1. PICK l \in 1 .. issued : IsLoop(l) /\ ChannelOf(l) = ch /\ Uncounted(l) = {}
            BY <1>1, <1>3 DEF CountIsStored
      <4>. QED BY <2>4, <4>1, LoopTypes DEF LoopsApart
    <3>3. positive
          BY <1>1, <3>1 DEF CountIsStored
    <3>4. Uncharged(m) = 1
          BY <1>1, <2>4, <3>3 DEF Uncharged
    <3>5. Rest(m) = count[ch] /\ Rest(m)' = count'[ch] /\ count'[ch] = count[ch] - 1
          BY <1>1, <1>2, <1>4, <2>4, <3>1, <3>2 DEF Rest
    <3>. QED BY <2>1, <2>2, <2>4, <3>1, <3>4, <3>5
  <2>. QED BY <2>3, <2>4
<1>. QED BY <1>5, <1>6, <1>7

\* A CMD_PULSE call is issued.
LEMMA IssueStep ==
  ASSUME LoopsApart, TypeInv, LoopInv, Exclusive', NEW u \in Users, PulseStart(u)
  PROVE  LoopInv'
<1> USE DEF LoopInv, hw, ring, loop, handler, reader, writer, history
<1>1. /\ UNCHANGED <<count, made, delay, prevts, pend, irq, ch, newts, positive>>
      /\ issued' = issued + 1 /\ upc[u] = "out" /\ issued < Len(PulseCalls)
      /\ upc' = [upc EXCEPT ![u] = "width"] /\ pulse' = [pulse EXCEPT ![u] = issued']
      BY DEF PulseStart, At, Goto
<1>2. /\ pulse \in [Users -> Nat] /\ issued \in Nat
      /\ upc \in [Users -> {"out", "scan", "look", "copy", "bump", "wait", "sleep", "awake",
                            "width", "loop", "latch"}]
      /\ made \in [Calls -> Nat] /\ Len(PulseCalls) \in Nat
  <2>1. Len(PulseCalls) \in Nat
        BY DioAssumption
  <2>2. Calls \subseteq Nat
        BY DEF Calls
  <2>. QED BY <2>1, <2>2 DEF TypeInv, TypeOK
<1>3. /\ pulse'[u] = issued + 1 /\ upc'[u] = "width"
      /\ \A w \in Users : w # u => pulse'[w] = pulse[w] /\ upc'[w] = upc[w]
      BY <1>1, <1>2
<1>4. ASSUME NEW m \in Nat, m =< issued
      PROVE  Starting(m)' = Starting(m) /\ Uncounted(m)' = Uncounted(m)
  <2>1. m # issued + 1
        BY <1>2, <1>4
  <2>. QED BY <1>1, <1>3, <2>1 DEF Starting, Uncounted, Pulsing
<1>5. ASSUME NEW m \in Nat, m =< issued
      PROVE  First(m)' = First(m) /\ Rest(m)' = Rest(m) /\ Uncharged(m)' = Uncharged(m)
      BY <1>1, <1>4, <1>5 DEF First, Rest, Uncharged
<1>6. Numbered'
  <2>1. \A w \in Users : pulse'[w] =< issued'
        BY <1>1, <1>2, <1>3 DEF Numbered
  <2>2. \A m \in Calls : m > issued' => m > issued
        BY <1>1, <1>2 DEF Calls
  <2>. QED BY <1>1, <2>1, <2>2 DEF Numbered
<1>7. LoopsAreTheirs' /\ Storing'
      BY <1>1, <1>3 DEF LoopsAreTheirs, Storing
<1>8. CountIsStored'
  <2>1. \A m \in 1 .. issued : m \in 1 .. issued' /\ Uncounted(m)' = Uncounted(m)
        BY <1>1, <1>2, <1>4
  <2>. QED BY <1>1, <2>1 DEF CountIsStored
<1>9. Budget'
  <2> SUFFICES ASSUME NEW m \in 1 .. issued + 1, IsLoop(m), Wanted(m) > 0
               PROVE  /\ count[ChannelOf(m)] >= 0
                      /\ made[m] + First(m)' + Rest(m)' - Uncharged(m)' =< Wanted(m)
      BY <1>1 DEF Budget
  <2>1. CASE m =< issued
    <3>1. m \in 1 .. issued /\ m \in Nat
          BY <1>2, <2>1
    <3>. QED BY <1>5, <2>1, <3>1 DEF Budget
  <2>2. CASE m > issued
    <3>1. m = issued + 1 /\ m \in Calls /\ m \in 1 .. Len(PulseCalls)
          BY <1>1, <1>2, <2>2 DEF Calls
    <3>2. made[m] = 0 /\ Wanted(m) \in Int /\ ChannelOf(m) \in Channels
          BY <2>2, <3>1, CallTypes DEF Numbered
    <3>3. count[ChannelOf(m)] = 0
      <4>1. SUFFICES ASSUME count[ChannelOf(m)] # 0 PROVE FALSE
            OBVIOUS
      <4>2. PICK l \in 1 .. issued : IsLoop(l) /\ ChannelOf(l) = ChannelOf(m)
            BY <3>2, <4>1 DEF CountIsStored
      <4>3. l # m /\ l \in 1 .. Len(PulseCalls)
            BY <1>1, <1>2, <3>1
      <4>. QED BY <3>1, <4>2, <4>3 DEF LoopsApart
    <3>4. u \in Uncounted(m)'
          BY <1>3, <3>1 DEF Uncounted, Starting, Pulsing
    <3>5. First(m)' \in {0, 1} /\ Rest(m)' = Wanted(m) - 1 /\ Uncharged(m)' \in {0, 1}
          BY <3>4 DEF First, Rest, Uncharged
    <3>. QED BY <3>2, <3>3, <3>5
  <2>. QED BY <1>2, <2>1, <2>2
<1>. QED BY <1>6, <1>7, <1>8, <1>9

\* A pulse that starts at once, or the first one of a call, is programmed.
LEMMA FirstStep ==
  ASSUME TypeInv, LoopInv, Exclusive', NEW u \in Users, PulseNow(u) \/ PulseLatch(u)
  PROVE  LoopInv'
<1> USE DEF LoopInv, hw, ring, loop, handler, reader, writer, history
<1>1. /\ UNCHANGED <<count, issued, delay, prevts, pulse, pend, irq, ch, newts, positive>>
      /\ upc[u] \in {"width", "latch"} /\ upc' = [upc EXCEPT ![u] = "out"]
      /\ upc[u] = "width" => Pulse(u).kind = "now"
      /\ made' = [made EXCEPT ![pulse[u]] = @ + 1]
      BY DEF PulseNow, PulseLatch, At, Goto, Return
<1>2. /\ upc \in [Users -> {"out", "scan", "look", "copy", "bump", "wait", "sleep", "awake",
                            "width", "loop", "latch"}]
      /\ made \in [Calls -> Nat] /\ pulse[u] \in Calls
      BY DEF TypeInv, TypeOK
<1>3. pulse[u] # 0 /\ pulse[u] =< issued
  <2>1. upc[u] \in Pulsing
        BY <1>1 DEF Pulsing
  <2>2. pulse[u] \in 1 .. Len(PulseCalls)
        BY <2>1, PulseTypes
  <2>. QED BY <2>2 DEF Numbered
<1>4. \A w \in Users : w # u => upc[w] \notin Pulsing /\ upc'[w] = upc[w]
      BY <1>1, <1>2 DEF Exclusive, Locked, Pulsing
<1>5. upc'[u] = "out"
      BY <1>1, <1>2
<1>6. ASSUME NEW m PROVE /\ Starting(m)' = {} /\ Uncounted(m)' = {}
                         /\ Starting(m) = IF m = pulse[u] THEN {u} ELSE {}
                         /\ Uncounted(m) = IF m = pulse[u] /\ upc[u] = "width" THEN {u} ELSE {}
      BY <1>1, <1>4, <1>5 DEF Starting, Uncounted, Pulsing
<1>7. Numbered'
  <2>1. \A m \in Calls : m > issued => made'[m] = made[m]
    <3>1. \A m \in Calls : m \in Int /\ issued \in Int
          BY LoopTypes DEF Calls
    <3>2. \A m \in Calls : m > issued => m # pulse[u]
          BY <1>2, <1>3, <3>1
    <3>. QED BY <1>1, <1>2, <3>2
  <2>. QED BY <1>1, <2>1 DEF Numbered
<1>8. LoopsAreTheirs' /\ Storing'
      BY <1>1, <1>4, <1>5 DEF LoopsAreTheirs, Storing
<1>9. CountIsStored'
      BY <1>1, <1>6 DEF CountIsStored
<1>10. Budget'
  <2> SUFFICES ASSUME NEW m \in 1 .. issued, IsLoop(m), Wanted(m) > 0
               PROVE  /\ count[ChannelOf(m)] >= 0
                      /\ made'[m] + First(m)' + Rest(m)' - Uncharged(m)' =< Wanted(m)
      BY <1>1 DEF Budget
  <2>1. /\ count[ChannelOf(m)] >= 0
        /\ made[m] + First(m) + Rest(m) - Uncharged(m) =< Wanted(m)
        /\ made[m] \in Nat /\ Rest(m) \in Int /\ Wanted(m) \in Int /\ m \in Calls
        /\ Uncharged(m) \in {0, 1}
        BY LoopTypes DEF Budget
  <2>2. Uncharged(m)' = Uncharged(m) /\ First(m)' = 0
        BY <1>1, <1>6 DEF Uncharged, First
  <2>3. Uncounted(m) = {}
        BY <1>1, <1>6 DEF IsLoop, Pulse
  <2>4. Rest(m)' = Rest(m)
        BY <1>1, <1>6, <2>3 DEF Rest
  <2>5. CASE m = pulse[u]
    <3>1. First(m) = 1 /\ made'[m] = made[m] + 1
          BY <1>1, <1>2, <1>6, <2>5 DEF First
    <3>. QED BY <2>1, <2>2, <2>4, <3>1
  <2>6. CASE m # pulse[u]
    <3>1. First(m) = 0 /\ made'[m] = made[m]
          BY <1>1, <1>2, <1>6, <2>1, <2>6 DEF First
    <3>. QED BY <2>1, <2>2, <2>4, <3>1
  <2>. QED BY <2>5, <2>6
<1>. QED BY <1>7, <1>8, <1>9, <1>10

\* The width of a pulse is set, or its first setpoint: no count and no pulse.
LEMMA SetStep ==
  ASSUME TypeInv, LoopInv, Exclusive', NEW u \in Users, PulseWidth(u) \/ PulseProgram(u)
  PROVE  LoopInv'
<1> USE DEF LoopInv, hw, ring, loop, handler, reader, writer, history
<1>1. /\ UNCHANGED <<count, made, issued, delay, prevts, pulse, irq, ch, newts, positive>>
      /\ \/ /\ upc[u] = "width" /\ upc' = [upc EXCEPT ![u] = "loop"]
            /\ pend' = [pend EXCEPT ![u] = IF Pulse(u).kind = "loop" THEN {"count", "prevts", "delay"} ELSE {}]
         \/ /\ upc[u] = "loop" /\ pend[u] = {} /\ upc' = [upc EXCEPT ![u] = "latch"] /\ pend' = pend
      BY DEF PulseWidth, PulseProgram, At, Goto
<1>2. /\ upc \in [Users -> {"out", "scan", "look", "copy", "bump", "wait", "sleep", "awake",
                            "width", "loop", "latch"}]
      /\ pend \in [Users -> SUBSET {"count", "prevts", "delay"}]
      BY DEF TypeInv, TypeOK
<1>3. \A w \in Users : w # u => upc'[w] = upc[w] /\ pend'[w] = pend[w]
      BY <1>1, <1>2
<1>4. ASSUME NEW m PROVE Starting(m)' = Starting(m)
      BY <1>1, <1>2, <1>3 DEF Starting, Pulsing
<1>5. ASSUME NEW m, IsLoop(m) PROVE Uncounted(m)' = Uncounted(m)
  <2>1. \A w \in Users : w # u =>
          (w \in Uncounted(m)' <=> w \in Uncounted(m))
        BY <1>1, <1>3, <1>4 DEF Uncounted
  <2>2. u \in Uncounted(m)' <=> u \in Uncounted(m)
    <3>1. CASE upc[u] = "width"
      <4>1. CASE pulse[u] = m
        <5>1. "count" \in pend'[u] /\ upc'[u] = "loop"
              BY <1>1, <1>2, <1>5, <3>1, <4>1 DEF IsLoop, Pulse
        <5>. QED BY <1>4, <3>1, <4>1, <5>1 DEF Uncounted, Starting, Pulsing
      <4>2. CASE pulse[u] # m
            BY <1>1, <4>2 DEF Uncounted, Starting
      <4>. QED BY <4>1, <4>2
    <3>2. CASE upc[u] = "loop"
      <4>1. pend[u] = {} /\ upc'[u] = "latch"
            BY <1>1, <1>2, <3>2
      <4>. QED BY <3>2, <4>1 DEF Uncounted
    <3>. QED BY <1>1, <3>1, <3>2
  <2>3. Uncounted(m) \subseteq Users /\ Uncounted(m)' \subseteq Users
        BY DEF Uncounted, Starting
  <2>. QED BY <2>1, <2>2, <2>3
<1>6. ASSUME NEW m, IsLoop(m) PROVE
        First(m)' = First(m) /\ Rest(m)' = Rest(m) /\ Uncharged(m)' = Uncharged(m)
      BY <1>1, <1>4, <1>5, <1>6 DEF First, Rest, Uncharged
<1>7. Numbered' /\ LoopsAreTheirs'
      BY <1>1 DEF Numbered, LoopsAreTheirs
<1>7b. Storing'
  <2>1. \A w \in Users : w # u => upc'[w] = upc[w] /\ pend'[w] = pend[w] /\ pulse'[w] = pulse[w]
        BY <1>1, <1>3
  <2>2. upc'[u] = "loop" /\ pend'[u] # {} => IsLoop(pulse'[u])
        BY <1>1, <1>2 DEF IsLoop, Pulse
  <2>. QED BY <2>1, <2>2 DEF Storing
<1>8. CountIsStored'
      BY <1>1, <1>5 DEF CountIsStored
<1>9. Budget'
      BY <1>1, <1>6 DEF Budget
<1>. QED BY <1>7, <1>7b, <1>8, <1>9

\* One of the three stores of F_LOOP.
LEMMA StoreStep ==
  ASSUME LoopsApart, TypeInv, LoopInv, Exclusive', NEW u \in Users, NEW w \in pend[u], PulseLoop(u, w)
  PROVE  LoopInv'
<1> USE DEF LoopInv, hw, ring, loop, handler, reader, writer, history
<1>. DEFINE p == pulse[u]
            c == Pulse(u).ch
<1>1. /\ UNCHANGED <<made, issued, pulse, upc, irq, ch, newts, positive>>
      /\ upc[u] = "loop" /\ pend' = [pend EXCEPT ![u] = @ \ {w}]
      BY DEF PulseLoop, At
<1>2. /\ p \in 1 .. Len(PulseCalls) /\ p \in 1 .. issued /\ c \in Channels /\ Pulse(u).value \in Int
      /\ c = ChannelOf(p) /\ Pulse(u).value = Wanted(p)
  <2>1. upc[u] \in Pulsing
        BY <1>1 DEF Pulsing
  <2>2. p \in 1 .. Len(PulseCalls) /\ c \in Channels /\ Pulse(u).value \in Int
        BY <2>1, PulseTypes
  <2>3. p =< issued /\ issued \in Nat
        BY LoopTypes DEF Numbered
  <2>. QED BY <2>2, <2>3 DEF ChannelOf, Wanted, Pulse
<1>3. /\ upc \in [Users -> {"out", "scan", "look", "copy", "bump", "wait", "sleep", "awake",
                            "width", "loop", "latch"}]
      /\ pend \in [Users -> SUBSET {"count", "prevts", "delay"}]
      /\ count \in [Channels -> Int] /\ prevts \in [Channels -> Setpoints] /\ delay \in [Channels -> Calls]
      /\ ch \in Channels
      BY DEF TypeInv, TypeOK
<1>4. pend'[u] = pend[u] \ {w} /\ \A v \in Users : v # u => pend'[v] = pend[v]
      BY <1>1, <1>3
<1>5. ASSUME NEW m PROVE Starting(m)' = Starting(m)
      BY <1>1 DEF Starting
<1>6. Starting(p) = {u} /\ \A v \in Users : v # u => upc[v] \notin Pulsing
  <2>1. \A v \in Users : v # u => upc[v] \notin Pulsing
        BY <1>1 DEF Exclusive, Locked, Pulsing
  <2>. QED BY <1>1, <2>1 DEF Starting, Pulsing
<1>7. Numbered'
      BY <1>1 DEF Numbered
<1>8. IsLoop(p)
      BY <1>1 DEF Storing
<1>9. Storing'
  <2>1. \A v \in Users : v # u => pend'[v] = pend[v]
        BY <1>4
  <2>. QED BY <1>1, <1>8, <2>1 DEF Storing
<1>10. w \in {"count", "prevts", "delay"}
       BY <1>3
<1>11. ASSUME NEW m, m # p PROVE Uncounted(m)' = Uncounted(m)
  <2>1. u \notin Starting(m) /\ \A v \in Starting(m) : v # u
        BY <1>11 DEF Starting
  <2>. QED BY <1>1, <1>4, <1>5, <2>1 DEF Uncounted
<1>12. LoopsAreTheirs'
  <2>1. \A d \in Channels : \A m \in {delay'[d], prevts'[d][1]} :
          m # 0 => IsLoop(m) /\ ChannelOf(m) = d
    <3> SUFFICES ASSUME NEW d \in Channels
                 PROVE  /\ delay'[d] # 0 => IsLoop(delay'[d]) /\ ChannelOf(delay'[d]) = d
                        /\ prevts'[d][1] # 0 => IsLoop(prevts'[d][1]) /\ ChannelOf(prevts'[d][1]) = d
        OBVIOUS
    <3>1. delay'[d] = delay[d] \/ (d = c /\ delay'[d] = p)
          BY <1>3 DEF PulseLoop
    <3>2. prevts'[d] = prevts[d] \/ (d = c /\ prevts'[d] = <<p, 0>>)
          BY <1>3 DEF PulseLoop
    <3>3. /\ delay[d] # 0 => IsLoop(delay[d]) /\ ChannelOf(delay[d]) = d
          /\ prevts[d][1] # 0 => IsLoop(prevts[d][1]) /\ ChannelOf(prevts[d][1]) = d
          BY DEF LoopsAreTheirs
    <3>. QED BY <1>2, <1>8, <3>1, <3>2, <3>3
  <2>. QED BY <1>1, <2>1 DEF LoopsAreTheirs
<1>13. CASE w # "count"
  <2>1. count' = count
        BY <1>13 DEF PulseLoop
  <2>2. "count" \in pend'[u] <=> "count" \in pend[u]
        BY <1>4, <1>13
  <2>3. ASSUME NEW m PROVE Uncounted(m)' = Uncounted(m)
    <3>1. \A v \in Users : "count" \in pend'[v] <=> "count" \in pend[v]
          BY <1>4, <2>2
    <3>. QED BY <1>1, <1>5, <3>1 DEF Uncounted
  <2>4. CountIsStored'
        BY <1>1, <2>1, <2>3 DEF CountIsStored
  <2>5. Budget'
    <3>1. ASSUME NEW m PROVE First(m)' = First(m) /\ Rest(m)' = Rest(m) /\ Uncharged(m)' = Uncharged(m)
          BY <1>1, <1>5, <2>1, <2>3 DEF First, Rest, Uncharged
    <3>. QED BY <1>1, <2>1, <3>1 DEF Budget
  <2>. QED BY <1>7, <1>9, <1>12, <2>4, <2>5
<1>14. CASE w = "count"
  <2>1. count' = [count EXCEPT ![c] = LoopCount(Wanted(p))]
        BY <1>2, <1>14 DEF PulseLoop
  <2>2. Uncounted(p) = {u} /\ Uncounted(p)' = {}
    <3>1. "count" \in pend[u] /\ "count" \notin pend'[u]
          BY <1>4, <1>14
    <3>. QED BY <1>1, <1>5, <1>6, <3>1 DEF Uncounted
  <2>3. count[c] = 0
    <3>1. SUFFICES ASSUME count[c] # 0 PROVE FALSE
          OBVIOUS
    <3>2. PICK l \in 1 .. issued : IsLoop(l) /\ ChannelOf(l) = c /\ Uncounted(l) = {}
          BY <1>2, <3>1 DEF CountIsStored
    <3>3. l = p
          BY <1>2, <1>8, <3>2, LoopTypes DEF LoopsApart
    <3>. QED BY <2>2, <3>2, <3>3
  <2>4. irq \in Trig => ch # c
        BY <2>3 DEF CountIsStored, Trig
  <2>5. \A d \in Channels : d # c => count'[d] = count[d]
        BY <1>3, <2>1
  <2>6. CountIsStored'
    <3>1. ASSUME NEW d \in Channels, count'[d] # 0
          PROVE  \E m \in 1 .. issued : IsLoop(m) /\ ChannelOf(m) = d /\ Uncounted(m)' = {}
      <4>1. CASE d = c
            BY <1>1, <1>2, <1>8, <2>2, <4>1
      <4>2. CASE d # c
        <5>1. PICK m \in 1 .. issued : IsLoop(m) /\ ChannelOf(m) = d /\ Uncounted(m) = {}
              BY <2>5, <3>1, <4>2 DEF CountIsStored
        <5>2. m # p
              BY <1>2, <4>2, <5>1
        <5>. QED BY <1>11, <5>1, <5>2
      <4>. QED BY <4>1, <4>2
    <3>2. irq \in Trig => count'[ch] = count[ch]
          BY <1>3, <2>4, <2>5
    <3>. QED BY <1>1, <3>1, <3>2 DEF CountIsStored, Trig
  <2>7. Budget'
    <3> SUFFICES ASSUME NEW m \in 1 .. issued, IsLoop(m), Wanted(m) > 0
                 PROVE  /\ count'[ChannelOf(m)] >= 0
                        /\ made[m] + First(m)' + Rest(m)' - Uncharged(m)' =< Wanted(m)
        BY <1>1 DEF Budget
    <3>1. /\ count[ChannelOf(m)] >= 0
          /\ made[m] + First(m) + Rest(m) - Uncharged(m) =< Wanted(m)
          /\ Wanted(m) \in Int /\ ChannelOf(m) \in Channels
          BY LoopTypes DEF Budget
    <3>2. First(m)' = First(m) /\ Uncharged(m)' = Uncharged(m)
          BY <1>1, <1>5 DEF First, Uncharged
    <3>3. CASE m = p
      <4>1. Rest(m) = Wanted(m) - 1
            BY <2>2, <3>3 DEF Rest
      <4>2. count'[c] = Wanted(m) - 1
            BY <1>2, <1>3, <2>1, <3>3 DEF LoopCount
      <4>3. Rest(m)' = Wanted(m) - 1
            BY <1>2, <2>2, <3>3, <4>2 DEF Rest
      <4>. QED BY <1>2, <3>1, <3>2, <3>3, <4>1, <4>2, <4>3
    <3>4. CASE m # p
      <4>1. ChannelOf(m) # c
            BY <1>2, <1>8, <3>4, LoopTypes DEF LoopsApart
      <4>2. count'[ChannelOf(m)] = count[ChannelOf(m)]
            BY <2>5, <3>1, <4>1
      <4>3. Rest(m)' = Rest(m)
            BY <1>11, <3>4, <4>2 DEF Rest
      <4>. QED BY <3>1, <3>2, <4>2, <4>3
    <3>. QED BY <3>3, <3>4
  <2>. QED BY <1>7, <1>9, <1>12, <2>6, <2>7
<1>. QED BY <1>13, <1>14

\* The steps that neither program a pulse nor store or count.
LEMMA LoopIdle ==
  ASSUME TypeInv, LoopInv, Exclusive',
         \/ Hw
         \/ IrqEnter \/ IrqLock \/ IrqNext \/ IrqReturn \/ IrqPublish \/ IrqBump \/ IrqFill
         \/ IrqSeeEmpty \/ IrqWake
         \/ \E u \in Users : (\E c \in StampCalls : StampStart(u, c)) \/ StampSignal(u) \/ Read(u)
         \/ UNCHANGED vars
  PROVE  LoopInv'
<1> USE DEF hw, ring, loop, handler, reader, writer, history
<1>1. upc \in [Users -> {"out", "scan", "look", "copy", "bump", "wait", "sleep", "awake",
                         "width", "loop", "latch"}]
      BY DEF TypeInv, TypeOK
<1>2. UNCHANGED <<count, made, issued, delay, prevts, pulse, pend>>
      BY DEF Hw, HwEdge, HwPulse, HwUnchanged, IrqEnter, IrqLock, IrqNext, IrqReturn, IrqPublish,
         IrqBump, IrqFill, IrqSeeEmpty, IrqWake, StampStart, StampSignal, Read, StampChannel,
         StampEmpty, StampLook, StampCopy, StampBump, StampNone, StampWait, StampSleep,
         StampInterrupted, StampAgain, vars
<1>3. UNCHANGED <<irq, ch, newts, positive>> \/ (irq \notin Trig /\ irq' \notin Trig)
      BY DEF Hw, HwEdge, HwPulse, HwUnchanged, IrqEnter, IrqLock, IrqNext, IrqReturn, IrqPublish,
         IrqBump, IrqFill, IrqSeeEmpty, IrqWake, StampStart, StampSignal, Read, StampChannel,
         StampEmpty, StampLook, StampCopy, StampBump, StampNone, StampWait, StampSleep,
         StampInterrupted, StampAgain, vars, Trig
<1>4. \A v \in Users : upc[v] \in Pulsing \/ upc'[v] \in Pulsing => upc'[v] = upc[v]
  <2>1. CASE Hw \/ UNCHANGED vars \/ UNCHANGED upc
        BY <2>1 DEF Hw, HwEdge, HwPulse, HwUnchanged, vars
  <2>2. CASE IrqEnter \/ IrqLock \/ IrqNext \/ IrqReturn \/ IrqPublish \/ IrqBump \/ IrqFill
             \/ IrqSeeEmpty
        BY <2>2 DEF IrqEnter, IrqLock, IrqNext, IrqReturn, IrqPublish, IrqBump, IrqFill, IrqSeeEmpty
  <2>3. CASE IrqWake
        BY <1>1, <2>3 DEF IrqWake, Pulsing
  <2>4. ASSUME NEW u \in Users,
               (\E c \in StampCalls : StampStart(u, c)) \/ StampSignal(u) \/ Read(u)
        PROVE  \A v \in Users : upc[v] \in Pulsing \/ upc'[v] \in Pulsing => upc'[v] = upc[v]
    <3>1. upc[u] \notin Pulsing /\ \E where : where \notin Pulsing /\ upc' = [upc EXCEPT ![u] = where]
      <4> USE DEF Goto, At, Pulsing, Return
      <4>1. CASE \E c \in StampCalls : StampStart(u, c)
            BY <4>1 DEF StampStart
      <4>2. CASE StampSignal(u)
            BY <4>2 DEF StampSignal
      <4>3. CASE StampEmpty(u) \/ StampSleep(u)
            BY <4>3 DEF StampEmpty, StampSleep
      <4>4. CASE Read(u) /\ ~StampEmpty(u) /\ ~StampSleep(u)
            BY <4>4 DEF Read, StampChannel, StampLook, StampCopy, StampBump, StampNone, StampWait,
               StampInterrupted, StampAgain
      <4>. QED BY <2>4, <4>1, <4>2, <4>3, <4>4
    <3>. QED BY <1>1, <3>1
  <2>. QED BY <2>1, <2>2, <2>3, <2>4
<1>. QED BY <1>2, <1>3, <1>4, LoopFrame

\* Every step keeps the budget of every loop.
LEMMA LoopStep ==
  ASSUME LoopsApart
  PROVE  TypeInv /\ LoopInv /\ [Next]_vars => LoopInv'
<1> SUFFICES ASSUME TypeInv, LoopInv, [Next]_vars PROVE LoopInv'
    OBVIOUS
<1>1. Exclusive'
      BY ExclusiveStep DEF LoopInv
<1>2. CASE Hw \/ UNCHANGED vars
      BY <1>1, <1>2, LoopIdle
<1>3. CASE Irq
      BY <1>1, <1>3, LoopIdle, TrigSteps, LatchCounted, CountReadStep, CountStep DEF Irq
<1>4. ASSUME NEW u \in Users, User(u) PROVE LoopInv'
      BY <1>1, <1>4, LoopIdle, IssueStep, FirstStep, SetStep, StoreStep DEF User, Write
<1>. QED BY <1>2, <1>3, <1>4 DEF Next

\* A loop with a channel of its own is programmed no more often than the call asked,
\* however the handler's counting and the stores of the ioctl interleave.
THEOREM LoopsEnd ==
  ASSUME LoopsApart
  PROVE  Spec => []NotLoopedTooOften
<1>1. TypeInv /\ LoopInv => NotLoopedTooOften
  <2> SUFFICES ASSUME TypeInv, LoopInv, NEW m \in 1 .. issued, IsLoop(m), Wanted(m) > 0
               PROVE  made[m] =< Wanted(m)
      BY DEF NotLoopedTooOften, IsLoop, Wanted
  <2>1. /\ made[m] + First(m) + Rest(m) - Uncharged(m) =< Wanted(m)
        /\ count[ChannelOf(m)] >= 0 /\ count[ChannelOf(m)] \in Int
        /\ made[m] \in Nat /\ First(m) \in {0, 1} /\ Rest(m) \in Int /\ Wanted(m) \in Int
        /\ Uncharged(m) \in {0, 1}
        BY LoopTypes DEF LoopInv, Budget
  <2>2. Rest(m) >= Uncharged(m)
    <3>1. CASE Uncharged(m) = 0
          BY <2>1, <3>1 DEF Rest
    <3>2. CASE Uncharged(m) = 1
      <4>1. ch = ChannelOf(m) /\ irq \in {"read", "count"}
            BY <3>2 DEF Uncharged
      <4>2. count[ch] # 0
            BY <4>1 DEF LoopInv, CountIsStored
      <4>3. PICK l \in 1 .. issued : IsLoop(l) /\ ChannelOf(l) = ch /\ Uncounted(l) = {}
            BY <4>2, LoopTypes DEF LoopInv, CountIsStored
      <4>4. Uncounted(m) = {}
            BY <4>1, <4>3, LoopTypes DEF LoopsApart
      <4>. QED BY <2>1, <3>2, <4>1, <4>2, <4>4 DEF Rest
    <3>. QED BY <2>1, <3>1, <3>2
  <2>. QED BY <2>1, <2>2
<1>. QED BY <1>1, TypeInvInit, TypeStep, LoopInit, LoopStep, PTL DEF Spec
=============================================================================
