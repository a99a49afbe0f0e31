-------------------------------- MODULE WrDio --------------------------------
(***************************************************************************)
(* The digital I/O mezzanine of the SPEC driver (wr-nic-dio.c): the        *)
(* interrupt handler that moves time stamps from the hardware FIFOs to one *)
(* ring per channel and keeps looping outputs going, and the ioctls that   *)
(* program pulses and read stamps.                                         *)
(*                                                                         *)
(* All ioctls run under rtnl, which CMD_STAMP releases while it waits.     *)
(* hw_lock serialises the programming of pulses.  The rings, the loop      *)
(* counters and the setpoints are shared with the handler under no lock.   *)
(*                                                                         *)
(* The stamps of a channel are numbered; a setpoint is <<m, k>>, the k-th *)
(* repetition of the m-th CMD_PULSE.  CMD_INOUT, the pulse offsets, the    *)
(* rate limit of the handler and the absence of a mezzanine are left out.  *)
(***************************************************************************)
EXTENDS Integers, Sequences, FiniteSets, FiniteSetsExt

CONSTANTS
  Channels,    (* 0 .. 4 in the code.                                      *)
  RingLen,     (* WRN_DIO_BUFFER_LEN: 512 in the code.                     *)
  NStamp,      (* WR_DIO_N_STAMP: 16 in the code.                          *)
  Users,       (* The processes that issue ioctls.                         *)
  StampCalls,  (* CMD_STAMP calls: channels, many (F_MASK), wait (F_WAIT). *)
  PulseCalls,  (* CMD_PULSE calls: ch, kind, value; each issued once.      *)
  OneCpu,      (* The handler and the users share one processor.           *)
  MaxStamps,   (* Bound: the stamps each channel takes.                    *)
  Nobody       (* Neither a user nor the handler.                          *)

ASSUME DioAssumption ==
  /\ Channels # {} /\ Channels \subseteq Nat /\ IsFiniteSet(Channels)
  /\ RingLen \in Nat \ {0} /\ NStamp \in Nat \ {0}
  /\ StampCalls \subseteq [channels : SUBSET Channels, many : BOOLEAN, wait : BOOLEAN]
  /\ PulseCalls \in Seq([ch : Channels, kind : {"now", "at", "loop"}, value : Int])
  /\ OneCpu \in BOOLEAN /\ MaxStamps \in [Channels -> Nat]
  /\ Nobody \notin Users \cup {"irq"} /\ "irq" \notin Users

NoCall == [channels |-> {}, many |-> FALSE, wait |-> FALSE]
Slots == 0 .. RingLen - 1
Calls == 0 .. Len(PulseCalls)          \* 0: no call
Setpoints == Calls \X Nat
NoPulse == <<0, 0>>

VARIABLES
  \* The hardware.
  fifo, isr,     (* The stamp FIFOs and the NEMPTY interrupts.             *)
  cycle, armed,  (* The cycle register, and what R_LATCH has armed.        *)
  taken,         (* How many stamps each channel has taken.                *)
  \* struct dio_channel and the locks.
  tsbuf, bhead, btail, count, prevts, delay,
  hwLock, rtnl,
  \* wrn_dio_interrupt.
  irq, mask, ch, h, got, newts, positive,
  \* The ioctls.
  upc, call, todo, uch, n, seenTail, sig,
  pulse, pend,
  \* History.
  issued,        (* How many of PulseCalls were issued.                    *)
  given,         (* The stamps each channel's readers were given.          *)
  dropped,       (* The ring of the channel has overflowed.                *)
  made           (* How often a setpoint of each call was programmed.      *)

hw      == <<fifo, isr, cycle, armed, taken>>
ring    == <<tsbuf, bhead, btail>>
loop    == <<count, prevts, delay>>
handler == <<irq, mask, ch, h, got, newts, positive>>
reader  == <<call, todo, uch, n, seenTail, sig>>
writer  == <<pulse, pend, issued>>
history == <<given, dropped, made>>
vars    == <<hw, ring, loop, hwLock, rtnl, handler, upc, reader, writer, history>>

\* wrn_mezzanine_init: all zero, interrupts enabled.
Init ==
  /\ fifo = [c \in Channels |-> <<>>] /\ isr = {}
  /\ cycle = [c \in Channels |-> NoPulse] /\ armed = [c \in Channels |-> {}]
  /\ taken = [c \in Channels |-> 0]
  /\ tsbuf = [c \in Channels |-> [s \in Slots |-> 0]]
  /\ bhead = [c \in Channels |-> 0] /\ btail = [c \in Channels |-> 0]
  /\ count = [c \in Channels |-> 0]
  /\ prevts = [c \in Channels |-> NoPulse] /\ delay = [c \in Channels |-> 0]
  /\ hwLock = Nobody /\ rtnl = Nobody
  /\ irq = "idle" /\ mask = {} /\ ch = Min(Channels) /\ h = 0 /\ got = FALSE
  /\ newts = NoPulse /\ positive = FALSE
  /\ upc = [u \in Users |-> "out"]
  /\ call = [u \in Users |-> NoCall] /\ todo = [u \in Users |-> {}]
  /\ uch = [u \in Users |-> Min(Channels)] /\ n = [u \in Users |-> 0]
  /\ seenTail = [u \in Users |-> 0] /\ sig = [u \in Users |-> FALSE]
  /\ pulse = [u \in Users |-> 0] /\ pend = [u \in Users |-> {}]
  /\ issued = 0
  /\ given = [c \in Channels |-> <<>>]
  /\ dropped = [c \in Channels |-> FALSE]
  /\ made = [m \in Calls |-> 0]

NextSlot(s) == (s + 1) % RingLen

\* On one processor the handler preempts the users, and does not run while
\* spin_lock_irqsave holds it off.
UserMayRun == OneCpu => irq = "idle"
IrqMayEnter == OneCpu => hwLock = Nobody

-----------------------------------------------------------------------------
(* The hardware (external): a stamp of an input edge or of an output       *)
(* pulse.  The interrupt is active while the FIFO holds anything.          *)

Stamp(c) ==
  /\ taken[c] < MaxStamps[c]
  /\ taken' = [taken EXCEPT ![c] = @ + 1]
  /\ fifo' = [fifo EXCEPT ![c] = Append(@, taken[c] + 1)]
  /\ isr' = isr \cup {c}

HwUnchanged ==
  UNCHANGED <<cycle, ring, loop, hwLock, rtnl, handler, upc, reader, writer, history>>

HwEdge(c) == Stamp(c) /\ UNCHANGED armed /\ HwUnchanged

HwPulse(c) ==
  /\ armed[c] # {}
  /\ armed' = [armed EXCEPT ![c] = {}]
  /\ Stamp(c) /\ HwUnchanged

Hw == \E c \in Channels : HwEdge(c) \/ HwPulse(c)

-----------------------------------------------------------------------------
(* wrn_dio_interrupt                                                       *)

IrqEnter ==
  /\ irq = "idle" /\ isr # {} /\ IrqMayEnter
  /\ mask' = isr
  /\ irq' = "lock"
  /\ UNCHANGED <<hw, ring, loop, hwLock, rtnl, ch, h, got, newts, positive, upc, reader, writer,
                 history>>

IrqLock ==
  /\ irq = "lock" /\ hwLock = Nobody
  /\ hwLock' = "irq"
  /\ irq' = "next"
  /\ UNCHANGED <<hw, ring, loop, rtnl, mask, ch, h, got, newts, positive, upc, reader, writer,
                 history>>

IrqNext ==
  /\ irq = "next" /\ mask # {}
  /\ ch' = Min(mask) /\ mask' = mask \ {Min(mask)} /\ got' = FALSE
  /\ irq' = "pull"
  /\ UNCHANGED <<hw, ring, loop, hwLock, rtnl, h, newts, positive, upc, reader, writer, history>>

IrqReturn ==
  /\ irq = "next" /\ mask = {}
  /\ hwLock' = Nobody
  /\ irq' = "idle"
  /\ UNCHANGED <<hw, ring, loop, rtnl, mask, ch, h, got, newts, positive, upc, reader, writer,
                 history>>

\* The slot is published first, ...
IrqPublish ==
  /\ irq = "pull" /\ fifo[ch] # <<>>
  /\ h' = bhead[ch]
  /\ bhead' = [bhead EXCEPT ![ch] = NextSlot(@)]
  /\ irq' = "bump"
  /\ UNCHANGED <<hw, tsbuf, btail, loop, hwLock, rtnl, mask, ch, got, newts, positive, upc,
                 reader, writer, history>>

\* ... then the oldest is dropped if the ring is full, ...
IrqBump ==
  /\ irq = "bump"
  /\ btail' = [btail EXCEPT ![ch] = IF bhead[ch] = @ THEN NextSlot(@) ELSE @]
  /\ dropped' = [dropped EXCEPT ![ch] = @ \/ bhead[ch] = btail[ch]]
  /\ irq' = "fill"
  /\ UNCHANGED <<hw, tsbuf, bhead, loop, hwLock, rtnl, mask, ch, h, got, newts, positive,
                 upc, reader, writer, given, made>>

\* Mutant of IrqFill: bhead is read after it was advanced.
IrqFillAtHead ==
  /\ irq = "fill"
  /\ tsbuf' = [tsbuf EXCEPT ![ch][bhead[ch]] = Head(fifo[ch])]
  /\ fifo' = [fifo EXCEPT ![ch] = Tail(@)]
  /\ got' = TRUE
  /\ irq' = "pull"
  /\ UNCHANGED <<isr, cycle, armed, taken, bhead, btail, loop, hwLock, rtnl, mask, ch, h,
                 newts, positive, upc, reader, writer, history>>

\* ... then it is filled; reading the cycles pops the FIFO.
IrqFill ==
  /\ irq = "fill"
  /\ tsbuf' = [tsbuf EXCEPT ![ch][h] = Head(fifo[ch])]
  /\ fifo' = [fifo EXCEPT ![ch] = Tail(@)]
  /\ got' = TRUE
  /\ irq' = "pull"
  /\ UNCHANGED <<isr, cycle, armed, taken, bhead, btail, loop, hwLock, rtnl, mask, ch, h,
                 newts, positive, upc, reader, writer, history>>

\* The FIFO was seen empty; what came in since keeps the interrupt active.
IrqSeeEmpty ==
  /\ irq = "pull" /\ fifo[ch] = <<>>
  /\ irq' = "ack"
  /\ UNCHANGED <<hw, ring, loop, hwLock, rtnl, mask, ch, h, got, newts, positive, upc,
                 reader, writer, history>>

\* Mutant of IrqAck: only a channel that loops wakes its readers.
IrqAckNoWake ==
  /\ irq = "ack"
  /\ isr' = IF fifo[ch] = <<>> THEN isr \ {ch} ELSE isr
  /\ irq' = IF got /\ count[ch] # 0 THEN "trig" ELSE "next"
  /\ UNCHANGED <<fifo, cycle, armed, taken, ring, loop, hwLock, rtnl, mask, ch, h, got,
                 newts, positive, upc, reader, writer, history>>

IrqAck ==
  /\ irq = "ack"
  /\ isr' = IF fifo[ch] = <<>> THEN isr \ {ch} ELSE isr
  /\ irq' = IF got /\ count[ch] # 0 THEN "trig" ELSE "wake"
  /\ UNCHANGED <<fifo, cycle, armed, taken, ring, loop, hwLock, rtnl, mask, ch, h, got,
                 newts, positive, upc, reader, writer, history>>

\* wrn_trig_next_pulse: the setpoint one delay after the last, ...
IrqTrig ==
  /\ irq = "trig"
  /\ newts' = <<IF delay[ch] = prevts[ch][1] THEN delay[ch] ELSE 0, prevts[ch][2] + 1>>
  /\ irq' = "setpoint"
  /\ UNCHANGED <<hw, ring, loop, hwLock, rtnl, mask, ch, h, got, positive, upc, reader,
                 writer, history>>

IrqSetpoint ==
  /\ irq = "setpoint"
  /\ prevts' = [prevts EXCEPT ![ch] = newts]
  /\ cycle' = [cycle EXCEPT ![ch] = newts]
  /\ irq' = "latch"
  /\ UNCHANGED <<fifo, isr, armed, taken, ring, count, delay, hwLock, rtnl, mask, ch, h, got,
                 newts, positive, upc, reader, writer, history>>

\* ... programmed, ...
IrqLatch ==
  /\ irq = "latch"
  /\ armed' = [armed EXCEPT ![ch] = {cycle[ch], newts}]
  /\ made' = [made EXCEPT ![newts[1]] = @ + 1]
  /\ irq' = "read"
  /\ UNCHANGED <<fifo, isr, cycle, taken, ring, loop, hwLock, rtnl, mask, ch, h, got, newts,
                 positive, upc, reader, writer, given, dropped>>

\* ... and counted: atomic_read, then atomic_dec.
IrqCountRead ==
  /\ irq = "read"
  /\ positive' = (count[ch] > 0)
  /\ irq' = "count"
  /\ UNCHANGED <<hw, ring, loop, hwLock, rtnl, mask, ch, h, got, newts, upc, reader, writer,
                 history>>

IrqCount ==
  /\ irq = "count"
  /\ count' = [count EXCEPT ![ch] = IF positive THEN @ - 1 ELSE @]
  /\ irq' = "wake"
  /\ UNCHANGED <<hw, ring, prevts, delay, hwLock, rtnl, mask, ch, h, got, newts, positive,
                 upc, reader, writer, history>>

IrqWake ==
  /\ irq = "wake"
  /\ upc' = [u \in Users |-> IF upc[u] = "sleep" /\ uch[u] = ch THEN "wait" ELSE upc[u]]
  /\ irq' = "next"
  /\ UNCHANGED <<hw, ring, loop, hwLock, rtnl, mask, ch, h, got, newts, positive, reader,
                 writer, history>>

Irq ==
  \/ IrqEnter \/ IrqLock \/ IrqNext \/ IrqReturn
  \/ IrqPublish \/ IrqBump \/ IrqFill \/ IrqSeeEmpty \/ IrqAck
  \/ IrqTrig \/ IrqSetpoint \/ IrqLatch \/ IrqCountRead \/ IrqCount \/ IrqWake

-----------------------------------------------------------------------------
(* wrn_dio_cmd_stamp                                                       *)

At(u, where) == UserMayRun /\ upc[u] = where
Goto(u, where) == upc' = [upc EXCEPT ![u] = where]
Return(u) == Goto(u, "out") /\ rtnl' = Nobody

StampStart(u, c) ==
  /\ At(u, "out") /\ rtnl = Nobody
  /\ rtnl' = u /\ Goto(u, "scan")
  /\ call' = [call EXCEPT ![u] = c]
  /\ todo' = [todo EXCEPT ![u] = c.channels]
  /\ n' = [n EXCEPT ![u] = 0]
  /\ sig' = [sig EXCEPT ![u] = FALSE]
  /\ UNCHANGED <<hw, ring, loop, hwLock, handler, uch, seenTail, writer, history>>

StampChannel(u) ==
  /\ At(u, "scan") /\ todo[u] # {}
  /\ uch' = [uch EXCEPT ![u] = Min(todo[u])]
  /\ todo' = [todo EXCEPT ![u] = @ \ {Min(@)}]
  /\ Goto(u, "look")
  /\ UNCHANGED <<hw, ring, loop, hwLock, rtnl, handler, call, n, seenTail, sig, writer,
                 history>>

\* The channel is done: the call returns with stamps, or tries the next one.
\* (bhead and btail are read in one step.)
StampEmpty(u) ==
  /\ At(u, "look")
  /\ n[u] = NStamp \/ bhead[uch[u]] = btail[uch[u]]
  /\ IF n[u] > 0 THEN Return(u) ELSE Goto(u, "scan") /\ UNCHANGED rtnl
  /\ UNCHANGED <<hw, ring, loop, hwLock, handler, reader, writer, history>>

StampLook(u) ==
  /\ At(u, "look")
  /\ n[u] # NStamp /\ bhead[uch[u]] # btail[uch[u]]
  /\ Goto(u, "copy")
  /\ UNCHANGED <<hw, ring, loop, hwLock, rtnl, handler, reader, writer, history>>

StampCopy(u) ==
  /\ At(u, "copy")
  /\ LET c == uch[u] IN
       /\ given' = [given EXCEPT ![c] = Append(@, tsbuf[c][btail[c]])]
       /\ seenTail' = [seenTail EXCEPT ![u] = btail[c]]
  /\ n' = [n EXCEPT ![u] = @ + 1]
  /\ Goto(u, "bump")
  /\ UNCHANGED <<hw, ring, loop, hwLock, rtnl, handler, call, todo, uch, sig, writer,
                 dropped, made>>

\* btail is read again or not, as the compiler likes.
StampBump(u) ==
  /\ At(u, "bump")
  /\ \E t \in {seenTail[u], btail[uch[u]]} :
       btail' = [btail EXCEPT ![uch[u]] = NextSlot(t)]
  /\ Goto(u, "look")
  /\ UNCHANGED <<hw, tsbuf, bhead, loop, hwLock, rtnl, handler, reader, writer, history>>

StampNone(u) ==
  /\ At(u, "scan") /\ todo[u] = {} /\ ~call[u].wait
  /\ Return(u)
  /\ UNCHANGED <<hw, ring, loop, hwLock, handler, reader, writer, history>>

\* F_WAIT: rtnl is released.  After a scan of many, the last channel is the
\* one to wait for.
StampWait(u) ==
  /\ At(u, "scan") /\ todo[u] = {} /\ call[u].wait
  /\ uch' = [uch EXCEPT ![u] = IF call[u].many THEN Max(Channels) ELSE @]
  /\ rtnl' = Nobody /\ Goto(u, "wait")
  /\ UNCHANGED <<hw, ring, loop, hwLock, handler, call, todo, n, seenTail, sig, writer,
                 history>>

\* wait_event_interruptible
StampSleep(u) ==
  /\ At(u, "wait")
  /\ Goto(u, IF bhead[uch[u]] # btail[uch[u]] THEN "awake" ELSE "sleep")
  /\ UNCHANGED <<hw, ring, loop, hwLock, rtnl, handler, reader, writer, history>>

StampSignal(u) ==
  /\ At(u, "sleep")
  /\ sig' = [sig EXCEPT ![u] = TRUE] /\ Goto(u, "awake")
  /\ UNCHANGED <<hw, ring, loop, hwLock, rtnl, handler, call, todo, uch, n, seenTail, writer,
                 history>>

\* -ERESTARTSYS
StampInterrupted(u) ==
  /\ At(u, "awake") /\ rtnl = Nobody /\ sig[u]
  /\ Goto(u, "out")
  /\ UNCHANGED <<hw, ring, loop, hwLock, rtnl, handler, reader, writer, history>>

StampAgain(u) ==
  /\ At(u, "awake") /\ rtnl = Nobody /\ ~sig[u]
  /\ rtnl' = u /\ Goto(u, "scan")
  /\ todo' = [todo EXCEPT ![u] = call[u].channels]
  /\ UNCHANGED <<hw, ring, loop, hwLock, handler, call, uch, n, seenTail, sig, writer,
                 history>>

Read(u) ==
  \/ StampChannel(u) \/ StampEmpty(u) \/ StampLook(u) \/ StampCopy(u) \/ StampBump(u)
  \/ StampNone(u) \/ StampWait(u) \/ StampSleep(u) \/ StampInterrupted(u) \/ StampAgain(u)

-----------------------------------------------------------------------------
(* wrn_dio_cmd_pulse                                                       *)

Pulse(u) == PulseCalls[pulse[u]]

PulseStart(u) ==
  /\ At(u, "out") /\ rtnl = Nobody /\ issued < Len(PulseCalls)
  /\ rtnl' = u /\ Goto(u, "width")
  /\ issued' = issued + 1
  /\ pulse' = [pulse EXCEPT ![u] = issued']
  /\ UNCHANGED <<hw, ring, loop, hwLock, handler, reader, pend, history>>

\* F_NOW: the pulse starts in the locked section that sets its width.
PulseNow(u) ==
  /\ At(u, "width") /\ hwLock = Nobody /\ Pulse(u).kind = "now"
  /\ armed' = [armed EXCEPT ![Pulse(u).ch] = {<<pulse[u], 0>>}]
  /\ made' = [made EXCEPT ![pulse[u]] = @ + 1]
  /\ Return(u)
  /\ UNCHANGED <<fifo, isr, cycle, taken, ring, loop, hwLock, handler, reader, writer, given,
                 dropped>>

PulseWidth(u) ==
  /\ At(u, "width") /\ hwLock = Nobody /\ Pulse(u).kind # "now"
  /\ pend' = [pend EXCEPT ![u] =
       IF Pulse(u).kind = "loop" THEN {"count", "prevts", "delay"} ELSE {}]
  /\ Goto(u, "loop")
  /\ UNCHANGED <<hw, ring, loop, hwLock, rtnl, handler, reader, pulse, issued, history>>

\* Mutant of LoopCount: the first pulse is counted twice.
LoopCountAll(v) == v

\* The count is of the repetitions: the first pulse is not one.
LoopCount(v) == IF v > 0 THEN v - 1 ELSE v

\* The three stores of F_LOOP are under no lock, and in no certain order.
PulseLoop(u, w) ==
  /\ At(u, "loop") /\ w \in pend[u]
  /\ pend' = [pend EXCEPT ![u] = @ \ {w}]
  /\ LET c == Pulse(u).ch IN
       /\ count' = IF w = "count" THEN [count EXCEPT ![c] = LoopCount(Pulse(u).value)]
                                  ELSE count
       /\ prevts' = IF w = "prevts" THEN [prevts EXCEPT ![c] = <<pulse[u], 0>>] ELSE prevts
       /\ delay' = IF w = "delay" THEN [delay EXCEPT ![c] = pulse[u]] ELSE delay
  /\ UNCHANGED <<hw, ring, hwLock, rtnl, handler, upc, reader, pulse, issued, history>>

\* Mutant of PulseProgram: hw_lock is not taken.
PulseProgramUnlocked(u) ==
  /\ At(u, "loop") /\ pend[u] = {}
  /\ cycle' = [cycle EXCEPT ![Pulse(u).ch] = <<pulse[u], 0>>]
  /\ Goto(u, "latch")
  /\ UNCHANGED <<fifo, isr, armed, taken, ring, loop, hwLock, rtnl, handler, reader, writer,
                 history>>

\* __wrn_new_pulse
PulseProgram(u) ==
  /\ At(u, "loop") /\ pend[u] = {} /\ hwLock = Nobody
  /\ hwLock' = u
  /\ cycle' = [cycle EXCEPT ![Pulse(u).ch] = <<pulse[u], 0>>]
  /\ Goto(u, "latch")
  /\ UNCHANGED <<fifo, isr, armed, taken, ring, loop, rtnl, handler, reader, writer, history>>

PulseLatch(u) ==
  /\ At(u, "latch")
  /\ LET c == Pulse(u).ch IN armed' = [armed EXCEPT ![c] = {cycle[c], <<pulse[u], 0>>}]
  /\ made' = [made EXCEPT ![pulse[u]] = @ + 1]
  /\ hwLock' = Nobody /\ Return(u)
  /\ UNCHANGED <<fifo, isr, cycle, taken, ring, loop, handler, reader, writer, given, dropped>>

Write(u) ==
  \/ PulseNow(u) \/ PulseWidth(u) \/ (\E w \in pend[u] : PulseLoop(u, w))
  \/ PulseProgram(u) \/ PulseLatch(u)

-----------------------------------------------------------------------------
User(u) ==
  \/ \E c \in StampCalls : StampStart(u, c)
  \/ PulseStart(u) \/ StampSignal(u) \/ Read(u) \/ Write(u)

Next == Hw \/ Irq \/ \E u \in Users : User(u)

\* The handler runs on, and so does an ioctl that was started.
Spec == Init /\ [][Next]_vars
FairSpec == Spec /\ WF_vars(Irq) /\ \A u \in Users : WF_vars(Read(u) \/ Write(u))

-----------------------------------------------------------------------------
(* Properties.                                                             *)

TypeOK ==
  /\ fifo \in [Channels -> Seq(Nat)] /\ isr \subseteq Channels
  /\ cycle \in [Channels -> Setpoints] /\ armed \in [Channels -> SUBSET Setpoints]
  /\ taken \in [Channels -> Nat]
  /\ tsbuf \in [Channels -> [Slots -> Nat]]
  /\ bhead \in [Channels -> Slots] /\ btail \in [Channels -> Slots]
  /\ count \in [Channels -> Int]
  /\ prevts \in [Channels -> Setpoints] /\ delay \in [Channels -> Calls]
  /\ hwLock \in Users \cup {"irq", Nobody} /\ rtnl \in Users \cup {Nobody}
  /\ irq \in {"idle", "lock", "next", "pull", "bump", "fill", "ack", "trig", "setpoint",
              "latch", "read", "count", "wake"}
  /\ mask \subseteq Channels /\ ch \in Channels /\ h \in Slots /\ got \in BOOLEAN
  /\ newts \in Setpoints /\ positive \in BOOLEAN
  /\ upc \in [Users -> {"out", "scan", "look", "copy", "bump", "wait", "sleep", "awake",
                        "width", "loop", "latch"}]
  /\ call \in [Users -> StampCalls \cup {NoCall}] /\ todo \in [Users -> SUBSET Channels]
  /\ uch \in [Users -> Channels] /\ n \in [Users -> 0 .. NStamp]
  /\ seenTail \in [Users -> Slots] /\ sig \in [Users -> BOOLEAN]
  /\ pulse \in [Users -> Calls] /\ pend \in [Users -> SUBSET {"count", "prevts", "delay"}]
  /\ issued \in Calls /\ given \in [Channels -> Seq(Nat)]
  /\ dropped \in [Channels -> BOOLEAN] /\ made \in [Calls -> Nat]

\* Readers are given the stamps of a channel in the order in which they were
\* taken, none twice, also when the ring overflows between two steps of a
\* reader; and all of them while the ring has not overflowed.  This needs
\* OneCpu: the handler publishes a slot before it fills it.
ReadInOrder ==
  \A c \in Channels :
    /\ \A i, j \in DOMAIN given[c] : i < j => given[c][i] < given[c][j]
    /\ ~dropped[c] => \A i \in DOMAIN given[c] : given[c][i] = i

\* "number of valid stamps": what is read was stored by the handler.
ReadsAreStamps ==
  \A c \in Channels : \A i \in DOMAIN given[c] : given[c][i] \in 1 .. taken[c]

\* A pulse is armed with the cycles and the seconds of one call: hw_lock keeps
\* the handler's programming and the ioctl's apart.
LatchedWhole ==
  \A c \in Channels : \A p, q \in armed[c] : p = q

\* "count of loops": a loop started by one CMD_PULSE has its setpoints
\* programmed no more often than it asked for, whatever other commands the
\* channels get, as long as no other loop is started on its channel.
NotLoopedTooOften ==
  \A m \in 1 .. issued :
    PulseCalls[m].kind = "loop" /\ PulseCalls[m].value > 0 => made[m] <= PulseCalls[m].value

\* "0 to turn off": a channel repeats for ever only if the last CMD_PULSE that
\* set its count asked for it.
ForeverIfAsked ==
  \A c \in Channels : count[c] < 0 =>
    \E m \in 1 .. issued : PulseCalls[m].ch = c /\ PulseCalls[m].value < 0

\* A reader that waits for a channel is woken when the channel gets a stamp.
WaiterWoken ==
  \A u \in Users :
    upc[u] = "sleep" /\ bhead[uch[u]] # btail[uch[u]] ~> upc[u] # "sleep"
=============================================================================
