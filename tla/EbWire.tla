------------------------------- MODULE EbWire -------------------------------
(***************************************************************************)
(* What eb_device_flush (format/master.c) makes of the operations of       *)
(* cycles, and what eb_device_slave (format/slave.c) makes of it at the    *)
(* other end: records, packets and streams, the virtual devices of         *)
(* glue/handler.c behind eb_socket_read/write, the error shift register,   *)
(* and the answers that eb_socket_write_config takes apart again.          *)
(*                                                                         *)
(* An address counts bytes.  Words on the wire are counted, not built: a   *)
(* record is the operations it stands for and the byte lanes it selects.   *)
(* The link (external) keeps the order of packets and may lose them.       *)
(* Responses that expire, and read-back addresses that wrap, are in        *)
(* EbSocket; a read-back address here is the cycle that claimed it.        *)
(***************************************************************************)
EXTENDS Integers, Sequences, FiniteSets, SequencesExt, Functions

CONSTANTS
  Cycles,        (* The cycles, numbered in the order they are closed.     *)
  OpSeqs(_),     (* The operations each of them may hold.                  *)
  Data, Addr,    (* Bytes of a word and of an address: the widths.         *)
  AddrTop,       (* The first address that has no room in Addr bytes.      *)
  StatBits,      (* Operations one status word reports: 8 * Data.          *)
  MaxCount,      (* Words of a kind in a record: 255 in the code.          *)
  Mtus,          (* Words that fit a packet; 0 is a stream.                *)
  SdbEnd,        (* 0x4000: reads below it are answered from the SDB.      *)
  Handlers       (* Virtual devices: [first, last, read, write].   *)

ASSUME WireAssumption ==
  /\ Cycles \subseteq Nat \ {0} /\ StatBits \in Nat \ {0} /\ MaxCount \in Nat \ {0, 1}
  /\ {Data, Addr} \subseteq {1, 2, 4, 8} /\ Mtus \subseteq Nat /\ {SdbEnd, AddrTop} \subseteq Nat

VARIABLES
  mtu,             (* Of the transport: in words, 0 for a stream.          *)
  cyc,             (* Cycle -> [ops, checked].                             *)
  \* eb_device_flush and its locals
  pc, todo, cur, pos, ops, readback, hasReads,
  noReads,         (* EB_HEADER_NR in the header of the buffer: it stays.  *)
  buf, cptr,       (* The records in the buffer; the first cptr of them    *)
                   (* are of finished cycles.                              *)
  \* The socket at this end
  responses, inbox, result, errs, status,
  \* The link, both ways; a link that was killed
  there, back, killed,
  \* eb_device_slave and its locals, and the socket at the other end
  inCall, records, error, reply, used, cycleEnd, cycleOpen, handlers,
  \* History: what the virtual bus did, and the cycles that ran to their end.
  bus, ran

flush  == <<pc, todo, cur, pos, ops, readback, hasReads, noReads, buf, cptr>>
socket == <<responses, inbox, result, errs, status>>
link   == <<there, back, killed>>
slave  == <<inCall, records, error, reply, used, cycleEnd, cycleOpen, handlers>>
vars   == <<mtu, cyc, flush, socket, link, slave, bus, ran>>

-----------------------------------------------------------------------------
(* Operations: [kind, cfg, addr, sizes, endian, wide].                     *)

\* The largest of a set of numbers, 0 when there is none.
Top(S) == IF S = {} THEN 0 ELSE CHOOSE x \in S : \A y \in S : y <= x

\* eb_width_refine(format & (data-1+data))
Size(o) == Top({s \in o.sizes : s <= Data})
Endian(o) == IF Size(o) = Data THEN "any" ELSE o.endian
Format(o) == <<Size(o), Endian(o)>>
Low(o) == o.addr % Data

\* Why an operation is refused.
Reason(o) ==
  CASE Size(o) = 0 -> "WIDTH"
    [] Size(o) # 0 /\ Endian(o) \in {"both", "none"} -> "ENDIAN"
    [] OTHER -> IF o.addr % Size(o) # 0 \/ o.addr >= (IF o.cfg THEN 65536 ELSE AddrTop)
                THEN "ADDRESS" ELSE IF o.kind = "write" /\ o.wide THEN "WIDTH" ELSE "OK"

OpsOf(c) == cyc[c].ops
BusOps(c) == SelectSeq(OpsOf(c), LAMBDA o : ~o.cfg)
\* The first such operation from position i on, 0 when there is none.
FindRead(c, i) == SelectInSubSeq(OpsOf(c), i, Len(OpsOf(c)), LAMBDA o : o.kind = "read")
FindBus(c, i) == SelectInSubSeq(OpsOf(c), i, Len(OpsOf(c)), LAMBDA o : ~o.cfg)

-----------------------------------------------------------------------------
(* The next record of cycle c, from operation p on, with n operations      *)
(* since the last status word.                                             *)

RecordWords == IF Data < 4 /\ Addr < 4 THEN 2 ELSE 1
HeaderWords == RecordWords

\* Whether one more operation can be reported.
Reportable(c, n) == cyc[c].checked => n < StatBits

\* The lengths of the runs of operations from p on that one record may hold.
Chains(c, p, n, kind) ==
  LET q == OpsOf(c) IN
  {k \in 1 .. Len(q) - p + 1 : k <= MaxCount /\ \A i \in 0 .. k - 1 :
     /\ q[p + i].kind = kind /\ q[p + i].cfg = q[p].cfg /\ Format(q[p + i]) = Format(q[p])
     /\ Reportable(c, IF q[p].cfg THEN n ELSE n + i)}
AddrIs(c, p, k, step) == \A i \in 0 .. k - 1 : OpsOf(c)[p + i].addr = OpsOf(c)[p].addr + i * step
\* Writes go to one address, or to addresses one word apart.
WriteRun(c, p, n) == Top({k \in Chains(c, p, n, "write") : AddrIs(c, p, k, 0) \/ AddrIs(c, p, k, Data)})
ReadRun(c, p, n) == Top({k \in Chains(c, p, n, "read") :
                           \A i \in 0 .. k - 1 : Low(OpsOf(c)[p + i]) = Low(OpsOf(c)[p])})
BusCount(c, p, k) == IF k > 0 /\ ~OpsOf(c)[p].cfg THEN k ELSE 0

\* The lanes of a word that hold an operation.
Lanes(o) == LET s == IF Endian(o) = "big" THEN Data - (Low(o) + Size(o)) ELSE Low(o)
            IN s .. s + Size(o) - 1

\* Reads follow writes in one record when they use the same lanes.
SameLanes(c, p, q) ==
  /\ Format(OpsOf(c)[p]) = Format(OpsOf(c)[q]) /\ Low(OpsOf(c)[p]) = Low(OpsOf(c)[q])

Record(c, p, n) ==
  LET q  == OpsOf(c)
      w  == WriteRun(c, p, n)
      n1 == n + BusCount(c, p, w)
      p1 == p + w
      r  == IF p1 > Len(q) \/ (w > 0 /\ ~SameLanes(c, p, p1)) THEN 0 ELSE ReadRun(c, p1, n1)
      n2 == n1 + BusCount(c, p1, r)
      first == IF w > 0 THEN p ELSE p1
      stat == /\ r = 0 /\ (w > 0 => Size(q[p]) = Data)
              /\ ~Reportable(c, n2) \/ (p1 > Len(q) /\ cyc[c].checked /\ n2 > 0)
  IN [c |-> c, next |-> p1 + r, ops |-> IF stat THEN 0 ELSE n2, stat |-> stat,
      end |-> p1 + r > Len(q) /\ (~cyc[c].checked \/ n2 = 0 \/ stat),
      lanes |-> IF w + r > 0 THEN Lanes(q[first]) ELSE 0 .. Data - 1,
      wcfg |-> w > 0 /\ q[p].cfg, rcfg |-> stat \/ (r > 0 /\ q[p1].cfg),
      fifo |-> w > 1 /\ AddrIs(c, p, w, 0),
      base |-> IF w > 0 THEN q[p].addr ELSE 0, wvals |-> [i \in 1 .. w |-> p + i - 1],
      raddrs |-> IF stat THEN <<8 - Data>> ELSE [i \in 1 .. r |-> q[p1 + i - 1].addr]]

RecWords(w, r) == RecordWords + (IF w > 0 THEN 1 + w ELSE 0) + (IF r > 0 THEN 1 + r ELSE 0)
WordsOf(rec) == RecWords(Len(rec.wvals), Len(rec.raddrs))
Fill(q) == FoldLeft(LAMBDA s, rec : s + WordsOf(rec), IF mtu = 0 THEN 0 ELSE HeaderWords, q)

Init ==
  /\ mtu \in Mtus
  /\ cyc \in [Cycles -> [ops : UNION {OpSeqs(c) : c \in Cycles}, checked : BOOLEAN]]
  /\ \A c \in Cycles : OpsOf(c) \in OpSeqs(c)
  /\ pc = "app" /\ todo = SetToSortSeq(Cycles, <) /\ cur = 0 /\ pos = 1 /\ ops = 0
  /\ readback = FALSE /\ hasReads = FALSE /\ noReads = FALSE /\ buf = <<>> /\ cptr = 0
  /\ responses = <<>> /\ inbox = <<>> /\ result = [c \in Cycles |-> <<>>]
  /\ errs = [c \in Cycles |-> {}] /\ status = [c \in Cycles |-> "none"]
  /\ there = <<>> /\ back = <<>> /\ killed = FALSE
  /\ inCall = FALSE /\ records = <<>> /\ error = <<>> /\ reply = <<>> /\ used = 0
  /\ cycleEnd = TRUE /\ cycleOpen = FALSE /\ handlers = {}
  /\ bus = <<>> /\ ran = <<>>

-----------------------------------------------------------------------------
(* eb_device_flush                                                         *)

\* The application closed the cycles up to some point and flushes the device.
FlushStart ==
  /\ pc = "app" /\ todo # <<>>
  /\ pc' = "cycle" /\ buf' = <<>> /\ cptr' = 0 /\ hasReads' = FALSE /\ noReads' = FALSE
  /\ UNCHANGED <<mtu, cyc, todo, cur, pos, ops, readback, socket, link, slave, bus, ran>>

\* An empty cycle is called back at once, one with a bad operation refused.
FlushCycle ==
  /\ pc = "cycle" /\ todo # <<>>
  /\ LET c == Head(todo)
         bad == SelectInSeq(OpsOf(c), LAMBDA o : Reason(o) # "OK")
     IN IF OpsOf(c) = <<>> \/ bad # 0
        THEN /\ status' = [status EXCEPT ![c] = IF bad = 0 THEN "OK" ELSE Reason(OpsOf(c)[bad])]
             /\ UNCHANGED <<pc, cur, pos, ops, readback>>
        ELSE /\ pc' = "record" /\ cur' = c /\ pos' = 1 /\ ops' = 0 /\ readback' = FALSE
             /\ UNCHANGED status
  /\ todo' = Tail(todo)
  /\ UNCHANGED <<mtu, cyc, hasReads, noReads, buf, cptr, responses, inbox, result, errs, link, slave, bus, ran>>

Fits == Fill(buf) + WordsOf(Record(cur, pos, ops)) <= mtu \/ mtu = 0

\* What leaves when a packet is full: the finished cycles.  What stays.
Spilled == cptr
Kept == SubSeq(buf, Spilled + 1, Len(buf))

\* No room: the finished cycles are sent, the records of this one move up.
FlushSpill ==
  /\ pc = "record" /\ ~Fits /\ cptr > 0
  /\ there' = Append(there, [recs |-> SubSeq(buf, 1, Spilled), nr |-> noReads \/ ~hasReads])
  /\ noReads' = (noReads \/ ~hasReads) /\ hasReads' = FALSE /\ buf' = Kept /\ cptr' = 0
  /\ UNCHANGED <<mtu, cyc, pc, todo, cur, pos, ops, readback, socket, back, killed, slave, bus, ran>>

\* A stream sends what it has at any record: its buffer may be full there.
StreamSpill ==
  /\ pc = "record" /\ mtu = 0 /\ buf # <<>>
  /\ there' = Append(there, [recs |-> buf, nr |-> FALSE])
  /\ buf' = <<>> /\ cptr' = 0
  /\ UNCHANGED <<mtu, cyc, pc, todo, cur, pos, ops, readback, hasReads, noReads, socket, back, killed, slave, bus, ran>>

\* Still no room: the cycle alone is too long.
FlushOverflow ==
  /\ pc = "record" /\ ~Fits /\ cptr = 0
  /\ status' = [status EXCEPT ![cur] = "OVERFLOW"]
  /\ buf' = <<>> /\ pc' = "cycle"
  /\ UNCHANGED <<mtu, cyc, todo, cur, pos, ops, readback, hasReads, noReads, cptr, responses, inbox, result, errs,
                 link, slave, bus, ran>>

\* The record is written; the last one of a cycle makes its response.
FlushRecord ==
  /\ pc = "record" /\ Fits
  /\ LET rec == Record(cur, pos, ops)
         reads == rec.raddrs # <<>>
     IN /\ buf' = Append(buf, rec) /\ pos' = rec.next /\ ops' = rec.ops
        /\ hasReads' = (hasReads \/ reads) /\ readback' = (readback \/ reads)
        /\ IF ~rec.end THEN UNCHANGED <<pc, cptr, responses, status>>
           ELSE /\ pc' = "cycle" /\ cptr' = Len(buf) + 1
                /\ IF readback \/ reads
                   THEN /\ responses' = Append(responses,
                             [c |-> cur, wcur |-> FindRead(cur, 1),
                              scur |-> IF cyc[cur].checked THEN FindBus(cur, 1) ELSE 0])
                        /\ UNCHANGED status
                   ELSE /\ status' = [status EXCEPT ![cur] = "OK"] /\ UNCHANGED responses
  /\ UNCHANGED <<mtu, cyc, todo, cur, noReads, inbox, result, errs, link, slave, bus, ran>>

FlushDone ==
  /\ pc = "cycle" /\ (todo = <<>> \/ Len(todo) < Cardinality(Cycles))
  /\ there' = IF buf = <<>> THEN there
              ELSE Append(there, [recs |-> buf, nr |-> mtu # 0 /\ (noReads \/ ~hasReads)])
  /\ pc' = "app" /\ buf' = <<>> /\ cptr' = 0
  /\ UNCHANGED <<mtu, cyc, todo, cur, pos, ops, readback, hasReads, noReads, socket, back, killed, slave, bus, ran>>

-----------------------------------------------------------------------------
(* The virtual bus: eb_socket_write, eb_socket_read and the handlers.      *)

\* eb_socket_attach: refuses what overlaps the SDB or another device.  It matters,
\* and is taken, only before a packet is polled.
Attach(h) ==
  /\ ~inCall /\ there # <<>> /\ h \notin handlers
  /\ handlers' = IF h.first < SdbEnd \/ \E g \in handlers : h.first <= g.last /\ g.first <= h.last
                 THEN handlers ELSE handlers \cup {h}
  /\ UNCHANGED <<mtu, cyc, flush, socket, link, inCall, records, error, reply, used, cycleEnd, cycleOpen, bus, ran>>

\* eb_socket_detach
Detach(h) ==
  /\ ~inCall /\ there # <<>> /\ h \in handlers /\ handlers' = handlers \ {h}
  /\ UNCHANGED <<mtu, cyc, flush, socket, link, inCall, records, error, reply, used, cycleEnd, cycleOpen, bus, ran>>

Found(b) == {h \in handlers : h.first <= b /\ b <= h.last}
\* The SDB is read only; nobody there, or a device without such a callback: an error.
WriteFails(b) == b < SdbEnd \/ ~\E h \in Found(b) : h.write
ReadFails(b) == b >= SdbEnd /\ ~\E h \in Found(b) : h.read

\* One access of kind, appended to the history s; a big-endian device is called with
\* address b, a little-endian one with l; val is what was written, or what is read.
Access(s, kind, b, l, size, w) ==
  LET fail == IF kind = "write" THEN WriteFails(b) ELSE ReadFails(b)
  IN Append(s, [kind |-> kind, size |-> size, fail |-> fail, b |-> b, l |-> l,
                val |-> IF kind = "write" THEN w ELSE IF fail THEN 0 ELSE Len(s) + 1])

\* The select byte: which operation its lanes mean, if any.
Shift(lanes) == CHOOSE x \in lanes : \A y \in lanes : x <= y
SelOk(lanes) ==
  LET width == Cardinality(lanes) IN
  /\ lanes # {} /\ lanes = Shift(lanes) .. Shift(lanes) + width - 1
  /\ width \in {1, 2, 4, 8} /\ Shift(lanes) % width = 0 /\ width <= Data /\ Shift(lanes) < Data
\* The low address bits of an operation, for a big-endian and a little-endian device.
BigLow(lanes) == Data - (Shift(lanes) + Cardinality(lanes))

\* A run of operations of one record on the bus: addresses as, values vs.
WordAt(a) == (a \div Data) * Data
Run(s, kind, rec, as, vs) ==
  FoldLeft(LAMBDA t, i : Access(t, kind, WordAt(as[i]) + BigLow(rec.lanes), WordAt(as[i]) + Shift(rec.lanes),
                                Cardinality(rec.lanes), vs[i]),
           s, [i \in 1 .. Len(as) |-> i])

-----------------------------------------------------------------------------
(* eb_device_slave at the other end                                        *)

\* Mutant: the register lags one operation behind.
StatusLate(e) == IF e = <<>> THEN e ELSE Front(e)
\* What eb_socket_read_config makes of the error register: its last bits.
Status(e) == SubSeq(e, Len(e) - (IF StatBits < Len(e) THEN StatBits ELSE Len(e)) + 1, Len(e))

\* poll and recv: a packet, or as much of the stream as has arrived.
Take(k) ==
  /\ k \in 1 .. Len(there) /\ (mtu # 0 => k = 1) /\ ~killed
  /\ records' = FlattenSeq([i \in 1 .. k |-> there[i].recs])
  /\ there' = SubSeq(there, k + 1, Len(there))
  /\ reply' = <<>> /\ used' = 0

SlavePoll(k) ==
  /\ ~inCall /\ Take(k)
  /\ inCall' = TRUE /\ error' = <<>> /\ cycleEnd' = TRUE /\ cycleOpen' = FALSE
  /\ UNCHANGED <<mtu, cyc, flush, socket, back, killed, handlers, bus, ran>>

\* An answer whose last record was written open is closed by an empty record.
Closes(open, end) == open /\ end

\* One record: its writes, then its reads, then perhaps the end of the answer.
SlaveRecord ==
  /\ inCall /\ records # <<>>
  /\ LET rec == Head(records)
         w == Len(rec.wvals)
         r == Len(rec.raddrs)
         was == [i \in 1 .. w |-> rec.base + IF rec.fifo THEN 0 ELSE (i - 1) * Data]
         busW == IF rec.wcfg \/ ~SelOk(rec.lanes) THEN bus ELSE Run(bus, "write", rec, was, rec.wvals)
         busR == IF rec.rcfg \/ ~SelOk(rec.lanes) THEN busW ELSE Run(busW, "read", rec, rec.raddrs, rec.raddrs)
         bad == IF SelOk(rec.lanes) THEN 0 ELSE (IF rec.wcfg THEN 0 ELSE w) + (IF rec.rcfg THEN 0 ELSE r)
         err == error \o [i \in 1 .. Len(busR) - Len(bus) |-> busR[Len(bus) + i].fail]
                      \o [i \in 1 .. bad |-> TRUE]
         open == IF r > 0 THEN ~rec.end ELSE cycleOpen
     IN /\ bus' = busR /\ error' = err
        /\ reply' = reply
             \o (IF r = 0 THEN <<>> ELSE <<[c |-> rec.c, stat |-> rec.stat, end |-> rec.end,
                    bits |-> IF rec.rcfg /\ rec.raddrs[1] < 8 THEN Status(err) ELSE <<>>,
                    vals |-> [i \in 1 .. r |-> IF rec.rcfg THEN 0 ELSE busR[Len(busW) + i].val]]>>)
             \o (IF Closes(open, rec.end) THEN <<[c |-> 0, stat |-> FALSE, end |-> TRUE, bits |-> <<>>, vals |-> <<>>]>>
                 ELSE <<>>)
        /\ used' = used + WordsOf(rec) /\ cycleEnd' = rec.end /\ cycleOpen' = open
        /\ ran' = IF rec.end THEN Append(ran, rec.c) ELSE ran
  /\ records' = Tail(records)
  /\ UNCHANGED <<mtu, cyc, flush, socket, link, inCall, handlers>>

Answer == back' = IF reply = <<>> THEN back ELSE Append(back, reply)

\* A packet must have ended its cycle, or the link is killed; a stream is waited for.
SlaveEnd ==
  /\ inCall /\ records = <<>> /\ (cycleEnd \/ mtu # 0)
  /\ Answer /\ inCall' = FALSE /\ reply' = <<>> /\ killed' = ~cycleEnd
  /\ UNCHANGED <<mtu, cyc, flush, socket, there, records, error, used, cycleEnd, cycleOpen, handlers, bus, ran>>

SlaveMore(k) ==
  /\ inCall /\ records = <<>> /\ ~cycleEnd /\ mtu = 0
  /\ Answer /\ Take(k)
  /\ UNCHANGED <<mtu, cyc, flush, socket, killed, inCall, error, cycleEnd, cycleOpen, handlers, bus, ran>>

-----------------------------------------------------------------------------
(* eb_device_slave at this end: it gets the answers as writes to its       *)
(* configuration space.                                                    *)

AnswerWords(rs) == FlattenSeq([i \in DOMAIN rs |->
  [j \in DOMAIN rs[i].vals |-> [c |-> rs[i].c, stat |-> rs[i].stat, val |-> rs[i].vals[j], bits |-> rs[i].bits]]])

MasterPoll ==
  /\ pc = "app" /\ inbox = <<>> /\ back # <<>> /\ ~killed
  /\ inbox' = AnswerWords(Head(back)) /\ back' = Tail(back)
  /\ killed' = (mtu # 0 /\ ~Last(Head(back)).end)
  /\ UNCHANGED <<mtu, cyc, flush, responses, result, errs, status, there, slave, bus, ran>>

\* The bus operations from i on that one status word reports, oldest first.
Reported(c, i) ==
  LET later == SelectSeq([j \in 1 .. Len(OpsOf(c)) |-> j], LAMBDA j : j >= i /\ ~OpsOf(c)[j].cfg)
  IN SubSeq(later, 1, IF Len(later) < StatBits THEN Len(later) ELSE StatBits)

\* eb_socket_write_config
WriteConfig ==
  /\ inbox # <<>> /\ pc = "app"
  /\ inbox' = Tail(inbox)
  /\ LET word == Head(inbox)
         at == SelectInSeq(responses, LAMBDA r : r.c = word.c)
     IN IF at = 0 THEN UNCHANGED <<responses, result, errs, status>>
        ELSE LET rsp == responses[at]
                 c == word.c
                 rep == IF rsp.scur = 0 THEN <<>> ELSE Reported(c, rsp.scur)
                 n == Len(rep)
                 \* Bit n - k is of the k-th reported operation.
                 marked == {rep[k] : k \in {k \in 1 .. n :
                              LET j == Len(word.bits) - (n - k) IN j >= 1 /\ word.bits[j]}}
                 fail == IF word.stat THEN n = 0 ELSE rsp.wcur = 0
                 next == IF word.stat THEN [rsp EXCEPT !.scur = IF n = 0 THEN 0 ELSE FindBus(c, rep[n] + 1)]
                         ELSE [rsp EXCEPT !.wcur = FindRead(c, rsp.wcur + 1)]
                 done == fail \/ (next.wcur = 0 /\ next.scur = 0)
             IN /\ result' = IF fail \/ word.stat THEN result
                             ELSE [result EXCEPT ![c] = Append(@, word.val)]
                /\ errs' = IF fail \/ ~word.stat THEN errs ELSE [errs EXCEPT ![c] = @ \cup marked]
                /\ responses' = IF done THEN RemoveAt(responses, at) ELSE [responses EXCEPT ![at] = next]
                /\ status' = IF ~done THEN status
                             ELSE [status EXCEPT ![c] = IF fail THEN "FAIL"
                                                        ELSE IF errs'[c] # {} THEN "SEGFAULT" ELSE "OK"]
  /\ UNCHANGED <<mtu, cyc, flush, link, slave, bus, ran>>

\* The link loses a packet, but no part of a stream.
Lose ==
  /\ mtu # 0 /\ UNCHANGED <<mtu, cyc, flush, socket, killed, slave, bus, ran>>
  /\ \/ there # <<>> /\ there' = Tail(there) /\ UNCHANGED back
     \/ back # <<>> /\ back' = Tail(back) /\ UNCHANGED there

Next ==
  \/ FlushStart \/ FlushCycle \/ FlushSpill \/ StreamSpill \/ FlushOverflow \/ FlushRecord \/ FlushDone
  \/ MasterPoll \/ WriteConfig \/ Lose
  \/ SlaveRecord \/ SlaveEnd
  \/ \E k \in 1 .. Len(there) : SlavePoll(k) \/ SlaveMore(k)
  \/ \E h \in Handlers : Attach(h) \/ Detach(h)

Spec == Init /\ [][Next]_vars

-----------------------------------------------------------------------------
(* Properties                                                              *)

\* Positions, records and history have their types, a response waits for
\* operations of its cycle, and there is one response for a cycle.
TypeOK ==
  /\ pc \in {"app", "cycle", "record"} /\ cur \in Cycles \cup {0} /\ cptr \in 0 .. Len(buf)
  /\ pc = "record" => pos \in 1 .. Len(OpsOf(cur)) + 1
  /\ cyc[1].checked \in BOOLEAN /\ Range(ran) \subseteq Cycles /\ handlers \subseteq Handlers
  /\ \A i, j \in DOMAIN responses : responses[i].c = responses[j].c => i = j
  /\ \A i \in DOMAIN responses : LET r == responses[i] IN
       /\ r.wcur \in 0 .. Len(OpsOf(r.c)) /\ r.scur \in 0 .. Len(OpsOf(r.c))
       /\ r.wcur + r.scur > 0 /\ status[r.c] = "none"
  /\ \A c \in Cycles : Len(result[c]) <= Len(OpsOf(c))

\* What the bus should see of operation o: its own address, if the device has
\* the byte order the operation was for.
Matches(e, o) ==
  /\ e.kind = o.kind /\ e.size = Size(o)
  /\ Endian(o) \in {"big", "any"} => e.b = o.addr
  /\ Endian(o) \in {"little", "any"} => e.l = o.addr

\* The bus operations of the cycles that ran, in order.
Wanted == FlattenSeq([i \in DOMAIN ran |-> BusOps(ran[i])])


\* The answer to a cycle that ran: the words it read, and the operations whose
\* access failed.
First(c) == LET k == SelectInSeq(ran, LAMBDA d : d = c)
            IN Len(FlattenSeq([i \in 1 .. k - 1 |-> BusOps(ran[i])]))
Nth(c, i) == First(c) + Len(SelectSeq(SubSeq(OpsOf(c), 1, i), LAMBDA o : ~o.cfg))
Failed(c) == {i \in DOMAIN OpsOf(c) : ~OpsOf(c)[i].cfg /\ bus[Nth(c, i)].fail}
ReadAt(c, k) == SelectSeq([i \in DOMAIN OpsOf(c) |-> i], LAMBDA i : OpsOf(c)[i].kind = "read")[k]

\* A cycle that is called back with an answer got, for each of its reads, the
\* word that the device gave to that very read, and, if it was closed with
\* eb_cycle_close, has exactly its failed operations marked and says SEGFAULT
\* when there are any (readwrite.c:88-125 against slave.c:338-403).
AnsweredRight ==
  \A c \in Cycles : status[c] \in {"OK", "SEGFAULT"} /\ c \in Range(ran) =>
    /\ \A k \in DOMAIN result[c] : LET i == ReadAt(c, k) IN
         ~OpsOf(c)[i].cfg => result[c][k] = bus[Nth(c, i)].val
    /\ Len(result[c]) = Len(SelectSeq(OpsOf(c), LAMBDA o : o.kind = "read"))
    /\ errs[c] = IF cyc[c].checked THEN Failed(c) ELSE {}
    /\ status[c] = "SEGFAULT" <=> errs[c] # {}

\* slave.c:358, "Impossible to run out of space": the answer is written over the
\* request, and never further than the request was read.
ReplyFits ==
  FoldLeft(LAMBDA s, r : s + RecWords(Len(r.vals), 0), 0, reply) <= used

\* A cycle is refused for its length only if it would not fit into a packet of
\* its own (master.c:414-425), whatever was in the buffer before it.
Needed(c) ==
  LET step[p \in 1 .. Len(OpsOf(c)) + 1, n \in 0 .. Len(OpsOf(c))] ==
        LET rec == Record(c, p, n)
        IN WordsOf(rec) + IF rec.end THEN 0 ELSE step[rec.next, rec.ops]
  IN HeaderWords + step[1, 0]
OverflowIsTrue == \A c \in Cycles : status[c] = "OVERFLOW" => Needed(c) > mtu


\* master.c:400 and :429, "If we've sent no reads, toggle the header", "If we have
\* reads, we don't promise none!": a packet that says it has no reads has none.
NoReadsPromised ==
  \A i \in DOMAIN there : there[i].nr => \A r \in Range(there[i].recs) : r.raddrs = <<>>
=============================================================================
