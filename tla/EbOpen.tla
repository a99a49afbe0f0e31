------------------------------- MODULE EbOpen -------------------------------
(***************************************************************************)
(* Etherbone nodes that open and close sockets and devices: the pool of    *)
(* memory/array.c, the transports of a socket, eb_device_open with its     *)
(* probes and retries, links that eb_socket_check accepts, the part of     *)
(* eb_device_slave (format/slave.c) that negotiates widths, and what is    *)
(* given back when any of it fails.                                        *)
(*                                                                         *)
(* A set of widths is [data, addr], each a set of bytes.  An item of the   *)
(* pool is its index, which is also the tag of a probe.  What the packets  *)
(* after the negotiation hold is in EbWire, and when cycles are called     *)
(* back in EbSocket.  The kernel's side of a network connection, a serial  *)
(* line and the datagrams in the network are external.                     *)
(***************************************************************************)
EXTENDS Integers, Sequences, FiniteSets, SequencesExt, Selection

CONSTANTS
  Nodes,           (* Processes that use the library.                      *)
  PoolSizes(_),    (* Node -> sizes the pool may grow to.                  *)
  Widths,          (* Node -> supported_widths of its socket.              *)
  Ports,           (* The nodes that open their sockets with a port.       *)
  Kinds,           (* eb_transports: the kinds that are built, in order.   *)
  Opens(_),        (* Node -> devices its program opens:                   *)
                   (* [kind, to, widths, attempts, passive].               *)
  MaxSockets(_),   (* Bounds: calls of eb_socket_open by a node, and of    *)
  MaxOpens         (* eb_device_open and eb_socket_passive by all.         *)

AllKinds == {"dev", "udp", "tcp", "tunnel"}
\* 8, 16, 32 and 64 bits
Sizes == {1, 2, 4, 8}
WidthSet == [data : SUBSET Sizes, addr : SUBSET Sizes]
\* Which ends of a connection are open is a set of nodes: no node is both ends of one.
ASSUME OpenAssumption ==
  /\ IsFiniteSet(Nodes) /\ Widths \in [Nodes -> WidthSet]
  /\ \A n \in Nodes : /\ PoolSizes(n) \subseteq Nat /\ MaxSockets(n) \in Nat
                      /\ Opens(n) \subseteq [kind : AllKinds, to : Nodes \ {n}, widths : WidthSet,
                                           attempts : Nat, passive : BOOLEAN]
  /\ MaxOpens \in Nat /\ Kinds \in Seq(AllKinds)

VARIABLES
  mem,      (* Node -> [free, heap]: the free list and the items.          *)
  sock,     (* Node -> [self, aux, trans, devs], self = 0 when closed.     *)
  app,      (* Node -> what its program does: [pc, dev, want, tries].      *)
  chk,      (* Node -> eb_socket_check: [pc, link, todo, at, next].        *)
  udp,      (* Datagrams that the network may still deliver.               *)
  conns,    (* Connections and serial lines: [kind, by, to, ends, in, q].  *)
  sockets, opens, (* How often eb_socket_open and eb_device_open ran.      *)
  stray     (* History: an answer reached a device that did not ask.       *)

count == <<sockets, opens, stray>>
vars == <<mem, sock, app, chk, udp, conns, count>>

-----------------------------------------------------------------------------
(* glue/widths.c                                                           *)

None == [data |-> {}, addr |-> {}]
Largest(S) == {x \in S : \A y \in S : y <= x}
Meet(v, w) == [data |-> v.data \cap w.data, addr |-> v.addr \cap w.addr]
\* eb_width_possible, eb_width_refined, eb_width_refine
Possible(w) == w.data # {} /\ w.addr # {}
Refined(w) == Cardinality(w.data) = 1 /\ Cardinality(w.addr) = 1
Refine(w) == [data |-> Largest(w.data), addr |-> Largest(w.addr)]

-----------------------------------------------------------------------------
(* memory/array.c                                                          *)

Unused == [is |-> "free"]
Full(m) == m.free = <<>>
Fresh(m) == Head(m.free)
New(m, x) == [free |-> Tail(m.free), heap |-> [m.heap EXCEPT ![Fresh(m)] = x]]
\* One after the other: the last is the first to be used again.
FreeAll(m, s) == [free |-> Reverse(s) \o m.free,
                  heap |-> [i \in DOMAIN m.heap |-> IF i \in Range(s) THEN Unused ELSE m.heap[i]]]
Free(m, i) == FreeAll(m, <<i>>)

Link(c) == [is |-> "link", conn |-> c]
Item(n, i) == mem[n].heap[i]

Closed == [self |-> 0, aux |-> 0, trans |-> <<>>, devs |-> <<>>]
Idle == [pc |-> "idle", dev |-> 0, want |-> None, tries |-> 0]
NoCheck == [pc |-> "no", link |-> 0, todo |-> <<>>, at |-> 0, next |-> 0]
StartCheck == [NoCheck EXCEPT !.pc = "start"]

Init ==
  /\ \E size \in [Nodes -> UNION {PoolSizes(n) : n \in Nodes}] :
       /\ \A n \in Nodes : size[n] \in PoolSizes(n)
       /\ mem = [n \in Nodes |-> [free |-> [i \in 1 .. size[n] |-> i], heap |-> [i \in 1 .. size[n] |-> Unused]]]
  /\ sock = [n \in Nodes |-> Closed] /\ app = [n \in Nodes |-> Idle] /\ chk = [n \in Nodes |-> NoCheck]
  /\ udp = {} /\ sockets = [n \in Nodes |-> 0] /\ opens = 0 /\ stray = FALSE
  \* One serial line between each two nodes, opened by nobody.
  /\ \E pairs \in {SetToSeq({p \in SUBSET Nodes : Cardinality(p) = 2})} :
       conns = [k \in DOMAIN pairs |-> LET a == CHOOSE a \in pairs[k] : TRUE IN
                  [kind |-> "dev", by |-> a, to |-> CHOOSE b \in pairs[k] : b # a, ends |-> {}, in |-> TRUE,
                   q |-> [n \in Nodes |-> <<>>]]]

-----------------------------------------------------------------------------
(* Transports                                                              *)

Stream(kind) == kind \in {"dev", "tcp"}
\* What open may return: udp, and tcp with a port, bind sockets, which may fail.
UdpResults == {"OK", "BUSY"}
TcpResults(n) == IF n \in Ports THEN {"OK", "BUSY", "ADDRESS"} ELSE {"OK"}
OpenResults(kind, n) == CASE kind = "udp" -> UdpResults [] kind = "tcp" -> TcpResults(n) [] OTHER -> {"OK"}
Has(n, kind) == \E t \in Range(sock[n].trans) : Item(n, t).kind = kind
Other(c, n) == IF c.by = n THEN c.to ELSE c.by

\* posix-tcp.c's connect: the kernel of a listening node takes the connection.
TcpUp(n, o) == o.to \in Ports /\ sock[o.to].self # 0 /\ Has(o.to, "tcp")
NewConn(n, o) == Append(conns, [kind |-> "tcp", by |-> n, to |-> o.to, ends |-> {n}, in |-> FALSE,
                                q |-> [m \in Nodes |-> <<>>]])
\* posix-tcp.c's accept
Arrived(n, k) == conns[k].to = n /\ ~conns[k].in
\* dev.c: an active user discards what the last one left unread.
Wire(n, o) == CHOOSE k \in DOMAIN conns : conns[k].kind = "dev" /\ {conns[k].by, conns[k].to} = {n, o.to}
OpenWire(n, o) == [conns EXCEPT ![Wire(n, o)].ends = @ \cup {n},
                                ![Wire(n, o)].q[n] = IF o.passive THEN @ ELSE <<>>]
\* disconnect
Shut(cs, n, k) == IF k = 0 THEN cs ELSE [cs EXCEPT ![k].ends = @ \ {n}]
\* send; nothing arrives where nobody will ever read.
Put(cs, n, k, msg) == [cs EXCEPT ![k].q[Other(cs[k], n)] = Append(@, msg)]

Probe(w, tag) == [t |-> "probe", w |-> w, tag |-> tag]
Resp(w, tag) == [t |-> "resp", w |-> w, tag |-> tag]
Datagram(a, b, msg) == [from |-> a, to |-> b, msg |-> msg]

-----------------------------------------------------------------------------
(* Sockets                                                                 *)

\* The loop of eb_socket_open over eb_transports, with what their open returns.
\* What one more of them does to [m, trans, status].
OpenTransport(s, kind, r) ==
  IF s.status # "OK" \/ (~Full(s.m) /\ r = "ADDRESS") THEN s
  ELSE IF Full(s.m) \/ r # "OK" THEN [s EXCEPT !.status = IF Full(s.m) THEN "OOM" ELSE r]
  ELSE [m |-> New(s.m, [is |-> "transport", kind |-> kind]), trans |-> <<Fresh(s.m)>> \o s.trans, status |-> "OK"]
OpenTransports(m, res) ==
  LET after[i \in 0 .. Len(Kinds)] == IF i = 0 THEN [m |-> m, trans |-> <<>>, status |-> "OK"]
                                      ELSE OpenTransport(after[i - 1], Kinds[i], res[i])
  IN after[Len(Kinds)]

\* eb_socket_close, once there are no devices.
CloseAll(m, s) == FreeAll(m, s.trans \o <<s.self, s.aux>>)

SocketOpen(n) ==
  /\ sock[n].self = 0 /\ app[n].pc = "idle" /\ sockets[n] < MaxSockets(n)
  /\ sockets' = [sockets EXCEPT ![n] = @ + 1]
  /\ IF ~Possible(Widths[n]) \/ Len(mem[n].free) < 2
     THEN UNCHANGED <<mem, sock, chk>>
     ELSE \E res \in [DOMAIN Kinds -> {"OK", "BUSY", "ADDRESS"}] :
            /\ \A i \in DOMAIN Kinds : res[i] \in OpenResults(Kinds[i], n)
            /\ LET self == Fresh(mem[n])
                   m1 == New(mem[n], [is |-> "socket"])
                   m2 == New(m1, [is |-> "aux"])
                   all == OpenTransports(m2, res)
                   new == [self |-> self, aux |-> Fresh(m1), trans |-> all.trans, devs |-> <<>>]
               IN IF all.status = "OK"
                  THEN /\ mem' = [mem EXCEPT ![n] = all.m] /\ sock' = [sock EXCEPT ![n] = new]
                       /\ chk' = [chk EXCEPT ![n] = StartCheck]
                  ELSE mem' = [mem EXCEPT ![n] = CloseAll(all.m, new)] /\ UNCHANGED <<sock, chk>>
  /\ UNCHANGED <<app, udp, conns, opens, stray>>

Ready(n) == sock[n].self # 0 /\ app[n].pc = "idle" /\ chk[n].pc = "no"

SocketClose(n) ==
  /\ Ready(n) /\ sock[n].devs = <<>>
  /\ mem' = [mem EXCEPT ![n] = CloseAll(mem[n], sock[n])] /\ sock' = [sock EXCEPT ![n] = Closed]
  \* What waited to be accepted is refused.
  /\ conns' = [k \in DOMAIN conns |-> IF Arrived(n, k) THEN [conns[k] EXCEPT !.in = TRUE]
                                      ELSE conns[k]]
  /\ UNCHANGED <<app, chk, udp, count>>

\* The program ends at any point, and the kernel closes what it had open.
Exit(n) ==
  /\ sock[n].self # 0 /\ sockets[n] < MaxSockets(n)
  /\ mem' = [mem EXCEPT ![n] = [free |-> [i \in DOMAIN @.heap |-> i], heap |-> [i \in DOMAIN @.heap |-> Unused]]]
  /\ sock' = [sock EXCEPT ![n] = Closed] /\ app' = [app EXCEPT ![n] = Idle] /\ chk' = [chk EXCEPT ![n] = NoCheck]
  /\ conns' = [k \in DOMAIN conns |-> [conns[k] EXCEPT !.ends = @ \ {n}, !.in = @ \/ conns[k].to = n]]
  /\ UNCHANGED <<udp, count>>

-----------------------------------------------------------------------------
(* Devices                                                                 *)

Device(o, link, passive, widths) ==
  [is |-> "device", link |-> link, passive |-> passive, widths |-> widths, kind |-> o.kind, to |-> o.to]

Without(s, d) == Select(s, {k \in DOMAIN s : s[k] # d})
\* eb_device_close: the device leaves the list, its link is disconnected and freed.
\* Mutant: the link stays allocated.
CloseDevMemKeep(m, d) == Free(m, d)
CloseDevMem(m, d) == IF m.heap[d].link = 0 THEN Free(m, d) ELSE FreeAll(m, <<m.heap[d].link, d>>)
ConnOf(n, d) == IF Item(n, d).link = 0 THEN 0 ELSE Item(n, Item(n, d).link).conn
CloseDev(n, d) ==
  /\ mem' = [mem EXCEPT ![n] = CloseDevMem(mem[n], d)]
  /\ sock' = [sock EXCEPT ![n].devs = Without(@, d)]
  /\ conns' = Shut(conns, n, ConnOf(n, d))

\* The request asks for widths, a transport or a line that cannot be had, or there is
\* no memory: what was taken is given back.
Refused(n, o) ==
  \/ Len(mem[n].free) < 2
  \/ ~o.passive /\ ~Possible(Meet(o.widths, Widths[n]))
  \/ ~Has(n, o.kind)
  \/ o.kind = "tcp" /\ ~TcpUp(n, o)
  \/ ~o.passive /\ o.attempts = 0 /\ ~Stream(o.kind) /\ ~Refined(Meet(o.widths, Widths[n]))

\* eb_device_open up to its first probe, eb_socket_passive.
DeviceOpen(n, o) ==
  /\ Ready(n) /\ opens < MaxOpens /\ opens' = opens + 1
  /\ o.kind = "dev" => n \notin conns[Wire(n, o)].ends
  /\ IF Refused(n, o) THEN UNCHANGED <<mem, sock, app, udp, conns>>
     ELSE LET d == Fresh(mem[n])
              l == mem[n].free[2]
              want == Meet(o.widths, Widths[n])
              k == IF o.kind = "dev" THEN Wire(n, o) ELSE IF o.kind = "tcp" THEN Len(conns) + 1 ELSE 0
              cs == IF o.kind = "dev" THEN OpenWire(n, o) ELSE IF o.kind = "tcp" THEN NewConn(n, o) ELSE conns
              tries == IF Stream(o.kind) THEN 1 ELSE o.attempts
              probed == ~o.passive /\ tries # 0
          IN /\ mem' = [mem EXCEPT ![n] = New(New(mem[n],
                          Device(o, l, o.passive, IF o.passive \/ probed THEN None ELSE want)), Link(k))]
             /\ sock' = [sock EXCEPT ![n].devs = <<d>> \o @]
             /\ app' = IF probed THEN [app EXCEPT ![n] = [pc |-> "probe", dev |-> d, want |-> want, tries |-> tries]]
                       ELSE app
             /\ conns' = IF probed /\ Stream(o.kind) THEN Put(cs, n, k, Probe(want, d)) ELSE cs
             /\ udp' = IF probed /\ ~Stream(o.kind) THEN udp \cup {Datagram(n, o.to, Probe(want, d))} ELSE udp
  /\ UNCHANGED <<chk, sockets, stray>>

\* The loop of eb_device_open, when eb_socket_run has returned.
Probing(n) == app[n].pc = "probe" /\ chk[n].pc = "no"
Answered(n) == Item(n, app[n].dev).widths # None \/ Item(n, app[n].dev).link = 0

\* An answer, or a broken link.
OpenDone(n) ==
  /\ Probing(n) /\ Answered(n)
  /\ LET d == app[n].dev
         w == Meet(Item(n, d).widths, app[n].want)
     IN IF Item(n, d).link = 0 \/ ~Possible(w) THEN CloseDev(n, d)
        ELSE mem' = [mem EXCEPT ![n].heap[d].widths = Refine(w)] /\ UNCHANGED <<sock, conns>>
  /\ app' = [app EXCEPT ![n] = Idle]
  /\ UNCHANGED <<chk, udp, count>>

\* Mutant: attempts are not counted down.
NextTryNot(tries) == tries
NextTry(tries) == tries - 1

\* Three seconds without an answer: another probe, or the end.
OpenExpire(n) ==
  /\ Probing(n) /\ ~Answered(n)
  /\ LET d == app[n].dev
     IN IF NextTry(app[n].tries) = 0 THEN CloseDev(n, d) /\ app' = [app EXCEPT ![n] = Idle] /\ UNCHANGED udp
        ELSE /\ app' = [app EXCEPT ![n].tries = NextTry(@)]
             /\ udp' = udp \cup {Datagram(n, Item(n, d).to, Probe(app[n].want, d))}
             /\ UNCHANGED <<mem, sock, conns>>
  /\ UNCHANGED <<chk, count>>

\* eb_device_close by the program.
DeviceClose(n, d) ==
  /\ Ready(n) /\ d \in Range(sock[n].devs) /\ ~Item(n, d).passive
  /\ CloseDev(n, d)
  /\ UNCHANGED <<app, chk, udp, count>>

-----------------------------------------------------------------------------
(* eb_socket_check                                                         *)

First(s) == IF s = <<>> THEN 0 ELSE Head(s)
After(s, d) == {s[k + 1] : k \in {k \in 1 .. Len(s) - 1 : s[k] = d}}
NextDev(n, d) == LET next == After(sock[n].devs, d) IN IF next = {} THEN 0 ELSE CHOOSE e \in next : TRUE
\* The device to look at, with the one after it.
Visit(n, d) == [chk[n] EXCEPT !.pc = "devices", !.todo = <<>>, !.at = d, !.next = NextDev(n, d)]

\* The transports that accept connections or receive at top level; the others do neither.
Polled(n) == LET s == sock[n].trans IN Select(s, {k \in DOMAIN s : Item(n, s[k]).kind \in {"udp", "tcp"}})

CheckStart(n) ==
  /\ sock[n].self # 0
  /\ \/ chk[n].pc = "start"
     \/ chk[n].pc = "no" /\ (Probing(n) => ~Answered(n))
  /\ chk' = [chk EXCEPT ![n] = [NoCheck EXCEPT !.pc = "transports", !.todo = Polled(n),
                                  !.link = IF Full(mem[n]) THEN 0 ELSE Fresh(mem[n])]]
  /\ mem' = IF Full(mem[n]) THEN mem ELSE [mem EXCEPT ![n] = New(@, Link(0))]
  /\ UNCHANGED <<sock, app, udp, conns, count>>

At(n, kind) == chk[n].pc = "transports" /\ chk[n].todo # <<>> /\ Item(n, Head(chk[n].todo)).kind = kind

\* eb_device_new_slave keeps the accepted link and returns another one to accept with.
Accept(n, k) ==
  /\ At(n, "tcp") /\ chk[n].link # 0
  /\ Arrived(n, k)
  /\ IF Len(mem[n].free) < 2
     THEN conns' = [conns EXCEPT ![k].in = TRUE] /\ UNCHANGED <<mem, sock, chk>>
     ELSE LET d == Fresh(mem[n])
              dev == Device([kind |-> "tcp", to |-> conns[k].by], chk[n].link, TRUE, None)
          IN /\ mem' = [mem EXCEPT ![n] = New(New([@ EXCEPT !.heap[chk[n].link] = Link(k)], dev), Link(0))]
             /\ chk' = [chk EXCEPT ![n].link = mem[n].free[2]]
             /\ sock' = [sock EXCEPT ![n].devs = <<d>> \o @]
             /\ conns' = [conns EXCEPT ![k].in = TRUE, ![k].ends = @ \cup {n}]
  /\ UNCHANGED <<app, udp, count>>

\* posix-udp.c's poll
Received(n) == {p \in udp : p.to = n}
Tagged(n, tag) == {d \in Range(sock[n].devs) : d = tag}
AskedFor(n, d, p) == app[n].dev = d /\ Item(n, d).kind = "udp" /\ Item(n, d).to = p.from
NextTransport(n) == [chk EXCEPT ![n].todo = Tail(@)]

\* A datagram, which may be delivered again: a probe is answered, an answer to a probe
\* goes to the device that has its tag, whoever sent it.
TopLevel(n, p, again) ==
  /\ At(n, "udp") /\ p \in Received(n)
  /\ LET rest == IF again THEN udp ELSE udp \ {p}
     IN \/ /\ p.msg.t = "probe"
           /\ udp' = rest \cup {Datagram(n, p.from, Resp(Widths[n], p.msg.tag))}
           /\ chk' = IF Possible(Refine(Meet(p.msg.w, Widths[n]))) THEN chk ELSE NextTransport(n)
           /\ UNCHANGED <<mem, stray>>
        \/ /\ p.msg.t = "resp"
           /\ udp' = rest /\ chk' = NextTransport(n)
           /\ stray' = (stray \/ \E d \in Tagged(n, p.msg.tag) : ~AskedFor(n, d, p))
           /\ mem' = [mem EXCEPT ![n].heap =
                [i \in DOMAIN @ |-> IF i \in Tagged(n, p.msg.tag) THEN [@[i] EXCEPT !.widths = p.msg.w] ELSE @[i]]]
  /\ UNCHANGED <<sock, app, conns, sockets, opens>>

\* Nothing more that is ready; after the transports, the devices.
CheckNext(n) ==
  /\ chk[n].pc = "transports"
  /\ chk' = IF chk[n].todo = <<>> THEN [chk EXCEPT ![n] = Visit(n, First(sock[n].devs))] ELSE NextTransport(n)
  /\ UNCHANGED <<mem, sock, app, udp, conns, count>>

\* The device at hand, its connection, and what can be read from it.
Here(n) == chk[n].at
Conn(n) == ConnOf(n, Here(n))
Visiting(n) == chk[n].pc = "devices" /\ Here(n) # 0
Input(n) == conns[Conn(n)].q[n]
Eof(n) == /\ conns[Conn(n)].kind = "tcp" /\ Input(n) = <<>>
          /\ conns[Conn(n)].in /\ Other(conns[Conn(n)], n) \notin conns[Conn(n)].ends

MoveOn(n) == [chk EXCEPT ![n] = Visit(n, chk[n].next)]

\* "kill": a passive device is closed, an active one loses its link.
Kill(n, cs) ==
  LET d == Here(n)
  IN /\ IF Item(n, d).passive
        THEN /\ mem' = [mem EXCEPT ![n] = CloseDevMem(@, d)]
             /\ sock' = [sock EXCEPT ![n].devs = Without(@, d)]
        ELSE mem' = [mem EXCEPT ![n] = Free([@ EXCEPT !.heap[d].link = 0], Item(n, d).link)] /\ UNCHANGED sock
     /\ conns' = Shut(cs, n, Conn(n))
     /\ chk' = MoveOn(n)

\* Mutant: a passive device takes the widths of the other end.
NegotiatedNot(n, w) == Refine(w)
\* What a passive device makes of a probe.
Negotiated(n, w) == Refine(Meet(w, Widths[n]))

\* eb_device_slave on a stream that still expects a header: a probe, or its answer, which
\* on a serial line may be that to a device closed long ago, whose tag another one has.
LinkHeader(n) ==
  /\ Visiting(n) /\ Conn(n) # 0 /\ Input(n) # <<>> /\ Item(n, Here(n)).widths = None
  /\ LET d == Here(n)
         msg == Head(Input(n))
         cs == [conns EXCEPT ![Conn(n)].q[n] = Tail(@)]
         answered == Put(cs, n, Conn(n), Resp(Widths[n], msg.tag))
         w == Negotiated(n, msg.w)
         late == msg.t = "resp" /\ ~Item(n, d).passive /\ ~(Tagged(n, msg.tag) \subseteq {app[n].dev})
     IN /\ stray' = (stray \/ late)
        /\ CASE msg.t = "probe" /\ Item(n, d).passive /\ Possible(w) ->
                  /\ mem' = [mem EXCEPT ![n].heap[d].widths = w] /\ conns' = answered /\ UNCHANGED <<sock, chk>>
             [] msg.t = "probe" /\ Item(n, d).passive /\ ~Possible(w) -> Kill(n, answered)
             [] msg.t = "resp" /\ ~Item(n, d).passive /\ Tagged(n, msg.tag) # {} ->
                  /\ mem' = [mem EXCEPT ![n].heap[msg.tag].widths = msg.w]
                  /\ conns' = cs /\ chk' = MoveOn(n) /\ UNCHANGED sock
             [] OTHER -> Kill(n, cs)
  /\ UNCHANGED <<app, udp, sockets, opens>>

\* With widths known the bytes are records; the pieces of a handshake are not, and
\* what is made of them is anything.
LinkRecords(n) ==
  /\ Visiting(n) /\ Conn(n) # 0 /\ Input(n) # <<>> /\ Item(n, Here(n)).widths # None
  /\ LET cs == [conns EXCEPT ![Conn(n)].q[n] = Tail(@)]
     IN \/ conns' = cs /\ UNCHANGED <<mem, sock, chk>>
        \/ Head(Input(n)).t # "data" /\ Kill(n, cs)
  /\ UNCHANGED <<app, udp, count>>

LinkEof(n) ==
  /\ Visiting(n) /\ Conn(n) # 0 /\ Eof(n)
  /\ Kill(n, conns)
  /\ UNCHANGED <<app, udp, count>>

\* Nothing is ready; an active device is flushed, which sends what its user has queued.
DeviceNext(n, sends) ==
  /\ Visiting(n)
  /\ LET dev == Item(n, Here(n))
     IN /\ sends => /\ ~dev.passive /\ Conn(n) # 0 /\ app[n].dev # Here(n)
                    /\ conns[Conn(n)].q[Other(conns[Conn(n)], n)] = <<>>
        /\ conns' = IF sends THEN Put(conns, n, Conn(n), [t |-> "data", w |-> dev.widths, tag |-> 0]) ELSE conns
  /\ chk' = MoveOn(n)
  /\ UNCHANGED <<mem, sock, app, udp, count>>

CheckEnd(n) ==
  /\ chk[n].pc = "devices" /\ Here(n) = 0
  /\ mem' = IF chk[n].link = 0 THEN mem ELSE [mem EXCEPT ![n] = Free(@, chk[n].link)]
  /\ chk' = [chk EXCEPT ![n] = NoCheck]
  /\ UNCHANGED <<sock, app, udp, conns, count>>

-----------------------------------------------------------------------------
Lose(p) == udp' = udp \ {p} /\ UNCHANGED <<mem, sock, app, chk, conns, count>>

\* What a node does inside a call of the library.
Inside(n) ==
  \/ CheckStart(n) \/ CheckNext(n) \/ LinkHeader(n) \/ LinkRecords(n) \/ LinkEof(n) \/ CheckEnd(n)
  \/ \E sends \in BOOLEAN : DeviceNext(n, sends)
  \/ \E k \in DOMAIN conns : Accept(n, k)
  \/ \E p \in udp, again \in BOOLEAN : TopLevel(n, p, again)

Next ==
  \/ \E n \in Nodes :
       \/ SocketOpen(n) \/ SocketClose(n) \/ Exit(n)
       \/ \E o \in Opens(n) : DeviceOpen(n, o)
       \/ OpenDone(n) \/ OpenExpire(n) \/ Inside(n)
       \/ \E d \in Range(sock[n].devs) : DeviceClose(n, d)
  \/ \E p \in udp : Lose(p)

\* A node that is inside a call goes on, and time passes.
Fairness == \A n \in Nodes : /\ WF_vars(Inside(n) \/ OpenDone(n))
                             /\ SF_vars(OpenDone(n)) /\ SF_vars(OpenExpire(n))

Spec == Init /\ [][Next]_vars /\ Fairness

-----------------------------------------------------------------------------
(* Properties                                                              *)

Devices(n) == Range(sock[n].devs)

\* Items have their types, and eb_socket_check looks only at devices that are open,
\* although the one it handles may be closed meanwhile (socket.c:424).
TypeOK ==
  \A n \in Nodes :
    /\ app[n].pc = "probe" => app[n].dev \in Devices(n) /\ app[n].tries > 0
    /\ {chk[n].at, chk[n].next} \subseteq Devices(n) \cup {0}
    /\ chk[n].link # 0 => Item(n, chk[n].link) = Link(0)
    /\ \A d \in Devices(n) : Item(n, d).is = "device" /\ (Item(n, d).link # 0 => Item(n, Item(n, d).link).is = "link")
    /\ \A t \in Range(sock[n].trans) : Item(n, t).is = "transport"

\* Every item of the pool is free or held once, by the socket, the list of devices,
\* a device or the running eb_socket_check; and a node has a connection open for
\* each link that says so, and no other: whatever failed, and at whatever point
\* memory ran out (socket.c:78-146, device.c:50-165, 228-263, slave.c:451-464).
Held(n) ==
  LET s == sock[n]
      links == [i \in DOMAIN s.devs |-> Item(n, s.devs[i]).link]
  IN <<s.self, s.aux, chk[n].link>> \o s.trans \o s.devs \o links
Once(q) == \A i, j \in DOMAIN q : q[i] = q[j] /\ q[i] # 0 => i = j
NothingLeaks ==
  \A n \in Nodes :
    /\ Once(Held(n) \o mem[n].free)
    /\ Range(Held(n) \o mem[n].free) \ {0} = DOMAIN mem[n].heap
    /\ \A k \in DOMAIN conns :
         n \in conns[k].ends <=> \E d \in Devices(n) : ConnOf(n, d) = k

\* An open device has one width of each kind, its own socket's.
Chosen(n, d) == Refined(Item(n, d).widths) /\ Meet(Item(n, d).widths, Widths[n]) = Item(n, d).widths
Opened(n) == {d \in Devices(n) : ~Item(n, d).passive /\ app[n].dev # d}

\* Until an answer strays, open devices have the widths that were chosen, and on a
\* stream bytes arrive only where no header is expected any more and are understood
\* with the very widths they were sent with (slave.c:112-176 against device.c:117-158).
EndsAgree ==
  ~stray => \A n \in Nodes :
    /\ \A d \in Opened(n) : Chosen(n, d)
    /\ \A d \in Devices(n) : LET k == ConnOf(n, d) IN
         k # 0 /\ conns[k].kind = "tcp" => \A i \in DOMAIN conns[k].q[n] :
           conns[k].q[n][i].t = "data" => Item(n, d).widths = conns[k].q[n][i].w

\* etherbone.h:389-390: "The proposed_widths is intersected with the remote and local
\* socket widths. From the remaining widths, the largest address and data width is
\* chosen."
WidthsStayChosen == \A n \in Nodes : \A d \in Opened(n) : Chosen(n, d)

\* eb_device_open returns, whatever is lost, repeated or late, and whoever goes away
\* (device.c:119-141).
OpenReturns == \A n \in Nodes : app[n].pc = "probe" ~> app[n].pc = "idle"
=============================================================================
